-------------------------- MODULE RtcPlugin_proofs --------------------------
(***************************************************************************)
(* Proofs about the gateway plugin, for any number of requests, nodes and  *)
(* calls: every step of a handler is a method of the class or leaves its   *)
(* state alone, so what is proved of the class holds here too; and what    *)
(* the callers are told agrees with the records.                           *)
(***************************************************************************)
EXTENDS RtcPlugin, CallOrchestrator_proofs, SequenceTheorems

------------------------------------------------------------------------------
(* The plugin uses the class as the class is meant to be used *)

LEMMA ReasonsFact == /\ "gateway-shutdown" \in Reasons
                     /\ InvokeFailed \in Reasons
BY OrchestratorAssumption, PluginAssumption

LEMMA ArriveUsesClass ==
    ASSUME NEW r \in Requests, Arrive(r)
    PROVE  [Next]_orchVars
<1>1. ASSUME NEW s \in SessionKeys, NEW c \in CallIds, StartAccepted(r, c, s)
      PROVE  Next
  BY <1>1 DEF StartAccepted, Next
<1>2. ASSUME NEW c \in CallIds, NEW registry \in BOOLEAN, IceRequest(r, c, registry)
      PROVE  Next
  BY <1>2 DEF IceRequest, Next
<1>3. ASSUME NEW c \in CallIds, NEW registry \in BOOLEAN, NEW reason \in Reasons,
             HangupRequest(r, c, reason, registry)
      PROVE  Next
  BY <1>3 DEF HangupRequest, Next
<1>4. QED
  BY <1>1, <1>2, <1>3 DEF Arrive, StartRefused, RequestRefused

LEMMA ResumeUsesClass ==
    ASSUME PluginTypeOK, NEW r \in Requests, Resume(r)
    PROVE  [Next]_orchVars
<1>1. Awaiting(r) /\ handlers[r].call \in CallIds
  BY DEF Resume, StartAnswered, StartUnanswered, ForwardReturned, InvokeTimeout,
         PluginTypeOK, HandlerRecord
<1>2. ASSUME NEW sdp \in Sdps, StartAnswered(r, sdp)
      PROVE  [Next]_orchVars
  BY <1>1, <1>2 DEF StartAnswered, Next
<1>3. CASE StartUnanswered(r)
  BY <1>1, <1>3, ReasonsFact DEF StartUnanswered, Next
<1>4. QED
  BY <1>2, <1>3 DEF Resume, ForwardReturned, InvokeTimeout

LEMMA PluginStepUsesClass ==
    ASSUME PluginTypeOK, [PluginNext]_pluginVars
    PROVE  [Next]_orchVars
<1>1. ASSUME NEW r \in Requests, Arrive(r) \/ Resume(r)
      PROVE  [Next]_orchVars
  BY <1>1, ArriveUsesClass, ResumeUsesClass
<1>2. ASSUME NEW n \in Nodes, NodeConnect(n) \/ NodeDisconnect(n)
      PROVE  [Next]_orchVars
  BY <1>2 DEF NodeConnect, NodeDisconnect
<1>3. CASE ServiceStop
  BY <1>3 DEF ServiceStop, Next
<1>4. CASE UNCHANGED pluginVars
  BY <1>4 DEF pluginVars, orchVars
<1>5. QED
  BY <1>1, <1>2, <1>3, <1>4 DEF PluginNext

------------------------------------------------------------------------------
(* What a step does to one handler *)

\* A handler may answer at once, start to wait, or be settled.
HandlerStep(h, new) ==
    \/ new = h
    \/ /\ h = NoRequest
       /\ new \in HandlerRecord
       /\ \/ new.call = Undefined /\ new.outcome = "none"
          \/ /\ new.call \in CallIds
             /\ calls'[new.call].state # "absent"
             /\ new.outcome = "pending" => new.response = "none"
    \/ /\ h.outcome = "pending"
       /\ \E outcome \in {"answer", "null", "reject"}, response \in {"ok", "error"} :
             new = Settled(h, outcome, response)

HandlersStep ==
    /\ handlers' = [r \in Requests |-> handlers'[r]]
    /\ \A r \in Requests : HandlerStep(handlers[r], handlers'[r])

\* A handler step for r alone.
LEMMA OneHandler ==
    ASSUME PluginTypeOK, NEW r \in Requests, NEW new,
           handlers' = [handlers EXCEPT ![r] = new],
           HandlerStep(handlers[r], new)
    PROVE  HandlersStep
BY DEF PluginTypeOK, HandlersStep, HandlerStep

LEMMA findRtcNodeType ==
    ASSUME connected \in Seq(Nodes)
    PROVE  findRtcNode \in Nodes \cup {Undefined}
BY DEF findRtcNode

LEMMA AwaitStep ==
    ASSUME PluginTypeOK, NEW r \in Requests, NEW method \in {"start", "ice", "hangup"},
           NEW c \in CallIds, Known(c)', Fresh(r), Await(r, method, c)
    PROVE  HandlersStep
<1> DEFINE new == [method |-> method, call |-> c, node |-> findRtcNode,
                   outcome |-> "pending", response |-> "none"]
<1>1. new \in HandlerRecord
  BY findRtcNodeType DEF PluginTypeOK, HandlerRecord
<1>2. HandlerStep(handlers[r], new)
  BY <1>1 DEF HandlerStep, Fresh, Known
<1>3. handlers' = [handlers EXCEPT ![r] = new]
  BY DEF Await
<1>4. QED
  BY <1>2, <1>3, OneHandler

LEMMA RespondStep ==
    ASSUME PluginTypeOK, NEW r \in Requests, NEW method \in {"start", "ice", "hangup"},
           NEW c, c = Undefined \/ (c \in CallIds /\ Known(c)'),
           NEW response \in {"ok", "error"}, Fresh(r), Respond(r, method, c, response)
    PROVE  HandlersStep
<1> DEFINE new == [method |-> method, call |-> c, node |-> Undefined,
                   outcome |-> "none", response |-> response]
<1>1. new \in HandlerRecord
  BY DEF HandlerRecord
<1>2. HandlerStep(handlers[r], new)
  BY <1>1 DEF HandlerStep, Fresh, Known
<1>3. handlers' = [handlers EXCEPT ![r] = new]
  BY DEF Respond
<1>4. QED
  BY <1>2, <1>3, OneHandler

LEMMA FinishStep ==
    ASSUME PluginTypeOK, NEW r \in Requests, Awaiting(r),
           NEW outcome \in {"answer", "null", "reject"}, NEW response \in {"ok", "error"},
           Finish(r, outcome, response)
    PROVE  HandlersStep
<1>1. HandlerStep(handlers[r], Settled(handlers[r], outcome, response))
  BY DEF HandlerStep, Awaiting
<1>2. handlers' = [handlers EXCEPT ![r] = Settled(handlers[r], outcome, response)]
  BY DEF Finish
<1>3. QED
  BY <1>1, <1>2, OneHandler

\* A call the orchestrator knows stays known.
LEMMA KnownStays ==
    ASSUME TypeOK, [Next]_orchVars, NEW c \in CallIds, Known(c)
    PROVE  Known(c)'
<1>1. CASE RecordsStep
  <2>1. RecordStep(calls[c], calls'[c]) /\ calls[c] \in RtcCallRecord
    BY <1>1 DEF RecordsStep, TypeOK
  <2>2. QED
    BY <2>1 DEF RecordStep, Answered, Activated, EntryAdded, Finished, Ended,
                RtcCallRecord, Known, LiveStates, HangupState
<1>2. ASSUME NEW d \in CallIds, NEW s \in SessionKeys, startCall(d, s)
      PROVE  Known(c)'
  BY <1>2 DEF startCall, Known, TypeOK
<1>3. QED
  BY <1>1, <1>2, StepShape, StepRecords

LEMMA ArriveHandlers ==
    ASSUME PluginTypeOK, NEW r \in Requests, Arrive(r)
    PROVE  HandlersStep /\ UNCHANGED connected
<1>0. [Next]_orchVars /\ TypeOK
  BY ArriveUsesClass DEF PluginTypeOK
<1>1. ASSUME NEW s \in SessionKeys, NEW c \in CallIds, StartAccepted(r, c, s)
      PROVE  HandlersStep
  <2>1. Known(c)'
    BY <1>0, <1>1 DEF StartAccepted, startCall, Known, Record, TypeOK
  <2>2. QED
    BY <1>1, <2>1, AwaitStep DEF StartAccepted
<1>2. ASSUME NEW s \in SessionKeys, NEW sound \in BOOLEAN, StartRefused(r, s, sound)
      PROVE  HandlersStep
  BY <1>2, RespondStep DEF StartRefused
<1>3. ASSUME NEW c \in CallIds, NEW registry \in BOOLEAN,
             NEW method \in {"ice", "hangup"}, Fresh(r), Known(c),
             Forward(r, method, c, registry)
      PROVE  HandlersStep
  <2>1. Known(c)'
    BY <1>0, <1>3, KnownStays
  <2>2. QED
    BY <1>3, <2>1, AwaitStep, RespondStep DEF Forward
<1>4. ASSUME NEW method \in {"ice", "hangup"}, RequestRefused(r, method)
      PROVE  HandlersStep
  BY <1>4, RespondStep DEF RequestRefused
<1>5. ASSUME NEW c \in CallIds, NEW registry \in BOOLEAN, IceRequest(r, c, registry)
      PROVE  HandlersStep
  BY <1>3, <1>5 DEF IceRequest, handleIceCandidate
<1>6. ASSUME NEW c \in CallIds, NEW registry \in BOOLEAN, NEW reason \in Reasons,
             HangupRequest(r, c, reason, registry)
      PROVE  HandlersStep
  BY <1>3, <1>6 DEF HangupRequest, hangup, EndCall
<1>7. UNCHANGED connected
  BY DEF Arrive, StartAccepted, StartRefused, IceRequest, HangupRequest, RequestRefused, Forward
<1>8. QED
  BY <1>1, <1>2, <1>4, <1>5, <1>6, <1>7 DEF Arrive

LEMMA ResumeHandlers ==
    ASSUME PluginTypeOK, NEW r \in Requests, Resume(r)
    PROVE  HandlersStep /\ UNCHANGED connected
<1>1. ASSUME NEW sdp \in Sdps, StartAnswered(r, sdp)
      PROVE  HandlersStep
  BY <1>1, FinishStep DEF StartAnswered
<1>2. CASE StartUnanswered(r)
  BY <1>2, FinishStep DEF StartUnanswered
<1>3. ASSUME NEW outcome \in {"answer", "null"}, ForwardReturned(r, outcome)
      PROVE  HandlersStep
  BY <1>3, FinishStep DEF ForwardReturned
<1>4. CASE InvokeTimeout(r)
  BY <1>4, FinishStep DEF InvokeTimeout
<1>5. UNCHANGED connected
  BY DEF Resume, StartAnswered, StartUnanswered, ForwardReturned, InvokeTimeout
<1>6. QED
  BY <1>1, <1>2, <1>3, <1>4, <1>5 DEF Resume

LEMMA NodeDisconnectHandlers ==
    ASSUME PluginTypeOK, NEW n \in Nodes, NodeDisconnect(n)
    PROVE  HandlersStep
<1>1. ASSUME NEW r \in Requests
      PROVE  HandlerStep(handlers[r], handlers'[r])
  BY <1>1 DEF NodeDisconnect, HandlerStep, Awaiting
<1>2. QED
  BY <1>1 DEF NodeDisconnect, HandlersStep

LEMMA StepHandlers ==
    ASSUME PluginTypeOK, [PluginNext]_pluginVars
    PROVE  HandlersStep
<1>1. ASSUME NEW r \in Requests, Arrive(r) \/ Resume(r)
      PROVE  HandlersStep
  BY <1>1, ArriveHandlers, ResumeHandlers
<1>2. ASSUME NEW n \in Nodes, NodeConnect(n) \/ NodeDisconnect(n)
      PROVE  HandlersStep
  BY <1>2, NodeDisconnectHandlers DEF NodeConnect, HandlersStep, HandlerStep, PluginTypeOK
<1>3. CASE ServiceStop \/ UNCHANGED pluginVars
  BY <1>3 DEF ServiceStop, pluginVars, HandlersStep, HandlerStep, PluginTypeOK
<1>4. QED
  BY <1>1, <1>2, <1>3 DEF PluginNext

\* The list of connected nodes stays a list of nodes.
LEMMA StepConnected ==
    ASSUME PluginTypeOK, [PluginNext]_pluginVars
    PROVE  connected' \in Seq(Nodes)
<1>1. connected \in Seq(Nodes)
  BY DEF PluginTypeOK
<1>2. ASSUME NEW r \in Requests, Arrive(r) \/ Resume(r)
      PROVE  UNCHANGED connected
  BY <1>2, ArriveHandlers, ResumeHandlers
<1>3. ASSUME NEW n \in Nodes, NodeConnect(n)
      PROVE  connected' \in Seq(Nodes)
  BY <1>1, <1>3 DEF NodeConnect
<1>4. ASSUME NEW n \in Nodes, NodeDisconnect(n)
      PROVE  connected' \in Seq(Nodes)
  <2>1. PICK i \in 1..Len(connected) :
           connected' = SubSeq(connected, 1, i - 1)
                           \o SubSeq(connected, i + 1, Len(connected))
    BY <1>4 DEF NodeDisconnect
  <2>2. SubSeq(connected, 1, i - 1) \in Seq(Nodes)
    BY <1>1
  <2>3. SubSeq(connected, i + 1, Len(connected)) \in Seq(Nodes)
    BY <1>1
  <2>4. QED
    BY <2>1, <2>2, <2>3
<1>5. CASE ServiceStop \/ UNCHANGED pluginVars
  BY <1>1, <1>5 DEF ServiceStop, pluginVars
<1>6. QED
  BY <1>1, <1>2, <1>3, <1>4, <1>5 DEF PluginNext

LEMMA StepPluginTypeOK ==
    ASSUME PluginTypeOK, [PluginNext]_pluginVars
    PROVE  PluginTypeOK'
<1>1. TypeOK /\ [Next]_orchVars
  BY PluginStepUsesClass DEF PluginTypeOK
<1>2. TypeOK'
  BY <1>1, StepTypeOK
<1>3. connected' \in Seq(Nodes)
  BY StepConnected
<1>4. HandlersStep
  BY StepHandlers
<1>5. ASSUME NEW r \in Requests
      PROVE  /\ handlers'[r] \in HandlerRecord
             /\ handlers'[r].call # Undefined => calls'[handlers'[r].call].state # "absent"
             /\ Awaiting(r)' => handlers'[r].call # Undefined /\ handlers'[r].response = "none"
  <2>1. /\ HandlerStep(handlers[r], handlers'[r])
        /\ handlers[r] \in HandlerRecord
        /\ handlers[r].call # Undefined => Known(handlers[r].call)
        /\ Awaiting(r) => handlers[r].call # Undefined /\ handlers[r].response = "none"
    BY <1>4 DEF HandlersStep, PluginTypeOK
  <2>2. handlers[r].call # Undefined => calls'[handlers[r].call].state # "absent"
    <3>1. ASSUME NEW c \in CallIds, calls[c].state # "absent"
          PROVE  calls'[c].state # "absent"
      BY <1>1, <3>1, KnownStays DEF Known
    <3>2. QED
      BY <2>1, <3>1 DEF HandlerRecord, Known
  <2>3. CASE handlers'[r] = handlers[r]
    BY <2>1, <2>2, <2>3 DEF Awaiting, Known
  <2>4. CASE /\ handlers'[r] \in HandlerRecord
             /\ \/ handlers'[r].call = Undefined /\ handlers'[r].outcome = "none"
                \/ /\ handlers'[r].call \in CallIds
                   /\ calls'[handlers'[r].call].state # "absent"
                   /\ handlers'[r].outcome = "pending" => handlers'[r].response = "none"
    BY <2>4, OrchestratorAssumption DEF Awaiting
  <2>5. ASSUME NEW outcome \in {"answer", "null", "reject"}, NEW response \in {"ok", "error"},
               handlers'[r] = Settled(handlers[r], outcome, response)
        PROVE  /\ handlers'[r] \in HandlerRecord
               /\ handlers'[r].call = handlers[r].call
               /\ handlers'[r].outcome # "pending"
    BY <2>1, <2>5 DEF Settled, HandlerRecord
  <2>6. QED
    BY <2>1, <2>2, <2>3, <2>4, <2>5 DEF HandlerStep, Awaiting
<1>6. handlers' \in [Requests -> HandlerRecord]
  BY <1>4, <1>5 DEF HandlersStep
<1>7. QED
  BY <1>2, <1>3, <1>5, <1>6 DEF PluginTypeOK, Known

\* Handlers, registry and records are always of their types.
THEOREM PluginTypeCorrect == PluginSpec => []PluginTypeOK
<1>1. PluginInit => PluginTypeOK
  BY NoRecordType DEF PluginInit, PluginTypeOK, Init, TypeOK, NoRequest, HandlerRecord, Awaiting
<1>2. PluginTypeOK /\ [PluginNext]_pluginVars => PluginTypeOK'
  BY StepPluginTypeOK
<1>3. QED
  BY <1>1, <1>2, PTL DEF PluginSpec

\* The plugin is a behaviour of the class: every theorem about the class holds
\* of the plugin, however its handlers interleave.
THEOREM PluginUsesClass == PluginSpec => Spec
<1>1. PluginTypeOK /\ [PluginNext]_pluginVars => [Next]_orchVars
  BY PluginStepUsesClass
<1>2. PluginInit => Init
  BY DEF PluginInit
<1>3. QED
  BY <1>1, <1>2, PluginTypeCorrect, PTL DEF PluginSpec, Spec

\* For instance, the plugin too keeps to the concurrency limit, and finds the one
\* live call of a session under its key.
THEOREM PluginKeepsLimits == PluginSpec => [](CapacityBound /\ MapFindsLiveCall)
BY PluginUsesClass, CapacityRespected, LiveCallFound, PTL

------------------------------------------------------------------------------
(* Who a step is about *)

\* A request that arrives or resumes changes no other handler.
LEMMA OthersUnchanged ==
    ASSUME PluginTypeOK, NEW r \in Requests, Arrive(r) \/ Resume(r),
           NEW q \in Requests, q # r
    PROVE  handlers'[q] = handlers[q]
<1>1. \E new : handlers' = [handlers EXCEPT ![r] = new]
  <2>1. CASE Arrive(r)
    BY <2>1 DEF Arrive, StartAccepted, StartRefused, IceRequest, HangupRequest,
                RequestRefused, Forward, Await, Respond
  <2>2. CASE Resume(r)
    BY <2>2 DEF Resume, StartAnswered, StartUnanswered, ForwardReturned, InvokeTimeout, Finish
  <2>3. QED
    BY <2>1, <2>2
<1>2. QED
  BY <1>1 DEF PluginTypeOK

\* A handler keeps its method and its call once it has them.
LEMMA HandlerKeeps ==
    ASSUME PluginTypeOK, [PluginNext]_pluginVars, NEW r \in Requests, ~Arrive(r)
    PROVE  /\ handlers'[r].method = handlers[r].method
           /\ handlers'[r].call = handlers[r].call
<1>0. handlers \in [Requests -> HandlerRecord]
  BY DEF PluginTypeOK
<1>1. ASSUME NEW q \in Requests, Arrive(q) \/ Resume(q), q # r
      PROVE  handlers'[r] = handlers[r]
  BY <1>1, OthersUnchanged
<1>2. CASE Resume(r)
  <2>1. \E outcome, response : Finish(r, outcome, response)
    BY <1>2 DEF Resume, StartAnswered, StartUnanswered, ForwardReturned, InvokeTimeout
  <2>2. PICK outcome, response :
           handlers' = [handlers EXCEPT ![r] = Settled(handlers[r], outcome, response)]
    BY <2>1 DEF Finish
  <2>3. handlers'[r] = Settled(handlers[r], outcome, response) /\ handlers[r] \in HandlerRecord
    BY <1>0, <2>2
  <2>4. QED
    BY <2>3 DEF Settled, HandlerRecord
<1>3. ASSUME NEW n \in Nodes, NodeConnect(n) \/ NodeDisconnect(n)
      PROVE  /\ handlers'[r].method = handlers[r].method
             /\ handlers'[r].call = handlers[r].call
  <2>1. \/ handlers'[r] = handlers[r]
        \/ handlers'[r] = Settled(handlers[r], "reject", "error")
    BY <1>3 DEF NodeConnect, NodeDisconnect
  <2>2. QED
    BY <1>0, <2>1 DEF Settled, HandlerRecord
<1>4. CASE ServiceStop \/ UNCHANGED pluginVars
  BY <1>4 DEF ServiceStop, pluginVars
<1>5. QED
  BY <1>1, <1>2, <1>3, <1>4 DEF PluginNext

\* What a new handler can be: a start that placed a call, a hang-up that ended
\* one, or something else.
LEMMA ArrivedStart ==
    ASSUME PluginTypeOK, NEW r \in Requests, Arrive(r), StartedCall(r)' # Undefined
    PROVE  \E c \in CallIds, s \in SessionKeys :
              /\ StartAccepted(r, c, s)
              /\ StartedCall(r)' = c
              /\ Awaiting(r)'
<1>0. handlers \in [Requests -> HandlerRecord]
  BY DEF PluginTypeOK
<1>1. ASSUME NEW c \in CallIds, NEW s \in SessionKeys, StartAccepted(r, c, s)
      PROVE  StartedCall(r)' = c /\ Awaiting(r)'
  BY <1>0, <1>1 DEF StartAccepted, Await, StartedCall, Awaiting
<1>2. ASSUME NEW s \in SessionKeys, NEW sound \in BOOLEAN, StartRefused(r, s, sound)
      PROVE  FALSE
  BY <1>0, <1>2 DEF StartRefused, Respond, StartedCall
<1>3. ASSUME NEW c \in CallIds, NEW registry \in BOOLEAN,
             NEW method \in {"ice", "hangup"}, Forward(r, method, c, registry)
      PROVE  FALSE
  BY <1>0, <1>3 DEF Forward, Await, Respond, StartedCall
<1>4. ASSUME NEW method \in {"ice", "hangup"}, RequestRefused(r, method)
      PROVE  FALSE
  BY <1>0, <1>4 DEF RequestRefused, Respond, StartedCall
<1>5. QED
  BY <1>1, <1>2, <1>3, <1>4 DEF Arrive, IceRequest, HangupRequest

LEMMA ArrivedHangup ==
    ASSUME PluginTypeOK, NEW r \in Requests, Arrive(r),
           handlers'[r].method = "hangup", handlers'[r].call # Undefined
    PROVE  \E c \in CallIds : handlers'[r].call = c /\ Terminal(c)'
<1>0. handlers \in [Requests -> HandlerRecord] /\ TypeOK
  BY DEF PluginTypeOK
<1>1. ASSUME NEW c \in CallIds, NEW registry \in BOOLEAN, NEW reason \in Reasons,
             HangupRequest(r, c, reason, registry)
      PROVE  handlers'[r].call = c /\ Terminal(c)'
  <2>1. handlers'[r].call = c
    BY <1>0, <1>1 DEF HangupRequest, Forward, Await, Respond
  <2>2. EndCall(c, HangupState(reason), reason)
    BY <1>1 DEF HangupRequest, hangup
  <2>3. Terminal(c)'
    BY <1>0, <2>2 DEF EndCall, Terminal, Ended, HangupState, TERMINAL_STATES, TypeOK,
                      RtcCallRecord
  <2>4. QED
    BY <2>1, <2>3
<1>2. ASSUME NEW s \in SessionKeys, NEW sound \in BOOLEAN, StartRefused(r, s, sound)
      PROVE  FALSE
  BY <1>0, <1>2 DEF StartRefused, Respond
<1>3. ASSUME NEW s \in SessionKeys, NEW c \in CallIds, StartAccepted(r, c, s)
      PROVE  FALSE
  BY <1>0, <1>3 DEF StartAccepted, Await
<1>4. ASSUME NEW c \in CallIds, NEW registry \in BOOLEAN, IceRequest(r, c, registry)
      PROVE  FALSE
  BY <1>0, <1>4 DEF IceRequest, Forward, Await, Respond
<1>5. ASSUME NEW method \in {"ice", "hangup"}, RequestRefused(r, method)
      PROVE  FALSE
  BY <1>0, <1>5 DEF RequestRefused, Respond
<1>6. QED
  BY <1>1, <1>2, <1>3, <1>4, <1>5 DEF Arrive

LEMMA TerminalStays ==
    ASSUME TypeOK, [Next]_orchVars, NEW c \in CallIds, Terminal(c)
    PROVE  Terminal(c)'
<1>1. CASE RecordsStep
  <2>1. RecordStep(calls[c], calls'[c]) /\ calls[c] \in RtcCallRecord
    BY <1>1 DEF RecordsStep, TypeOK
  <2>2. QED
    BY <2>1 DEF RecordStep, Answered, Activated, EntryAdded, Finished, LiveStates,
                TERMINAL_STATES, RtcCallRecord, Terminal
<1>2. ASSUME NEW d \in CallIds, NEW s \in SessionKeys, startCall(d, s)
      PROVE  Terminal(c)'
  BY <1>2 DEF startCall, Known, TypeOK, Terminal, TERMINAL_STATES
<1>3. QED
  BY <1>1, <1>2, StepShape, StepRecords

------------------------------------------------------------------------------
(* A hang-up takes effect *)

\* A call somebody hung up is over, whatever its node answers afterwards.
THEOREM HangupIsFinal == PluginSpec => []HangupTakesEffect
<1>1. PluginInit => HangupTakesEffect
  BY DEF PluginInit, HangupTakesEffect, NoRequest
<1>2. ASSUME PluginTypeOK, HangupTakesEffect, [PluginNext]_pluginVars
      PROVE  HangupTakesEffect'
  <2>1. SUFFICES ASSUME NEW r \in Requests,
                        handlers'[r].method = "hangup", handlers'[r].call # Undefined
                 PROVE  calls'[handlers'[r].call].state \in TERMINAL_STATES
    BY DEF HangupTakesEffect, Terminal
  <2>2. CASE Arrive(r)
    BY <1>2, <2>1, <2>2, ArrivedHangup DEF Terminal
  <2>3. CASE ~Arrive(r)
    <3>1. handlers'[r].call = handlers[r].call /\ handlers[r].method = "hangup"
      BY <1>2, <2>1, <2>3, HandlerKeeps
    <3>2. PICK c \in CallIds : c = handlers[r].call /\ Terminal(c)
      BY <1>2, <2>1, <3>1 DEF HangupTakesEffect, PluginTypeOK, HandlerRecord
    <3>3. Terminal(c)'
      BY <1>2, <3>2, TerminalStays, PluginStepUsesClass DEF PluginTypeOK
    <3>4. QED
      BY <3>1, <3>2, <3>3 DEF Terminal
  <2>4. QED
    BY <2>2, <2>3
<1>3. QED
  BY <1>1, <1>2, PluginTypeCorrect, PTL DEF PluginSpec

------------------------------------------------------------------------------
(* Calls and the requests that placed them *)

\* Every step, seen from request r and the call c it placed: the node's answer
\* was taken, or came too late; the node could not take the call; or the record
\* moved on at most to a hang-up while r went on waiting or its invoke was
\* rejected.
AnswerTaken(r, c) ==
    /\ Awaiting(r)
    /\ calls[c].state = "initiating"
    /\ calls'[c].state = "connecting"
    /\ calls'[c].answerSdp # Undefined
    /\ handlers'[r] = Settled(handlers[r], "answer", "ok")

AnswerTooLate(r, c) ==
    /\ Awaiting(r)
    /\ calls[c].state # "initiating"
    /\ calls'[c] = calls[c]
    /\ handlers'[r] = Settled(handlers[r], "answer", "error")

NodeRefused(r, c) ==
    /\ Awaiting(r)
    /\ calls'[c].state \in TERMINAL_STATES
    /\ calls'[c].answerSdp = calls[c].answerSdp
    /\ handlers'[r] = Settled(handlers[r], "null", "error")

Meanwhile(r, c) ==
    /\ calls'[c].answerSdp = calls[c].answerSdp
    /\ calls'[c].state = "error" => calls[c].state = "error"
    /\ calls'[c].state = "initiating" => calls[c].state = "initiating"
    /\ \/ handlers'[r] = handlers[r]
       \/ Awaiting(r) /\ handlers'[r] = Settled(handlers[r], "reject", "error")

LEMMA ResumeOfStart ==
    ASSUME PluginTypeOK, NEW r \in Requests, Resume(r),
           NEW c \in CallIds, StartedCall(r) = c
    PROVE  AnswerTaken(r, c) \/ AnswerTooLate(r, c) \/ NodeRefused(r, c) \/ Meanwhile(r, c)
<1>0. /\ handlers \in [Requests -> HandlerRecord]
      /\ calls \in [CallIds -> RtcCallRecord]
      /\ handlers[r].method = "start" /\ handlers[r].call = c
  BY OrchestratorAssumption DEF PluginTypeOK, TypeOK, StartedCall
<1>1. ASSUME NEW sdp \in Sdps, StartAnswered(r, sdp)
      PROVE  AnswerTaken(r, c) \/ AnswerTooLate(r, c)
  <2>1. CASE handleAnswer(c, sdp) /\ Finish(r, "answer", "ok")
    BY <1>0, <1>1, <2>1, OrchestratorAssumption
    DEF StartAnswered, handleAnswer, Finish, AnswerTaken, RtcCallRecord
  <2>2. CASE /\ calls[c].state # "initiating"
             /\ Finish(r, "answer", "error")
             /\ UNCHANGED orchVars
    BY <1>0, <1>1, <2>2 DEF StartAnswered, Finish, AnswerTooLate, orchVars
  <2>3. QED
    BY <1>0, <1>1, <2>1, <2>2 DEF StartAnswered
<1>2. CASE StartUnanswered(r)
  <2>1. Awaiting(r) /\ EndCall(c, "error", InvokeFailed) /\ Finish(r, "null", "error")
    BY <1>0, <1>2 DEF StartUnanswered, setError
  <2>2. /\ calls'[c].state \in TERMINAL_STATES
        /\ calls'[c].answerSdp = calls[c].answerSdp
    BY <1>0, <2>1 DEF EndCall, Terminal, Ended, TERMINAL_STATES, RtcCallRecord
  <2>3. QED
    BY <1>0, <2>1, <2>2 DEF Finish, NodeRefused
<1>3. ASSUME NEW outcome \in {"answer", "null"}, ForwardReturned(r, outcome)
      PROVE  FALSE
  BY <1>0, <1>3 DEF ForwardReturned
<1>4. CASE InvokeTimeout(r)
  BY <1>0, <1>4 DEF InvokeTimeout, Finish, Meanwhile, orchVars
<1>5. QED
  BY <1>1, <1>2, <1>3, <1>4 DEF Resume

\* What another request does to c, which it did not place.
LEMMA OtherRequest ==
    ASSUME PluginTypeOK, NEW q \in Requests, Arrive(q) \/ Resume(q),
           NEW c \in CallIds, Known(c), StartedCall(q) # c
    PROVE  /\ calls'[c].answerSdp = calls[c].answerSdp
           /\ calls'[c].state = "error" => calls[c].state = "error"
           /\ calls'[c].state = "initiating" => calls[c].state = "initiating"
<1>0. /\ calls \in [CallIds -> RtcCallRecord]
      /\ handlers \in [Requests -> HandlerRecord]
      /\ Awaiting(q) => handlers[q].call \in CallIds
  BY DEF PluginTypeOK, TypeOK, HandlerRecord
<1> DEFINE Goal == /\ calls'[c].answerSdp = calls[c].answerSdp
                   /\ calls'[c].state = "error" => calls[c].state = "error"
                   /\ calls'[c].state = "initiating" => calls[c].state = "initiating"
<1>1. ASSUME NEW s \in SessionKeys, NEW d \in CallIds, StartAccepted(q, d, s)
      PROVE  Goal
  BY <1>0, <1>1 DEF StartAccepted, startCall, Known
<1>2. ASSUME NEW d \in CallIds, NEW registry \in BOOLEAN, IceRequest(q, d, registry)
      PROVE  Goal
  <2>1. CASE UNCHANGED calls
    BY <2>1
  <2>2. CASE calls' = [calls EXCEPT ![d].remoteCandidates = @ + 1]
    <3>1. \/ calls'[c] = calls[c]
          \/ calls'[c] = [calls[c] EXCEPT !.remoteCandidates = @ + 1]
      BY <1>0, <2>2
    <3>2. QED
      BY <1>0, <3>1 DEF RtcCallRecord
  <2>3. QED
    BY <1>2, <2>1, <2>2 DEF IceRequest, handleIceCandidate
<1>3. ASSUME NEW d \in CallIds, NEW registry \in BOOLEAN, NEW reason \in Reasons,
             HangupRequest(q, d, reason, registry)
      PROVE  Goal
  <2>1. \/ calls'[c] = calls[c]
        \/ calls'[c] = Ended(calls[c], HangupState(reason), reason)
    BY <1>0, <1>3 DEF HangupRequest, hangup, EndCall
  <2>2. QED
    BY <1>0, <2>1 DEF Ended, HangupState, RtcCallRecord
<1>4. ASSUME NEW sdp \in Sdps, StartAnswered(q, sdp)
      PROVE  Goal
  <2>1. handlers[q].call # c
    BY <1>4 DEF StartAnswered, StartedCall
  <2>2. calls'[c] = calls[c]
    BY <1>0, <1>4, <2>1 DEF StartAnswered, handleAnswer, orchVars
  <2>3. QED
    BY <2>2
<1>5. CASE StartUnanswered(q)
  <2>1. handlers[q].call # c
    BY <1>5 DEF StartUnanswered, StartedCall
  <2>2. calls'[c] = calls[c]
    BY <1>0, <1>5, <2>1 DEF StartUnanswered, setError, EndCall
  <2>3. QED
    BY <2>2
<1>6. ASSUME UNCHANGED orchVars
      PROVE  Goal
  BY <1>6 DEF orchVars
<1>7. QED
  BY <1>1, <1>2, <1>3, <1>4, <1>5, <1>6
  DEF Arrive, Resume, StartRefused, RequestRefused, ForwardReturned, InvokeTimeout

\* The four cases are all there are once r has placed c and no other request has.
LEMMA StepOfStart ==
    ASSUME PluginTypeOK, [PluginNext]_pluginVars, NEW r \in Requests, ~Arrive(r),
           NEW c \in CallIds, StartedCall(r) = c,
           \A q \in Requests : StartedCall(q) = c => q = r
    PROVE  AnswerTaken(r, c) \/ AnswerTooLate(r, c) \/ NodeRefused(r, c) \/ Meanwhile(r, c)
<1>0. /\ calls \in [CallIds -> RtcCallRecord]
      /\ Known(c)
  BY OrchestratorAssumption DEF PluginTypeOK, TypeOK, StartedCall
<1>1. CASE Resume(r)
  BY <1>1, ResumeOfStart
<1>2. ASSUME NEW q \in Requests, Arrive(q) \/ Resume(q), q # r
      PROVE  Meanwhile(r, c)
  <2>1. handlers'[r] = handlers[r]
    BY <1>2, OthersUnchanged
  <2>2. StartedCall(q) # c
    BY <1>2
  <2>3. QED
    BY <1>0, <1>2, <2>1, <2>2, OtherRequest DEF Meanwhile
<1>3. ASSUME NEW n \in Nodes, NodeConnect(n) \/ NodeDisconnect(n)
      PROVE  Meanwhile(r, c)
  BY <1>3 DEF NodeConnect, NodeDisconnect, orchVars, Meanwhile
<1>4. CASE ServiceStop
  <2>1. \/ calls'[c] = calls[c]
        \/ calls'[c] = Ended(calls[c], HangupState("gateway-shutdown"), "gateway-shutdown")
    BY <1>4 DEF ServiceStop, stopService
  <2>2. handlers'[r] = handlers[r]
    BY <1>4 DEF ServiceStop
  <2>3. QED
    BY <1>0, <2>1, <2>2 DEF Ended, HangupState, RtcCallRecord, Meanwhile
<1>5. CASE UNCHANGED pluginVars
  BY <1>5 DEF pluginVars, Meanwhile
<1>6. QED
  BY <1>1, <1>2, <1>3, <1>4, <1>5 DEF PluginNext

------------------------------------------------------------------------------
(* Callers are told the truth *)

LEMMA StepStartResponseAgrees ==
    ASSUME PluginTypeOK, StartResponseAgrees, [PluginNext]_pluginVars
    PROVE  StartResponseAgrees'
<1>0. /\ handlers \in [Requests -> HandlerRecord]
      /\ calls \in [CallIds -> RtcCallRecord]
      /\ TypeOK /\ [Next]_orchVars
  BY PluginStepUsesClass DEF PluginTypeOK, TypeOK
\* Nobody else gets a call that somebody has, nor one that is being placed.
<1>1. ASSUME NEW r \in Requests, NEW c \in CallIds, StartedCall(r) = c, ~Arrive(r),
             NEW q \in Requests, StartedCall(q)' = c
      PROVE  q = r
  <2>1. Known(c)
    BY <1>1, OrchestratorAssumption DEF StartedCall, PluginTypeOK
  <2>2. CASE Arrive(q)
    <3>1. ASSUME NEW d \in CallIds, NEW s \in SessionKeys, StartAccepted(q, d, s),
                 StartedCall(q)' = d
          PROVE  FALSE
      BY <1>1, <2>1, <3>1 DEF StartAccepted, startCall
    <3>2. QED
      BY <1>1, <2>2, <3>1, ArrivedStart, OrchestratorAssumption
  <2>3. CASE ~Arrive(q)
    <3>1. StartedCall(q) = c
      BY <1>1, <2>3, HandlerKeeps DEF StartedCall
    <3>2. QED
      BY <1>1, <3>1, OrchestratorAssumption DEF StartResponseAgrees
  <2>4. QED
    BY <2>2, <2>3
<1>2. SUFFICES ASSUME NEW r \in Requests, NEW c, StartedCall(r)' = c, c # Undefined
               PROVE  /\ handlers'[r].response = "ok" <=> calls'[c].answerSdp # Undefined
                      /\ handlers'[r].outcome = "null" => calls'[c].state \in TERMINAL_STATES
                      /\ calls'[c].state = "error" => handlers'[r].outcome = "null"
                      /\ \A q \in Requests : StartedCall(q)' = c => q = r
  BY DEF StartResponseAgrees, Terminal, StartedCall
<1>3. CASE Arrive(r)
  <2>1. PICK d \in CallIds, s \in SessionKeys : StartAccepted(r, d, s) /\ StartedCall(r)' = d
    BY <1>2, <1>3, ArrivedStart
  <2>2. d = c /\ ~Known(c)
    BY <1>2, <2>1 DEF StartAccepted, startCall
  <2>3. /\ calls'[c].answerSdp = Undefined
        /\ calls'[c].state = "initiating"
    BY <1>0, <2>1, <2>2 DEF StartAccepted, startCall, Record
  <2>4. handlers'[r].response = "none" /\ handlers'[r].outcome = "pending"
    BY <1>0, <2>1 DEF StartAccepted, Await
  <2>5. ASSUME NEW q \in Requests, StartedCall(q)' = c, q # r
        PROVE  FALSE
    <3>1. handlers'[q] = handlers[q]
      BY <1>3, <2>5, OthersUnchanged
    <3>2. StartedCall(q) = c
      BY <2>5, <3>1 DEF StartedCall
    <3>3. QED
      BY <1>2, <2>2, <3>2 DEF StartedCall, PluginTypeOK
  <2>6. QED
    BY <2>3, <2>4, <2>5
<1>4. CASE ~Arrive(r)
  <2>1. StartedCall(r) = c
    BY <1>2, <1>4, HandlerKeeps DEF StartedCall
  <2>2. c \in CallIds
    BY <1>0, <1>2, <2>1 DEF StartedCall, HandlerRecord
  <2>3. /\ handlers[r].response = "ok" <=> calls[c].answerSdp # Undefined
        /\ handlers[r].outcome = "null" => Terminal(c)
        /\ calls[c].state = "error" => handlers[r].outcome = "null"
        /\ \A q \in Requests : StartedCall(q) = c => q = r
    BY <1>2, <2>1 DEF StartResponseAgrees
  <2>4. Awaiting(r) => handlers[r].response = "none" /\ handlers[r].outcome = "pending"
    BY DEF PluginTypeOK, Awaiting
  <2>5. /\ handlers'[r].response = "ok" <=> calls'[c].answerSdp # Undefined
        /\ handlers'[r].outcome = "null" => calls'[c].state \in TERMINAL_STATES
        /\ calls'[c].state = "error" => handlers'[r].outcome = "null"
    <3>1. handlers[r] \in HandlerRecord
      BY <1>0
    <3>2. CASE AnswerTaken(r, c)
      BY <3>1, <3>2 DEF AnswerTaken, Settled, HandlerRecord
    <3>3. CASE AnswerTooLate(r, c)
      BY <2>3, <2>4, <3>1, <3>3 DEF AnswerTooLate, Settled, HandlerRecord
    <3>4. CASE NodeRefused(r, c)
      BY <2>3, <2>4, <3>1, <3>4 DEF NodeRefused, Settled, HandlerRecord
    <3>5. CASE Meanwhile(r, c)
      <4>1. Terminal(c) => calls'[c].state \in TERMINAL_STATES
        BY <1>0, <2>2, TerminalStays DEF Terminal
      <4>2. QED
        BY <2>3, <2>4, <3>1, <3>5, <4>1 DEF Meanwhile, Settled, HandlerRecord
    <3>6. QED
      BY <1>4, <2>1, <2>2, <2>3, <3>2, <3>3, <3>4, <3>5, StepOfStart
  <2>6. QED
    BY <1>1, <1>4, <2>1, <2>2, <2>5
<1>5. QED
  BY <1>3, <1>4

\* The caller of rtc.call.start is told ok exactly when its call took the
\* answer; a failed call is in the record as one; and no call has two callers.
THEOREM CallersToldTruth == PluginSpec => []StartResponseAgrees
<1>1. PluginInit => StartResponseAgrees
  BY DEF PluginInit, StartResponseAgrees, StartedCall, NoRequest
<1>2. PluginTypeOK /\ StartResponseAgrees /\ [PluginNext]_pluginVars => StartResponseAgrees'
  BY StepStartResponseAgrees
<1>3. QED
  BY <1>1, <1>2, PluginTypeCorrect, PTL DEF PluginSpec

------------------------------------------------------------------------------
(* Why a call is still "initiating" *)

\* A call is "initiating" because it was, or because this step places it.
LEMMA InitiatingStep ==
    ASSUME PluginTypeOK, [PluginNext]_pluginVars, NEW c \in CallIds,
           calls'[c].state = "initiating"
    PROVE  \/ calls[c].state = "initiating"
           \/ \E r \in Requests, s \in SessionKeys : StartAccepted(r, c, s)
<1>0. calls \in [CallIds -> RtcCallRecord] /\ handlers \in [Requests -> HandlerRecord]
  BY DEF PluginTypeOK, TypeOK
<1>1. CASE ~Known(c)
  <2>1. ASSUME NEW q \in Requests, Arrive(q)
        PROVE  \E s \in SessionKeys : StartAccepted(q, c, s)
    BY <1>0, <1>1, <2>1
    DEF Arrive, StartAccepted, startCall, Known, StartRefused, RequestRefused, IceRequest,
        handleIceCandidate, HangupRequest, hangup, EndCall, orchVars
  <2>2. ASSUME NEW q \in Requests, Resume(q)
        PROVE  calls'[c] = calls[c]
    BY <1>0, <1>1, <2>2
    DEF Resume, StartAnswered, handleAnswer, StartUnanswered, setError, EndCall,
        ForwardReturned, InvokeTimeout, orchVars, Known
  <2>3. ASSUME NEW n \in Nodes, NodeConnect(n) \/ NodeDisconnect(n)
        PROVE  calls'[c] = calls[c]
    BY <2>3 DEF NodeConnect, NodeDisconnect, orchVars
  <2>4. CASE ServiceStop \/ UNCHANGED pluginVars
    BY <1>1, <2>4 DEF ServiceStop, stopService, pluginVars, IsLive, Known, LiveStates
  <2>5. QED
    BY <1>1, <2>1, <2>2, <2>3, <2>4 DEF PluginNext, Known
<1>2. CASE Known(c)
  <2>1. CASE RecordsStep
    <3>1. RecordStep(calls[c], calls'[c]) /\ calls[c] \in RtcCallRecord
      BY <1>0, <2>1 DEF RecordsStep
    <3>2. QED
      BY <3>1 DEF RecordStep, Answered, Activated, EntryAdded, Finished, Ended,
                  RtcCallRecord, HangupState
  <2>2. ASSUME NEW d \in CallIds, NEW s \in SessionKeys, startCall(d, s)
        PROVE  calls'[c] = calls[c]
    BY <1>0, <1>2, <2>2 DEF startCall, Known
  <2>3. QED
    BY <2>1, <2>2, StepShape, StepRecords, PluginStepUsesClass DEF PluginTypeOK
<1>3. QED
  BY <1>1, <1>2

\* Only a rejected invoke leaves a call "initiating" with nobody waiting for it.
THEOREM OnlyRejectsStrand == PluginSpec => []InitiatingExplained
<1>1. PluginInit => InitiatingExplained
  BY DEF PluginInit, Init, InitiatingExplained, NoRecord, Record
<1>2. ASSUME PluginTypeOK, StartResponseAgrees, InitiatingExplained, [PluginNext]_pluginVars
      PROVE  InitiatingExplained'
  <2>0. handlers \in [Requests -> HandlerRecord]
    BY <1>2 DEF PluginTypeOK
  <2>1. SUFFICES ASSUME NEW c \in CallIds, calls'[c].state = "initiating"
                 PROVE  \E r \in Requests :
                           /\ StartedCall(r)' = c
                           /\ Awaiting(r)' \/ handlers'[r].outcome = "reject"
    BY DEF InitiatingExplained
  <2>2. ASSUME NEW r \in Requests, NEW s \in SessionKeys, StartAccepted(r, c, s)
        PROVE  StartedCall(r)' = c /\ Awaiting(r)'
    BY <2>0, <2>2 DEF StartAccepted, Await, StartedCall, Awaiting
  <2>3. CASE calls[c].state = "initiating"
    <3>1. PICK r \in Requests : /\ StartedCall(r) = c
                                /\ Awaiting(r) \/ handlers[r].outcome = "reject"
      BY <1>2, <2>3 DEF InitiatingExplained
    <3>2. \A q \in Requests : StartedCall(q) = c => q = r
      BY <1>2, <3>1, OrchestratorAssumption DEF StartResponseAgrees
    <3>3. ~Arrive(r)
      <4>1. ~Fresh(r)
        BY <3>1, OrchestratorAssumption DEF Fresh, StartedCall, NoRequest
      <4>2. QED
        BY <4>1 DEF Arrive, StartAccepted, StartRefused, IceRequest, HangupRequest,
                    RequestRefused
    <3>4. StartedCall(r)' = c
      BY <1>2, <3>1, <3>3, HandlerKeeps DEF StartedCall
    <3>5. Meanwhile(r, c)
      <4>1. ~AnswerTaken(r, c) /\ ~AnswerTooLate(r, c) /\ ~NodeRefused(r, c)
        BY <2>1, <2>3 DEF AnswerTaken, AnswerTooLate, NodeRefused, TERMINAL_STATES
      <4>2. QED
        BY <1>2, <3>1, <3>2, <3>3, <4>1, StepOfStart
    <3>6. Awaiting(r)' \/ handlers'[r].outcome = "reject"
      BY <2>0, <3>1, <3>5 DEF Meanwhile, Settled, Awaiting, HandlerRecord
    <3>7. QED
      BY <3>4, <3>6
  <2>4. QED
    BY <1>2, <2>1, <2>2, <2>3, InitiatingStep
<1>3. QED
  BY <1>1, <1>2, PluginTypeCorrect, CallersToldTruth, PTL DEF PluginSpec
=============================================================================
