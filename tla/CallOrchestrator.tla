-------------------------- MODULE CallOrchestrator --------------------------
(***************************************************************************)
(* plugin/src/orchestrator.ts: the class that keeps every call record and  *)
(* the session -> call map inside the gateway process, one action per      *)
(* method that changes state.  A method that throws changes nothing, so a  *)
(* throw is an action that is not enabled; RtcPlugin, which composes these *)
(* actions into the gateway handlers, models what the caller then does.    *)
(***************************************************************************)
EXTENDS Naturals, FiniteSets

CONSTANTS CallIds,             \* what randomUUID() can return
          SessionKeys,         \* session keys the clients send
          Sdps,                \* answer SDPs a node can return
          Reasons,             \* end reasons: arbitrary strings from callers
          MaxConcurrentCalls,  \* config.maxConcurrentCalls
          MaxPushes,           \* bound: entries pushed on each list of a record
          Undefined            \* JavaScript's undefined

ASSUME OrchestratorAssumption ==
    /\ IsFiniteSet(CallIds)
    /\ MaxConcurrentCalls \in Nat \ {0}
    /\ MaxPushes \in Nat
    /\ {"user", "gateway-shutdown"} \subseteq Reasons
    /\ Undefined \notin CallIds \cup SessionKeys \cup Sdps \cup Reasons

VARIABLES calls,           \* Map<callId, RtcCallRecord>
          sessionCallMap   \* Map<sessionKey, callId>

orchVars == <<calls, sessionCallMap>>

-----------------------------------------------------------------------------
(* Records *)

LiveStates == {"initiating", "connecting", "active"}
TERMINAL_STATES == {"hangup-user", "hangup-node", "timeout", "error"}
RtcCallState == LiveStates \cup TERMINAL_STATES

\* The two time stamps are kept as "has been set"; the three lists as lengths.
RtcCallRecord ==
    [state            : RtcCallState \cup {"absent"},
     sessionKey       : SessionKeys \cup {Undefined},
     answerSdp        : Sdps \cup {Undefined},
     connectedAt      : BOOLEAN,
     endedAt          : BOOLEAN,
     endReason        : Reasons \cup {Undefined},
     localCandidates  : 0..MaxPushes,
     remoteCandidates : 0..MaxPushes,
     transcript       : 0..MaxPushes]

Record(state, s) ==
    [state |-> state, sessionKey |-> s, answerSdp |-> Undefined,
     connectedAt |-> FALSE, endedAt |-> FALSE, endReason |-> Undefined,
     localCandidates |-> 0, remoteCandidates |-> 0, transcript |-> 0]

NoRecord == Record("absent", Undefined)   \* the Map has no such key

Known(c)    == calls[c].state # "absent"
IsLive(c)   == calls[c].state \in LiveStates
Terminal(c) == calls[c].state \in TERMINAL_STATES
Live        == {c \in CallIds : IsLive(c)}
activeCalls == Cardinality(Live)

-----------------------------------------------------------------------------
(* Methods *)

Init == /\ calls = [c \in CallIds |-> NoRecord]
        /\ sessionCallMap = [s \in SessionKeys |-> Undefined]

\* Faulty variants of what startCall tests: the limit is off by one;
\* only a call that was answered blocks its session.
StartCallAllowedAtLimit(s) ==
    /\ activeCalls <= MaxConcurrentCalls
    /\ sessionCallMap[s] \notin Live
StartCallAllowedIfUnanswered(s) ==
    /\ activeCalls < MaxConcurrentCalls
    /\ sessionCallMap[s] \notin {c \in Live : calls[c].state # "initiating"}

\* startCall returns instead of throwing: there is room, and the call the
\* session placed last, if any, is over.
StartCallAllowed(s) ==
    /\ activeCalls < MaxConcurrentCalls
    /\ sessionCallMap[s] \notin Live

startCall(c, s) ==
    /\ StartCallAllowed(s)
    /\ ~Known(c)
    /\ calls' = [calls EXCEPT ![c] = Record("initiating", s)]
    /\ sessionCallMap' = [sessionCallMap EXCEPT ![s] = c]

\* Faulty variant: no assertState.
handleAnswerUnasserted(c, sdp) ==
    /\ Known(c)
    /\ calls' = [calls EXCEPT ![c].answerSdp = sdp, ![c].state = "connecting"]
    /\ UNCHANGED sessionCallMap

handleAnswer(c, sdp) ==
    /\ calls[c].state = "initiating"
    /\ calls' = [calls EXCEPT ![c].answerSdp = sdp, ![c].state = "connecting"]
    /\ UNCHANGED sessionCallMap

\* Candidates of a call that is over are ignored.
handleIceCandidate(c, direction) ==
    /\ Known(c)
    /\ UNCHANGED sessionCallMap
    /\ \/ Terminal(c) /\ UNCHANGED calls
       \/ /\ IsLive(c)
          /\ direction = "local"
          /\ calls[c].localCandidates < MaxPushes
          /\ calls' = [calls EXCEPT ![c].localCandidates = @ + 1]
       \/ /\ IsLive(c)
          /\ direction = "remote"
          /\ calls[c].remoteCandidates < MaxPushes
          /\ calls' = [calls EXCEPT ![c].remoteCandidates = @ + 1]

\* Faulty variant: media flowing always makes a call active.
setActiveAlways(c) ==
    /\ Known(c)
    /\ calls' = [calls EXCEPT ![c].state = "active", ![c].connectedAt = TRUE]
    /\ UNCHANGED sessionCallMap

setActive(c) ==
    /\ Known(c)
    /\ calls' = IF calls[c].state \in {"connecting", "initiating"}
                THEN [calls EXCEPT ![c].state = "active", ![c].connectedAt = TRUE]
                ELSE calls
    /\ UNCHANGED sessionCallMap

\* Faulty variants: the time of the end is not stamped; a second hang-up, error
\* or timeout rewrites how the call ended.
EndedUnstamped(rec, state, reason) ==
    [rec EXCEPT !.state = state, !.endReason = reason]
EndCallAgain(c, state, reason) ==
    /\ Known(c)
    /\ calls' = [calls EXCEPT ![c] =
                    [@ EXCEPT !.state = state, !.endedAt = TRUE, !.endReason = reason]]
    /\ UNCHANGED sessionCallMap

\* What a record looks like once the call has ended.
Ended(rec, state, reason) ==
    [rec EXCEPT !.state = state, !.endedAt = TRUE, !.endReason = reason]

\* The common body of hangup, setError and setTimeout: the first to end a call
\* decides how it ended.
EndCall(c, state, reason) ==
    /\ Known(c)
    /\ calls' = IF Terminal(c) THEN calls
                ELSE [calls EXCEPT ![c] = Ended(@, state, reason)]
    /\ UNCHANGED sessionCallMap

\* Faulty variant: the reason is taken for the state.
HangupStateIsReason(reason) == reason

HangupState(reason) == IF reason = "user" THEN "hangup-user" ELSE "hangup-node"

hangup(c, reason)     == EndCall(c, HangupState(reason), reason)
setError(c, reason)   == EndCall(c, "error", reason)
setTimeout(c, reason) == EndCall(c, "timeout", reason)

addTranscript(c) ==
    /\ Known(c)
    /\ calls[c].transcript < MaxPushes
    /\ calls' = [calls EXCEPT ![c].transcript = @ + 1]
    /\ UNCHANGED sessionCallMap

\* The service's stop(): one synchronous loop that hangs up every live call.
stopService ==
    /\ calls' = [c \in CallIds |->
                    IF IsLive(c)
                    THEN Ended(calls[c], HangupState("gateway-shutdown"), "gateway-shutdown")
                    ELSE calls[c]]
    /\ UNCHANGED sessionCallMap

Next ==
    \/ \E c \in CallIds :
          \/ \E s \in SessionKeys : startCall(c, s)
          \/ \E sdp \in Sdps : handleAnswer(c, sdp)
          \/ \E d \in {"local", "remote"} : handleIceCandidate(c, d)
          \/ setActive(c)
          \/ \E reason \in Reasons :
                hangup(c, reason) \/ setError(c, reason) \/ setTimeout(c, reason)
          \/ addTranscript(c)
    \/ stopService

Spec == Init /\ [][Next]_orchVars
-----------------------------------------------------------------------------
(* Properties *)

\* Type invariant: every key holds a record of the schema in types.ts.
TypeOK == /\ calls \in [CallIds -> RtcCallRecord]
          /\ sessionCallMap \in [SessionKeys -> CallIds \cup {Undefined}]

\* The concurrency limit holds however calls are started, answered and ended:
\* activeCalls, recounted by startCall, never exceeds maxConcurrentCalls.
CapacityBound == activeCalls <= MaxConcurrentCalls

\* The session map never loses a call that is still up: it points at the
\* session's live call until that call ends, whatever ended calls it has had.
\* So a session never has two calls up at once, and getCallBySession finds the one.
MapFindsLiveCall ==
    \A c \in Live : /\ calls[c].sessionKey \in SessionKeys
                    /\ sessionCallMap[calls[c].sessionKey] = c

\* A record tells one story: endedAt and endReason are there exactly when the
\* state is terminal, "hangup-user" says the user hung up, a "connecting" call
\* has its answer, an "active" one its connect time, and a call that was never
\* placed has no record.
ConsistentRecord(rec) ==
    /\ rec.endedAt <=> rec.state \in TERMINAL_STATES
    /\ (rec.endReason # Undefined) <=> rec.state \in TERMINAL_STATES
    /\ rec.state = "hangup-user" => rec.endReason = "user"
    /\ rec.state = "hangup-node" => rec.endReason # "user"
    /\ rec.state = "connecting" => rec.answerSdp # Undefined
    /\ rec.state = "active" => rec.connectedAt
    /\ rec.state = "initiating" => rec.answerSdp = Undefined /\ ~rec.connectedAt
    /\ rec.state = "absent" => rec = NoRecord
RecordConsistent == \A c \in CallIds : ConsistentRecord(calls[c])

\* A call that has ended stays as it ended: no late answer, candidate, second
\* hang-up, timeout or shutdown changes its record (transcript lines aside).
TerminalFrozen ==
    [][\A c \in CallIds :
          Terminal(c) => [calls'[c] EXCEPT !.transcript = calls[c].transcript] = calls[c]]_orchVars

\* The answer the browser was given is never replaced by a later one.
AnswerStable ==
    [][\A c \in CallIds :
          calls[c].answerSdp # Undefined => calls'[c].answerSdp = calls[c].answerSdp]_orchVars

\* The class implements the abstract life cycle of a call.
PhaseOf(state) == CASE state = "absent" -> "unborn"
                    [] state \in LiveStates -> state
                    [] OTHER -> "ended"

Lifecycle == INSTANCE CallLifecycle
    WITH MaxLive   <- MaxConcurrentCalls,
         NoSession <- Undefined,
         phase     <- [c \in CallIds |-> PhaseOf(calls[c].state)],
         holder    <- [c \in CallIds |-> calls[c].sessionKey]

ImplementsLifecycle == Lifecycle!Spec
=============================================================================
