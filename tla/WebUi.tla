------------------------------- MODULE WebUi -------------------------------
(***************************************************************************)
(* plugin/ui/app.ts and rtc-peer.ts: one browser tab.  The served          *)
(* index.html holds the same logic in one file.  startCall is an async     *)
(* function, suspended while the user answers the microphone prompt, while *)
(* the offer is made, while rtc.call.start is under way and while the      *)
(* answer is set; the buttons, the socket and the connection go on         *)
(* meanwhile, and what is resumed works on the globals rtcPeer and         *)
(* currentCallId, whosever they are by then.                               *)
(***************************************************************************)
CONSTANTS Attempts,   \* bound: clicks on the call button; each is one startCall,
                      \* one RtcPeer and at most one call at the gateway
          None        \* null

ASSUME WebUiAssumption == None \notin Attempts

VARIABLES attempt,        \* attempt[a]: startCall number a and its RtcPeer
          rtcPeer,        \* the global: the attempt whose RtcPeer it holds
          currentCallId,  \* the global: the attempt whose call id it holds
          ws,             \* the socket to the gateway: "open" or "down"
          wire,           \* messages under way on it
          server,         \* server[a]: the gateway's record of the call of a
          ended,          \* history, ended[a]: the stage startCall number a was at
                          \* when cleanupCall took its RtcPeer off the screen
          early           \* history: the attempts the user hung up before they
                          \* were set up

tab == <<attempt, rtcPeer, currentCallId, ended>>
webVars == <<attempt, rtcPeer, currentCallId, ended, ws, wire, server, early>>

Stages == {"unused", "mic", "offer", "dialing", "answering", "done", "failed"}

\* stage: where startCall is suspended; mic, pc: localStream and pc are there
\* and running; remote: the attempt whose answer was set on this pc; ice: the
\* attempt under whose call id its latest candidate was sent.
AttemptRecord ==
    [stage  : Stages,
     mic    : BOOLEAN,
     pc     : BOOLEAN,
     remote : Attempts \cup {None},
     ice    : Attempts \cup {None}]

Message == [kind : {"start", "answer", "refusal", "hangup"}, call : Attempts]
Msg(kind, a) == [kind |-> kind, call |-> a]

Init ==
    /\ attempt = [a \in Attempts |->
                     [stage |-> "unused", mic |-> FALSE, pc |-> FALSE,
                      remote |-> None, ice |-> None]]
    /\ rtcPeer = None
    /\ currentCallId = None
    /\ ws = "down"
    /\ wire = {}
    /\ server = [a \in Attempts |-> "none"]
    /\ ended = [a \in Attempts |-> "no"]
    /\ early = {}

Stage(a) == attempt[a].stage

\* The global rtcPeer has a pc.
Connected == \E a \in Attempts : a = rtcPeer /\ attempt[a].pc

-----------------------------------------------------------------------------
(* cleanupCall *)

\* The history of the RtcPeer that leaves the screen, if there is one.
NoteEnd(attempts) ==
    ended' = [a \in Attempts |-> IF a = rtcPeer THEN attempts[a].stage ELSE ended[a]]

\* Faulty variants: the call id is kept; the RtcPeer is dropped without hangup().
CleanupKeepsId(attempts) ==
    /\ attempt' = [a \in Attempts |->
                      IF a = rtcPeer THEN [attempts[a] EXCEPT !.mic = FALSE, !.pc = FALSE]
                      ELSE attempts[a]]
    /\ rtcPeer' = None
    /\ NoteEnd(attempts)
    /\ UNCHANGED currentCallId
CleanupKeepsMic(attempts) ==
    /\ attempt' = attempts
    /\ rtcPeer' = None
    /\ currentCallId' = None
    /\ NoteEnd(attempts)

\* The RtcPeer of the moment stops its microphone and closes its connection, and
\* both globals are cleared.
cleanupCall(attempts) ==
    /\ attempt' = [a \in Attempts |->
                      IF a = rtcPeer THEN [attempts[a] EXCEPT !.mic = FALSE, !.pc = FALSE]
                      ELSE attempts[a]]
    /\ rtcPeer' = None
    /\ currentCallId' = None
    /\ NoteEnd(attempts)

\* startCall's catch.
Fail(a) == cleanupCall([attempt EXCEPT ![a].stage = "failed"])

-----------------------------------------------------------------------------
(* startCall *)

\* Faulty variant: the test of rtcPeer is missing.
ClickCallAgain(a) ==
    /\ Stage(a) = "unused"
    /\ attempt' = [attempt EXCEPT ![a].stage = "mic"]
    /\ rtcPeer' = a
    /\ UNCHANGED <<currentCallId, ended, ws, wire, server, early>>

ClickCall(a) ==
    /\ rtcPeer = None
    /\ Stage(a) = "unused"
    /\ attempt' = [attempt EXCEPT ![a].stage = "mic"]
    /\ rtcPeer' = a
    /\ UNCHANGED <<currentCallId, ended, ws, wire, server, early>>

\* getUserMedia: createOffer goes on, even if hangup() has run meanwhile.
Microphone(a) ==
    /\ Stage(a) = "mic"
    /\ \/ /\ attempt' = [attempt EXCEPT ![a].mic = TRUE, ![a].pc = TRUE,
                                        ![a].stage = "offer"]
          /\ UNCHANGED <<rtcPeer, currentCallId, ended>>
       \/ Fail(a)
    /\ UNCHANGED <<ws, wire, server, early>>

\* The local description is set and the request is sent, if the socket is open;
\* or creating the offer failed, as it does on a connection that was closed.
Offer(a) ==
    /\ Stage(a) = "offer"
    /\ \/ /\ attempt[a].pc
          /\ ws = "open"
          /\ attempt' = [attempt EXCEPT ![a].stage = "dialing"]
          /\ wire' = wire \cup {Msg("start", a)}
          /\ UNCHANGED <<rtcPeer, currentCallId, ended>>
       \/ Fail(a) /\ UNCHANGED wire
    /\ UNCHANGED <<ws, server, early>>

\* The answer came: the call id is taken, and the answer is set on whatever the
\* global rtcPeer is now.  Without one, or before it has a pc, that throws; on a
\* pc that has no offer out it will be rejected.
Answered(a) ==
    /\ Stage(a) = "dialing"
    /\ Msg("answer", a) \in wire
    /\ wire' = wire \ {Msg("answer", a)}
    /\ \/ /\ Connected
          /\ currentCallId' = a
          /\ \/ /\ Stage(rtcPeer) \in {"offer", "dialing"}
                /\ attempt[rtcPeer].remote = None
                /\ attempt' = [attempt EXCEPT ![a].stage = "answering", ![rtcPeer].remote = a]
             \/ /\ Stage(rtcPeer) # "dialing" \/ attempt[rtcPeer].remote # None
                /\ attempt' = [attempt EXCEPT ![a].stage = "answering"]
          /\ UNCHANGED <<rtcPeer, ended>>
       \/ ~Connected /\ Fail(a)
    /\ UNCHANGED <<ws, server, early>>

\* rtc.call.start was refused.
Refused(a) ==
    /\ Stage(a) = "dialing"
    /\ Msg("refusal", a) \in wire
    /\ wire' = wire \ {Msg("refusal", a)}
    /\ Fail(a)
    /\ UNCHANGED <<ws, server, early>>

\* setRemoteDescription and the candidates: done, or one of them rejected.
AnswerSet(a) ==
    /\ Stage(a) = "answering"
    /\ \/ /\ \E b \in Attempts : attempt[b].remote = a
          /\ attempt' = [attempt EXCEPT ![a].stage = "done"]
          /\ UNCHANGED <<rtcPeer, currentCallId, ended>>
       \/ Fail(a)
    /\ UNCHANGED <<ws, wire, server, early>>

\* onIceCandidate: the pc of a found a candidate.  It is sent under the call id
\* of the moment; without one, or without a socket, it is dropped.
LocalCandidate(a) ==
    /\ attempt[a].pc
    /\ Stage(a) # "offer"
    /\ currentCallId # None
    /\ ws = "open"
    /\ attempt' = [attempt EXCEPT ![a].ice = currentCallId]
    /\ UNCHANGED <<rtcPeer, currentCallId, ended, ws, wire, server, early>>

-----------------------------------------------------------------------------
(* The hang-up button and the connection *)

\* Faulty variant: sendRequest does not look at the socket.
ClickHangupUnchecked ==
    /\ rtcPeer # None
    /\ wire' = IF currentCallId # None
               THEN wire \cup {Msg("hangup", currentCallId)} ELSE wire
    /\ cleanupCall(attempt)
    /\ early' = IF Stage(rtcPeer) = "done" THEN early ELSE early \cup {rtcPeer}
    /\ UNCHANGED <<ws, server>>

\* hangup: the gateway is told if there is a call id and an open socket.
ClickHangup ==
    /\ rtcPeer # None
    /\ wire' = IF currentCallId # None /\ ws = "open"
               THEN wire \cup {Msg("hangup", currentCallId)} ELSE wire
    /\ cleanupCall(attempt)
    /\ early' = IF Stage(rtcPeer) = "done" THEN early ELSE early \cup {rtcPeer}
    /\ UNCHANGED <<ws, server>>

\* handleCallEnded, when the connection of a is disconnected or gives up, which
\* takes an answer.  It ends whatever is on the screen.
ConnectionFailed(a) ==
    /\ attempt[a].pc
    /\ attempt[a].remote # None
    /\ cleanupCall(attempt)
    /\ UNCHANGED <<ws, wire, server, early>>

\* handleCallEnded on the event rtc.call.ended: it can come at any time, for any
\* call, and no call id is compared.
CallEnded ==
    /\ ws = "open"
    /\ cleanupCall(attempt)
    /\ UNCHANGED <<ws, wire, server, early>>

-----------------------------------------------------------------------------
(* The gateway and the socket *)

\* The gateway takes the call and its node answers, or it refuses.
GatewayStart(a) ==
    /\ Msg("start", a) \in wire
    /\ \/ /\ server' = [server EXCEPT ![a] = "up"]
          /\ wire' = (wire \ {Msg("start", a)}) \cup {Msg("answer", a)}
       \/ /\ wire' = (wire \ {Msg("start", a)}) \cup {Msg("refusal", a)}
          /\ UNCHANGED server
    /\ UNCHANGED <<tab, ws, early>>

GatewayHangup(a) ==
    /\ Msg("hangup", a) \in wire
    /\ wire' = wire \ {Msg("hangup", a)}
    /\ server' = [server EXCEPT ![a] = "over"]
    /\ UNCHANGED <<tab, ws, early>>

\* onclose: what was under way is lost; nothing rejects the pending requests.
SocketCloses ==
    /\ ws = "open"
    /\ ws' = "down"
    /\ wire' = {}
    /\ UNCHANGED <<tab, server, early>>

\* connectGateway succeeds, at once or after some timers of 3 s.
SocketOpens ==
    /\ ws = "down"
    /\ ws' = "open"
    /\ UNCHANGED <<tab, wire, server, early>>

-----------------------------------------------------------------------------

StartCall(a) ==
    Microphone(a) \/ Offer(a) \/ Answered(a) \/ Refused(a) \/ AnswerSet(a)

Next ==
    \/ \E a \in Attempts :
          \/ ClickCall(a) \/ StartCall(a)
          \/ LocalCandidate(a) \/ ConnectionFailed(a)
          \/ GatewayStart(a) \/ GatewayHangup(a)
    \/ ClickHangup \/ CallEnded
    \/ SocketCloses \/ SocketOpens

Spec == Init /\ [][Next]_webVars
-----------------------------------------------------------------------------
(* Properties *)

\* Type invariant: nothing is under way on a socket that is down.
WebTypeOK ==
    /\ attempt \in [Attempts -> AttemptRecord]
    /\ rtcPeer \in Attempts \cup {None}
    /\ currentCallId \in Attempts \cup {None}
    /\ ws \in {"open", "down"}
    /\ wire \subseteq Message
    /\ ws = "down" => wire = {}
    /\ server \in [Attempts -> {"none", "up", "over"}]
    /\ ended \in [Attempts -> Stages \cup {"no"}]
    /\ early \subseteq Attempts

\* Whenever the tab knows a call, the hang-up button is there to end it: however
\* answers, failures and new attempts interleave, no call id outlives the
\* RtcPeer, and it is the id of a call that the gateway did answer.
HangupWithinReach ==
    currentCallId # None =>
        /\ rtcPeer # None
        /\ Stage(currentCallId) \in {"answering", "done"}
        /\ server[currentCallId] # "none"

\* The microphone is on only for the attempt on the screen.  The one exception is
\* an attempt that was ended (by the button, by rtc.call.ended or by the failure of
\* another attempt) while the user was still being asked for the microphone:
\* createOffer goes on and turns it on with no button left to turn it off.
MicReleased ==
    \A a \in Attempts : attempt[a].mic => rtcPeer = a \/ ended[a] = "mic"

\* Ended at a point from which startCall goes on: when its answer comes, it works
\* on the globals of somebody else.
Stray(a) == ended[a] \in {"mic", "dialing"}

\* The tab keeps calls apart, and only a stray startCall mixes them up: an answer
\* is set on the connection that offered it, the id in hand is that of the
\* connection on the screen, and a candidate goes out under the id of the call
\* whose connection found it, but for a connection opened behind the screen.  Once
\* the connection on the screen has an answer, the button has an id to end it by.
CallsKeptApart ==
    /\ \A a, b \in Attempts :
          /\ attempt[b].remote = a => a = b \/ Stray(a)
          /\ attempt[b].ice = a => a = b \/ Stray(a) \/ ended[b] = "mic"
    /\ \A a \in Attempts : currentCallId = a => rtcPeer = a \/ Stray(a)
    /\ \A b \in Attempts : rtcPeer = b /\ attempt[b].remote # None => currentCallId # None

\* Ended while startCall was still under way.
Interrupted(a) == ended[a] \in {"mic", "offer", "dialing", "answering"}

\* Set-ups disturb one another only after the outside has disturbed one: as long as
\* none was interrupted, the first to be interrupted is so by the button, by
\* rtc.call.ended or by its own connection giving up as it is being answered, never
\* by the catch of another startCall or by the connection of an older call.
SetUpUndisturbed ==
    [][(\E a \in Attempts : Interrupted(a)') =>
           \/ \E a \in Attempts : Interrupted(a)
           \/ ClickHangup
           \/ CallEnded
           \/ \E a \in Attempts : rtcPeer = a /\ Stage(a) = "answering" /\ ConnectionFailed(a)]_webVars

\* README.md's signalling flow: what the hang-up button ends, rtc.call.hangup ends
\* at the gateway.  Once startCall has run to its end as well and nothing is under
\* way on an open socket, the gateway does not have the call up any more.
HangupReachesGateway ==
    \A a \in early :
        (ws = "open" /\ wire = {} /\ Stage(a) \in {"done", "failed"}) => server[a] # "up"
=============================================================================
