---------------------------- MODULE WebUi_proofs ----------------------------
(***************************************************************************)
(* One browser tab, for any number of clicks on the call button.           *)
(***************************************************************************)
EXTENDS WebUi, TLAPS

\* An answer under way is the gateway's, for a call it took.
AnswersAreReal == \A a \in Attempts : Msg("answer", a) \in wire => server[a] # "none"

\* The attempt on the screen is one that was placed and has not been ended; every
\* other that was placed has been ended.
OnScreen ==
    \A a \in Attempts :
        IF rtcPeer = a THEN ended[a] = "no" /\ Stage(a) # "unused"
                       ELSE ended[a] = "no" => Stage(a) = "unused"

\* Where an attempt that is still under way can have been ended, and which attempts
\* have a microphone or a connection.
EndedWhere ==
    \A a \in Attempts :
        /\ Stage(a) = "unused" => ended[a] = "no" /\ attempt[a].remote = None
        /\ Stage(a) = "mic" => ended[a] \in {"no", "mic"}
        /\ Stage(a) = "offer" => ended[a] \in {"no", "mic", "offer"}
        /\ Stage(a) = "dialing" => ended[a] \in {"no", "mic", "dialing"}
        /\ Stage(a) = "answering" => ended[a] \in {"no", "mic", "dialing", "answering"}
        /\ attempt[a].mic \/ attempt[a].pc => rtcPeer = a \/ ended[a] = "mic"

\* CallsKeptApart, in its parts.
AnswersApart ==
    \A a, b \in Attempts :
        attempt[b].remote = a => /\ a = b \/ Stray(a)
                                 /\ Stage(a) \in {"answering", "done", "failed"}
CandidatesApart ==
    \A a, b \in Attempts : attempt[b].ice = a => a = b \/ Stray(a) \/ ended[b] = "mic"
IdOnScreen ==
    /\ \A a \in Attempts : currentCallId = a => rtcPeer = a \/ Stray(a)
    /\ \A b \in Attempts : rtcPeer = b /\ attempt[b].remote # None => currentCallId # None

IInv ==
    /\ WebTypeOK /\ HangupWithinReach /\ AnswersAreReal
    /\ OnScreen /\ EndedWhere
    /\ AnswersApart /\ CandidatesApart /\ IdOnScreen

Busy(a) == Stage(a) \in {"mic", "offer", "dialing", "answering"}

LEMMA InitIInv == Init => IInv
  BY WebUiAssumption
  DEF Init, IInv, WebTypeOK, AttemptRecord, Stages, Message, HangupWithinReach, AnswersAreReal,
      OnScreen, EndedWhere, AnswersApart, CandidatesApart, IdOnScreen, Stray, Stage

\* Records: what cleanupCall leaves of them.
LEMMA CleanedRecord ==
    ASSUME NEW r \in AttemptRecord, NEW new, new = [r EXCEPT !.mic = FALSE, !.pc = FALSE]
    PROVE  /\ new \in AttemptRecord
           /\ new.stage = r.stage /\ new.remote = r.remote /\ new.ice = r.ice
           /\ new.mic = FALSE /\ new.pc = FALSE
  BY DEF AttemptRecord

\* The call button starts an attempt only when none is on the screen.
LEMMA ClickStep ==
    ASSUME IInv, NEW a \in Attempts, ClickCall(a) PROVE IInv'
  <1> USE WebUiAssumption DEF IInv, WebTypeOK, AttemptRecord, Stage, Stray, ClickCall
  <1>1. WebTypeOK'          BY DEF Stages
  <1>2. HangupWithinReach'  BY DEF HangupWithinReach
  <1>3. AnswersAreReal'     BY DEF AnswersAreReal
  <1>4. OnScreen'           BY DEF OnScreen, EndedWhere
  <1>5. EndedWhere'         BY DEF EndedWhere
  <1>6. AnswersApart'       BY DEF AnswersApart
  <1>7. CandidatesApart'    BY DEF CandidatesApart
  <1>8. IdOnScreen'         BY DEF IdOnScreen, HangupWithinReach, EndedWhere
  <1>9. QED BY <1>1, <1>2, <1>3, <1>4, <1>5, <1>6, <1>7, <1>8

\* cleanupCall preserves the invariant, whoever calls it: the catch of startCall,
\* the button, the event or the connection.
LEMMA CleanupStep ==
    ASSUME IInv, NEW new \in [Attempts -> AttemptRecord],
           cleanupCall(new),
           \A a \in Attempts :
              \/ new[a] = attempt[a]
              \/ Busy(a) /\ new[a] = [attempt[a] EXCEPT !.stage = "failed"],
           early' \subseteq Attempts,
           wire' \subseteq Message, ws' = ws, ws = "down" => wire' = {},
           server' = server,
           \A a \in Attempts : Msg("answer", a) \in wire' => Msg("answer", a) \in wire
    PROVE  IInv'
  <1> USE WebUiAssumption
  <1>n. \A b \in Attempts :
           /\ new[b].remote = attempt[b].remote /\ new[b].ice = attempt[b].ice
           /\ new[b].mic = attempt[b].mic /\ new[b].pc = attempt[b].pc
           /\ \/ new[b].stage = attempt[b].stage
              \/ new[b].stage = "failed" /\ Busy(b)
    <2> SUFFICES ASSUME NEW b \in Attempts
        PROVE  /\ new[b].remote = attempt[b].remote /\ new[b].ice = attempt[b].ice
               /\ new[b].mic = attempt[b].mic /\ new[b].pc = attempt[b].pc
               /\ \/ new[b].stage = attempt[b].stage
                  \/ new[b].stage = "failed" /\ Busy(b)
        OBVIOUS
    <2>1. new[b] \in AttemptRecord /\ attempt[b] \in AttemptRecord
          BY DEF IInv, WebTypeOK
    <2>2. CASE new[b] = attempt[b]
          BY <2>2
    <2>3. CASE Busy(b) /\ new[b] = [attempt[b] EXCEPT !.stage = "failed"]
          BY <2>1, <2>3 DEF AttemptRecord
    <2>4. QED BY <2>2, <2>3
  <1>a. ASSUME NEW b \in Attempts, b = rtcPeer
        PROVE  /\ attempt'[b] \in AttemptRecord
               /\ attempt'[b].stage = new[b].stage /\ attempt'[b].remote = new[b].remote
               /\ attempt'[b].ice = new[b].ice
               /\ ~attempt'[b].mic /\ ~attempt'[b].pc
               /\ ended'[b] = new[b].stage
    <2>1. attempt'[b] = [new[b] EXCEPT !.mic = FALSE, !.pc = FALSE]
          BY <1>a DEF cleanupCall
    <2>2. ended'[b] = new[b].stage
          BY <1>a DEF cleanupCall, NoteEnd
    <2>3. QED BY <2>1, <2>2, CleanedRecord
  <1>b. ASSUME NEW b \in Attempts, b # rtcPeer
        PROVE  attempt'[b] = new[b] /\ ended'[b] = ended[b]
        BY <1>b DEF cleanupCall, NoteEnd
  <1>c. attempt' \in [Attempts -> AttemptRecord] /\ ended' \in [Attempts -> Stages \cup {"no"}]
    <2>1. \A b \in Attempts : attempt'[b] \in AttemptRecord /\ ended'[b] \in Stages \cup {"no"}
          BY <1>a, <1>b DEF IInv, WebTypeOK, AttemptRecord
    <2>2. attempt' = [b \in Attempts |-> attempt'[b]] /\ ended' = [b \in Attempts |-> ended'[b]]
          BY DEF cleanupCall, NoteEnd
    <2>3. QED BY <2>1, <2>2
  <1>d. rtcPeer' = None /\ currentCallId' = None
        BY DEF cleanupCall
  \* Attempt by attempt: its fields, and where it has been ended.
  <1>e. ASSUME NEW b \in Attempts
        PROVE  /\ attempt'[b].remote = attempt[b].remote /\ attempt'[b].ice = attempt[b].ice
               /\ \/ attempt'[b].stage = attempt[b].stage
                  \/ attempt'[b].stage = "failed" /\ Busy(b)
               /\ b = rtcPeer => /\ ended'[b] = attempt'[b].stage
                                 /\ ~attempt'[b].mic /\ ~attempt'[b].pc
               /\ b # rtcPeer => /\ ended'[b] = ended[b]
                                 /\ attempt'[b].mic = attempt[b].mic
                                 /\ attempt'[b].pc = attempt[b].pc
    <2>1. CASE b = rtcPeer
          BY <1>a, <1>n, <2>1
    <2>2. CASE b # rtcPeer
          BY <1>b, <1>n, <2>2
    <2>3. QED BY <2>1, <2>2
  \* No stray attempt stops being one.
  <1>f. \A b \in Attempts : ended[b] # "no" => ended'[b] = ended[b]
        BY <1>e DEF IInv, OnScreen
  <1>1. WebTypeOK'
        BY <1>c, <1>d DEF WebTypeOK, IInv
  <1>2. HangupWithinReach'
        BY <1>d DEF HangupWithinReach
  <1>3. AnswersAreReal'
        BY DEF IInv, AnswersAreReal
  <1>4. OnScreen'
    <2> SUFFICES ASSUME NEW b \in Attempts
                 PROVE  ended'[b] = "no" => attempt'[b].stage = "unused"
        BY <1>d DEF OnScreen, Stage
    <2>1. QED BY <1>e DEF IInv, OnScreen, Stage, Busy, WebTypeOK, AttemptRecord, Stages
  <1>5. EndedWhere'
    <2> SUFFICES ASSUME NEW b \in Attempts
        PROVE  /\ attempt'[b].stage = "unused" => ended'[b] = "no" /\ attempt'[b].remote = None
               /\ attempt'[b].stage = "mic" => ended'[b] \in {"no", "mic"}
               /\ attempt'[b].stage = "offer" => ended'[b] \in {"no", "mic", "offer"}
               /\ attempt'[b].stage = "dialing" => ended'[b] \in {"no", "mic", "dialing"}
               /\ attempt'[b].stage = "answering" =>
                     ended'[b] \in {"no", "mic", "dialing", "answering"}
               /\ attempt'[b].mic \/ attempt'[b].pc => ended'[b] = "mic"
        BY DEF EndedWhere, Stage
    <2>1. CASE b = rtcPeer
          BY <1>e, <2>1 DEF IInv, EndedWhere, OnScreen, Stage, Busy
    <2>2. CASE b # rtcPeer
          BY <1>e, <2>2 DEF IInv, EndedWhere, Stage, Busy
    <2>3. QED BY <2>1, <2>2
  <1>6. AnswersApart'
        BY <1>e, <1>f DEF IInv, AnswersApart, Stray, Stage
  <1>7. CandidatesApart'
        BY <1>e, <1>f DEF IInv, CandidatesApart, Stray
  <1>8. IdOnScreen'
        BY <1>d DEF IdOnScreen
  <1>9. QED BY <1>1, <1>2, <1>3, <1>4, <1>5, <1>6, <1>7, <1>8 DEF IInv

\* The catch of startCall, in a step that takes at most a message off the wire.
LEMMA FailStep ==
    ASSUME IInv, NEW a \in Attempts, Busy(a), Fail(a), wire' \subseteq wire,
           UNCHANGED <<ws, server, early>>
    PROVE  IInv'
  <1> DEFINE new == [attempt EXCEPT ![a].stage = "failed"]
  <1>1. new \in [Attempts -> AttemptRecord]
        BY DEF IInv, WebTypeOK, AttemptRecord, Stages
  <1>2. \A b \in Attempts :
           \/ new[b] = attempt[b]
           \/ Busy(b) /\ new[b] = [attempt[b] EXCEPT !.stage = "failed"]
        BY DEF IInv, WebTypeOK, AttemptRecord
  <1>3. cleanupCall(new)
        BY DEF Fail
  <1> HIDE DEF new
  <1>4. /\ early' \subseteq Attempts
        /\ wire' \subseteq Message /\ ws' = ws /\ (ws = "down" => wire' = {})
        /\ server' = server
        /\ \A b \in Attempts : Msg("answer", b) \in wire' => Msg("answer", b) \in wire
        BY DEF IInv, WebTypeOK
  <1>5. QED BY <1>1, <1>2, <1>3, <1>4, CleanupStep

LEMMA StartCallStep ==
    ASSUME IInv, NEW a \in Attempts, StartCall(a) PROVE IInv'
  <1> USE WebUiAssumption
  <1>1. Busy(a)
        BY DEF StartCall, Microphone, Offer, Answered, Refused, AnswerSet, Busy
  <1>2. wire' \subseteq wire /\ UNCHANGED <<ws, server, early>> /\ Fail(a) => IInv'
        BY <1>1, FailStep
  <1> DEFINE Moves(stage) ==
        /\ attempt' = [attempt EXCEPT ![a].stage = stage]
        /\ UNCHANGED <<rtcPeer, currentCallId, ended, ws, server, early>>
  <1>3. CASE Microphone(a)
    <2>1. CASE attempt' = [attempt EXCEPT ![a].mic = TRUE, ![a].pc = TRUE, ![a].stage = "offer"]
               /\ UNCHANGED <<rtcPeer, currentCallId, ended, ws, wire, server, early>>
      <3> USE <2>1, <1>3 DEF IInv, WebTypeOK, AttemptRecord, Stage, Stray, Microphone
      <3>1. WebTypeOK'          BY DEF Stages
      <3>2. HangupWithinReach'  BY DEF HangupWithinReach
      <3>3. AnswersAreReal'     BY DEF AnswersAreReal
      <3>4. OnScreen'           BY DEF OnScreen
      <3>5. EndedWhere'         BY DEF EndedWhere, OnScreen
      <3>6. AnswersApart'       BY DEF AnswersApart
      <3>7. CandidatesApart'    BY DEF CandidatesApart
      <3>8. IdOnScreen'         BY DEF IdOnScreen
      <3>9. QED BY <3>1, <3>2, <3>3, <3>4, <3>5, <3>6, <3>7, <3>8
    <2>2. QED BY <1>2, <1>3, <2>1 DEF Microphone
  <1>4. CASE Offer(a)
    <2>1. ASSUME attempt[a].pc, Moves("dialing"), wire' = wire \cup {Msg("start", a)}, ws = "open"
          PROVE  IInv'
      <3> USE <2>1, <1>4 DEF IInv, WebTypeOK, AttemptRecord, Stage, Stray, Offer
      <3>1. WebTypeOK'          BY DEF Msg, Message, Stages
      <3>2. HangupWithinReach'  BY DEF HangupWithinReach
      <3>3. AnswersAreReal'     BY DEF AnswersAreReal, Msg
      <3>4. OnScreen'           BY DEF OnScreen
      <3>5. EndedWhere'         BY DEF EndedWhere, OnScreen
      <3>6. AnswersApart'       BY DEF AnswersApart
      <3>7. CandidatesApart'    BY DEF CandidatesApart
      <3>8. IdOnScreen'         BY DEF IdOnScreen
      <3>9. QED BY <3>1, <3>2, <3>3, <3>4, <3>5, <3>6, <3>7, <3>8
    <2>2. QED BY <1>2, <1>4, <2>1 DEF Offer
  <1>5. CASE Answered(a)
    <2>1. ASSUME Connected, currentCallId' = a, UNCHANGED <<rtcPeer, ended>>,
                 \/ /\ attempt[rtcPeer].remote = None
                    /\ Stage(rtcPeer) \in {"offer", "dialing"}
                    /\ attempt' = [attempt EXCEPT ![a].stage = "answering", ![rtcPeer].remote = a]
                 \/ /\ Stage(rtcPeer) # "dialing" \/ attempt[rtcPeer].remote # None
                    /\ attempt' = [attempt EXCEPT ![a].stage = "answering"]
          PROVE  IInv'
      <3>0. rtcPeer \in Attempts
            BY <2>1 DEF Connected
      <3>a. rtcPeer = a \/ Stray(a)
            BY <1>5 DEF Answered, IInv, OnScreen, EndedWhere, Stage, Stray
      <3>b. attempt \in [Attempts -> AttemptRecord]
            BY DEF IInv, WebTypeOK
      <3>c. attempt' \in [Attempts -> AttemptRecord]
            BY <2>1, <3>0, <3>b DEF AttemptRecord, Stages
      \* What becomes of each attempt.
      <3>d. ASSUME NEW d \in Attempts
            PROVE  /\ attempt'[d].stage = IF d = a THEN "answering" ELSE attempt[d].stage
                   /\ \/ attempt'[d].remote = attempt[d].remote
                      \/ d = rtcPeer /\ attempt'[d].remote = a
                   /\ attempt'[d].ice = attempt[d].ice
                   /\ attempt'[d].mic = attempt[d].mic /\ attempt'[d].pc = attempt[d].pc
        <4>1. \/ attempt'[d] = attempt[d] /\ d # a
              \/ attempt'[d] = [attempt[d] EXCEPT !.stage = "answering"] /\ d = a
              \/ attempt'[d] = [attempt[d] EXCEPT !.remote = a] /\ d # a /\ d = rtcPeer
              \/ /\ attempt'[d] = [attempt[d] EXCEPT !.stage = "answering", !.remote = a]
                 /\ d = a /\ d = rtcPeer
              BY <2>1, <3>0, <3>b
        <4>2. attempt[d] \in AttemptRecord
              BY <3>b
        <4>3. QED BY <4>1, <4>2 DEF AttemptRecord
      <3>e. /\ currentCallId' = a /\ UNCHANGED <<rtcPeer, ended, ws, server, early>>
            /\ wire' \subseteq wire /\ Msg("answer", a) \in wire
            /\ Stage(a) = "dialing" /\ Stage(rtcPeer) # "unused"
            BY <1>5, <2>1, <3>0 DEF Answered, IInv, OnScreen
      <3>1. WebTypeOK'          BY <3>c, <3>e DEF IInv, WebTypeOK
      <3>2. HangupWithinReach'
            BY <3>0, <3>d, <3>e, WebUiAssumption DEF IInv, HangupWithinReach, AnswersAreReal, Stage
      <3>3. AnswersAreReal'     BY <3>e DEF IInv, AnswersAreReal
      <3>4. OnScreen'           BY <3>d, <3>e DEF IInv, OnScreen, Stage
      <3>5. EndedWhere'
        <4> SUFFICES ASSUME NEW d \in Attempts
            PROVE  /\ attempt'[d].stage = "unused" => ended[d] = "no" /\ attempt'[d].remote = None
                   /\ attempt'[d].stage = "mic" => ended[d] \in {"no", "mic"}
                   /\ attempt'[d].stage = "offer" => ended[d] \in {"no", "mic", "offer"}
                   /\ attempt'[d].stage = "dialing" => ended[d] \in {"no", "mic", "dialing"}
                   /\ attempt'[d].stage = "answering" =>
                         ended[d] \in {"no", "mic", "dialing", "answering"}
                   /\ attempt'[d].mic \/ attempt'[d].pc => rtcPeer = d \/ ended[d] = "mic"
            BY <3>e DEF EndedWhere, Stage
        <4>1. CASE d = a
              BY <3>d, <3>e, <4>1 DEF IInv, EndedWhere, Stage
        <4>2. CASE d # a
              BY <3>d, <3>e, <4>2 DEF IInv, EndedWhere, Stage
        <4>3. QED BY <4>1, <4>2
      <3>6. AnswersApart'
            BY <3>a, <3>d, <3>e DEF IInv, AnswersApart, Stray, Stage
      <3>7. CandidatesApart'    BY <3>d, <3>e DEF IInv, CandidatesApart, Stray
      <3>8. IdOnScreen'         BY <3>a, <3>e, WebUiAssumption DEF IInv, IdOnScreen, Stray
      <3>9. QED BY <3>1, <3>2, <3>3, <3>4, <3>5, <3>6, <3>7, <3>8 DEF IInv
    <2>2. QED BY <1>2, <1>5, <2>1 DEF Answered
  <1>6. CASE Refused(a)
        BY <1>2, <1>6 DEF Refused
  <1>7. CASE AnswerSet(a)
    <2>1. ASSUME Moves("done"), UNCHANGED wire
          PROVE  IInv'
      <3> USE <2>1, <1>7 DEF IInv, WebTypeOK, AttemptRecord, Stage, Stray, AnswerSet
      <3>1. WebTypeOK'          BY DEF Stages
      <3>2. HangupWithinReach'  BY DEF HangupWithinReach
      <3>3. AnswersAreReal'     BY DEF AnswersAreReal
      <3>4. OnScreen'           BY DEF OnScreen
      <3>5. EndedWhere'         BY DEF EndedWhere
      <3>6. AnswersApart'       BY DEF AnswersApart
      <3>7. CandidatesApart'    BY DEF CandidatesApart
      <3>8. IdOnScreen'         BY DEF IdOnScreen
      <3>9. QED BY <3>1, <3>2, <3>3, <3>4, <3>5, <3>6, <3>7, <3>8
    <2>2. QED BY <1>2, <1>7, <2>1 DEF AnswerSet
  <1>8. QED BY <1>3, <1>4, <1>5, <1>6, <1>7 DEF StartCall

\* A candidate goes out under the id in hand, from a connection that is on the
\* screen or was opened behind it.
LEMMA CandidateStep ==
    ASSUME IInv, NEW a \in Attempts, LocalCandidate(a) PROVE IInv'
  <1> USE WebUiAssumption
      DEF IInv, WebTypeOK, AttemptRecord, Stage, Stray, LocalCandidate
  <1>1. WebTypeOK'          BY DEF Stages
  <1>2. HangupWithinReach'  BY DEF HangupWithinReach
  <1>3. AnswersAreReal'     BY DEF AnswersAreReal
  <1>4. OnScreen'           BY DEF OnScreen
  <1>5. EndedWhere'         BY DEF EndedWhere
  <1>6. AnswersApart'       BY DEF AnswersApart
  <1>7. CandidatesApart'    BY DEF CandidatesApart, EndedWhere, IdOnScreen
  <1>8. IdOnScreen'         BY DEF IdOnScreen
  <1>9. QED BY <1>1, <1>2, <1>3, <1>4, <1>5, <1>6, <1>7, <1>8

\* The button, the event and the connection end what is on the screen.
LEMMA EndStep ==
    ASSUME IInv, ClickHangup \/ CallEnded \/ \E a \in Attempts : ConnectionFailed(a)
    PROVE  IInv'
  <1> USE WebUiAssumption
  <1>1. /\ cleanupCall(attempt)
        /\ early' \subseteq Attempts
        /\ wire' \subseteq Message /\ ws' = ws /\ (ws = "down" => wire' = {})
        /\ server' = server
        /\ \A b \in Attempts : Msg("answer", b) \in wire' => Msg("answer", b) \in wire
        BY DEF ClickHangup, CallEnded, ConnectionFailed, IInv, WebTypeOK, Msg, Message
  <1>2. attempt \in [Attempts -> AttemptRecord]
        BY DEF IInv, WebTypeOK
  <1>3. QED BY <1>1, <1>2, CleanupStep

\* The gateway and the socket.
LEMMA OutsideStep ==
    ASSUME IInv,
           \/ \E a \in Attempts : GatewayStart(a) \/ GatewayHangup(a)
           \/ SocketCloses \/ SocketOpens
    PROVE  IInv'
  <1>1. UNCHANGED tab
        BY DEF GatewayStart, GatewayHangup, SocketCloses, SocketOpens, tab
  <1>2. OnScreen' /\ EndedWhere' /\ AnswersApart' /\ CandidatesApart' /\ IdOnScreen'
        BY <1>1 DEF tab, IInv, OnScreen, EndedWhere, AnswersApart, CandidatesApart, IdOnScreen,
                    Stray, Stage
  <1>3. WebTypeOK' /\ HangupWithinReach' /\ AnswersAreReal'
    <2> USE DEF IInv, WebTypeOK, HangupWithinReach, AnswersAreReal, Stage, tab
    <2>1. ASSUME NEW a \in Attempts, GatewayStart(a)
          PROVE  WebTypeOK' /\ HangupWithinReach' /\ AnswersAreReal'
      <3>1. WebTypeOK'          BY <2>1 DEF GatewayStart, Message, Msg
      <3>2. HangupWithinReach'  BY <2>1 DEF GatewayStart
      <3>3. AnswersAreReal'     BY <2>1 DEF GatewayStart, Msg
      <3>4. QED BY <3>1, <3>2, <3>3
    <2>2. ASSUME NEW a \in Attempts, GatewayHangup(a)
          PROVE  WebTypeOK' /\ HangupWithinReach' /\ AnswersAreReal'
      <3>1. WebTypeOK'          BY <2>2 DEF GatewayHangup
      <3>2. HangupWithinReach'  BY <2>2 DEF GatewayHangup
      <3>3. AnswersAreReal'     BY <2>2 DEF GatewayHangup
      <3>4. QED BY <3>1, <3>2, <3>3
    <2>3. CASE SocketCloses     BY <2>3 DEF SocketCloses
    <2>4. CASE SocketOpens      BY <2>4 DEF SocketOpens
    <2>5. QED BY <2>1, <2>2, <2>3, <2>4
  <1>4. QED BY <1>2, <1>3 DEF IInv

\* The inductive invariant: where an attempt was ended determines what it can
\* still do to the globals.
THEOREM WebInvariant == Spec => []IInv
  <1>1. IInv /\ [Next]_webVars => IInv'
    <2> SUFFICES ASSUME IInv, [Next]_webVars PROVE IInv'
        OBVIOUS
    <2>1. CASE UNCHANGED webVars
          BY <2>1 DEF webVars, IInv, WebTypeOK, HangupWithinReach, AnswersAreReal, OnScreen,
                      EndedWhere, AnswersApart, CandidatesApart, IdOnScreen, Stray, Stage
    <2>2. CASE Next
          BY <2>2, ClickStep, StartCallStep, CandidateStep, EndStep, OutsideStep DEF Next
    <2>3. QED BY <2>1, <2>2
  <1>2. QED BY <1>1, InitIInv, PTL DEF Spec

\* The tab can always hang up the call it knows, whatever interleaves.
THEOREM HangupPossible == Spec => []HangupWithinReach
  <1>1. IInv => HangupWithinReach  BY DEF IInv
  <1>2. QED BY <1>1, WebInvariant, PTL

\* Only an attempt ended during its microphone prompt leaves a microphone on
\* behind the screen.
THEOREM MicIsReleased == Spec => []MicReleased
  <1>1. IInv => MicReleased  BY DEF IInv, EndedWhere, MicReleased
  <1>2. QED BY <1>1, WebInvariant, PTL

\* Only a startCall that was ended at its prompt or while dialling mixes up calls.
THEOREM CallsStayApart == Spec => []CallsKeptApart
  <1>1. IInv => CallsKeptApart
        BY DEF IInv, AnswersApart, CandidatesApart, IdOnScreen, CallsKeptApart
  <1>2. QED BY <1>1, WebInvariant, PTL

\* Nothing inside the tab is the first to interrupt a startCall.
LEMMA FirstInterruption ==
    ASSUME IInv, [Next]_webVars, \A a \in Attempts : ~Interrupted(a),
           NEW b \in Attempts, Interrupted(b)'
    PROVE  \/ ClickHangup
           \/ CallEnded
           \/ \E a \in Attempts : rtcPeer = a /\ Stage(a) = "answering" /\ ConnectionFailed(a)
  <1>1. ended'[b] # ended[b]
        BY DEF Interrupted
  \* A startCall under way is the one on the screen.
  <1>2. \A a \in Attempts : Busy(a) => rtcPeer = a
        BY DEF IInv, OnScreen, EndedWhere, Interrupted, Busy, Stage
  <1>3. ASSUME NEW a \in Attempts, Busy(a), Fail(a) PROVE FALSE
    <2>1. rtcPeer = a
          BY <1>2, <1>3
    <2>2. ended'[a] = "failed" /\ \A c \in Attempts : c # a => ended'[c] = ended[c]
      <3> DEFINE new == [attempt EXCEPT ![a].stage = "failed"]
      <3>1. new[a].stage = "failed"
            BY DEF IInv, WebTypeOK, AttemptRecord
      <3>2. ended' = [c \in Attempts |-> IF c = rtcPeer THEN new[c].stage ELSE ended[c]]
            BY <1>3 DEF Fail, cleanupCall, NoteEnd
      <3> HIDE DEF new
      <3>3. QED BY <2>1, <3>1, <3>2
    <2>3. QED BY <1>1, <2>2 DEF Interrupted
  <1>4. ASSUME NEW a \in Attempts, StartCall(a) PROVE FALSE
    <2>1. Fail(a) \/ UNCHANGED ended
          BY <1>4 DEF StartCall, Microphone, Offer, Answered, Refused, AnswerSet
    <2>2. Busy(a)
          BY <1>4 DEF StartCall, Microphone, Offer, Answered, Refused, AnswerSet, Busy
    <2>3. QED BY <1>1, <1>3, <2>1, <2>2
  <1>5. ASSUME NEW a \in Attempts, ConnectionFailed(a)
        PROVE  rtcPeer = a /\ Stage(a) = "answering"
    <2>1. rtcPeer = a
          BY <1>5 DEF ConnectionFailed, IInv, EndedWhere, Interrupted
    <2>2. b = a /\ ended'[a] = Stage(a)
          BY <1>1, <1>5, <2>1 DEF ConnectionFailed, cleanupCall, NoteEnd, Stage
    <2>3. attempt[a].remote = a
          BY <1>5 DEF ConnectionFailed, IInv, WebTypeOK, AttemptRecord, AnswersApart, Stray, Interrupted
    <2>4. Stage(a) \in {"answering", "done", "failed"}
          BY <2>3 DEF IInv, AnswersApart
    <2>5. Stage(a) \in {"mic", "offer", "dialing", "answering"}
          BY <2>2 DEF Interrupted
    <2>6. QED BY <2>1, <2>4, <2>5
  <1>6. QED
    BY <1>1, <1>4, <1>5
    DEF Next, webVars, ClickCall, LocalCandidate, GatewayStart, GatewayHangup, SocketCloses,
        SocketOpens, tab

\* As long as nothing outside interrupts a startCall, no set-up disturbs another.
THEOREM SetUpsUndisturbed == Spec => SetUpUndisturbed
  <1>1. IInv /\ [Next]_webVars =>
          [(\E a \in Attempts : Interrupted(a)') =>
              \/ \E a \in Attempts : Interrupted(a)
              \/ ClickHangup
              \/ CallEnded
              \/ \E a \in Attempts : rtcPeer = a /\ Stage(a) = "answering" /\ ConnectionFailed(a)
          ]_webVars
        BY FirstInterruption
  <1>2. QED BY <1>1, WebInvariant, PTL DEF Spec, SetUpUndisturbed

\* The tab's records have their types.
THEOREM WebTypeCorrect == Spec => []WebTypeOK
  <1>1. IInv => WebTypeOK  BY DEF IInv
  <1>2. QED BY <1>1, WebInvariant, PTL
=============================================================================
