--------------------------- MODULE TsPeerManager ---------------------------
(***************************************************************************)
(* plugin/node/peer-manager.ts: the connections of the TypeScript node.    *)
(* JavaScript runs one callback at a time, so what stands between two      *)
(* awaits is one step; commands, connection events and the timers of the   *)
(* delayed loopback interleave at the awaits.                              *)
(***************************************************************************)
CONSTANTS CallIds,
          Loopback     \* options.loopbackSec > 0

VARIABLE peer   \* peer[c]: acceptCall for c, its connection and its entries

\* accept: where acceptCall stands; stored, loop: c is in this.peers, in
\* this.loopbacks; audio: what was made of the incoming track; timer: state.timer
\* will still fire.
PeerRecord ==
    [accept : {"none", "negotiating", "answered", "failed"},
     pc     : {"none", "up", "disconnected", "failed", "closing", "closed"},
     stored : BOOLEAN,
     loop   : BOOLEAN,
     audio  : {"none", "echo", "importing", "recording", "switching", "playing", "over"},
     timer  : BOOLEAN]

NoPeer == [accept |-> "none", pc |-> "none", stored |-> FALSE, loop |-> FALSE,
           audio |-> "none", timer |-> FALSE]

Init == peer = [c \in CallIds |-> NoPeer]

-----------------------------------------------------------------------------
(* acceptCall *)

\* Up to the first description.
AcceptCall(c) ==
    /\ peer[c].accept = "none"
    /\ peer' = [peer EXCEPT ![c] = [@ EXCEPT !.accept = "negotiating", !.pc = "up"]]

\* Faulty variant: the connection is not put into the map.
AcceptReturnsUnstored(c) ==
    /\ peer[c].accept = "negotiating"
    /\ peer' = [peer EXCEPT ![c] = [@ EXCEPT !.accept = "answered"]]

\* The answer is set, and the connection stored whatever became of it.
AcceptReturns(c) ==
    /\ peer[c].accept = "negotiating"
    /\ peer' = [peer EXCEPT ![c] = [@ EXCEPT !.accept = "answered", !.stored = TRUE]]

\* A description is rejected: acceptCall throws and leaves the connection alone.
AcceptThrows(c) ==
    /\ peer[c].accept = "negotiating"
    /\ peer' = [peer EXCEPT ![c] = [@ EXCEPT !.accept = "failed"]]

-----------------------------------------------------------------------------
(* closePeer *)

\* Faulty variant: the loopback is dropped and its timer is left running.
CloseEntryTimed(p) ==
    [p EXCEPT !.loop = FALSE, !.stored = FALSE, !.pc = IF p.stored THEN "closing" ELSE p.pc]

\* Faulty variant: the entry is dropped and its connection is not closed.
CloseEntryUnclosed(p) ==
    [p EXCEPT !.loop = FALSE, !.timer = p.timer /\ ~p.loop, !.stored = FALSE]

\* Up to its await: the loopback is dropped with its timer, and the entry is
\* taken and its connection told to close, each if it is there.
CloseEntry(p) ==
    [p EXCEPT !.loop = FALSE,
              !.timer = p.timer /\ ~p.loop,
              !.stored = FALSE,
              !.pc = IF p.stored THEN "closing" ELSE p.pc]

closePeer(c) == peer' = [peer EXCEPT ![c] = CloseEntry(@)]

\* closeAll: closePeer for every key of the map.
closeAll == peer' = [c \in CallIds |-> IF peer[c].stored THEN CloseEntry(peer[c]) ELSE peer[c]]

\* pc.close() is through: the connection reports "closed", which is a "peerclose"
\* and so runs closePeer again; or close() threw, which is ignored.
PcCloses(c) ==
    /\ peer[c].pc = "closing"
    /\ \/ peer' = [peer EXCEPT ![c] = CloseEntry([@ EXCEPT !.pc = "closed"])]
       \/ peer' = [peer EXCEPT ![c] = [@ EXCEPT !.pc = "closed"]]

-----------------------------------------------------------------------------
(* connectionStateChange *)

\* "disconnected" and "failed" are "peerclose" too.
PcDrops(c, state) ==
    /\ \/ peer[c].pc = "up" /\ state \in {"disconnected", "failed"}
       \/ peer[c].pc = "disconnected" /\ state = "failed"
    /\ peer' = [peer EXCEPT ![c] = CloseEntry([@ EXCEPT !.pc = state])]

\* Consent is back on a connection that nobody closed.
PcRecovers(c) ==
    /\ peer[c].pc = "disconnected"
    /\ peer' = [peer EXCEPT ![c] = [@ EXCEPT !.pc = "up"]]

-----------------------------------------------------------------------------
(* onTrack and startDelayedLoopback *)

\* The track is echoed at once; the loopback starts with an import.
OnTrack(c) ==
    /\ peer[c].pc = "up"
    /\ peer[c].audio = "none"
    /\ peer' = [peer EXCEPT ![c] = [@ EXCEPT !.audio = IF Loopback THEN "importing" ELSE "echo"]]

\* The import is through, whatever happened to the call meanwhile.
LoopbackReady(c) ==
    /\ peer[c].audio = "importing"
    /\ peer' = [peer EXCEPT ![c] = [@ EXCEPT !.audio = "recording", !.loop = TRUE, !.timer = TRUE]]

\* The recording timer fires: nothing was recorded, or the sender is switched.
RecordingOver(c) ==
    /\ peer[c].audio = "recording"
    /\ peer[c].timer
    /\ \E audio \in {"over", "switching"} :
          peer' = [peer EXCEPT ![c] = [@ EXCEPT !.audio = audio, !.timer = FALSE]]

\* replaceTrack is through: the loop starts unless the loopback was dropped; or
\* replaceTrack or the first packet failed.
PlaybackReady(c) ==
    /\ peer[c].audio = "switching"
    /\ \/ /\ peer[c].loop
          /\ peer' = [peer EXCEPT ![c] = [@ EXCEPT !.audio = "playing", !.timer = TRUE]]
       \/ peer' = [peer EXCEPT ![c] = [@ EXCEPT !.audio = "over"]]

\* playNext or loopOnce: as long as the loopback is there and the packet can be
\* written the timer is set again, which changes nothing here.
PlayEnds(c) ==
    /\ peer[c].audio = "playing"
    /\ peer[c].timer
    /\ peer' = [peer EXCEPT ![c] = [@ EXCEPT !.audio = "over", !.timer = FALSE]]

\* What connections and timers do on their own.
Internal(c) ==
    \/ PcCloses(c)
    \/ \E state \in {"disconnected", "failed"} : PcDrops(c, state)
    \/ PcRecovers(c)
    \/ OnTrack(c) \/ LoopbackReady(c) \/ RecordingOver(c) \/ PlaybackReady(c) \/ PlayEnds(c)
-----------------------------------------------------------------------------
(* Properties *)

PeersTypeOK == peer \in [CallIds -> PeerRecord]

\* An answered call can be hung up: its connection is in the map, unless somebody
\* closes it or has closed it.  The callbacks of connections that drop before they
\* are stored, repeated "peerclose" events and hang-ups must not lose it.
AnsweredReachable ==
    \A c \in CallIds :
        (peer[c].accept = "answered" /\ peer[c].pc \notin {"closing", "closed"}) => peer[c].stored

\* Whatever the order of hang-up, import, recording and replay, a timer that can
\* still fire belongs to a loopback that is still in the map, where closePeer finds
\* it; so no replay goes on that could not be ended.
TimersReachable == \A c \in CallIds : peer[c].timer => peer[c].loop
=============================================================================
