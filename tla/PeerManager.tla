---------------------------- MODULE PeerManager ----------------------------
(***************************************************************************)
(* rtc-node/peer.go and loopback.go: the WebRTC connections of the Go RTC  *)
(* node, one record per node process and call.  AcceptCall, ClosePeer, the *)
(* connection-state callback and the audio goroutines run concurrently;    *)
(* pm.mu protects only the map, so they interleave between its critical    *)
(* sections.                                                               *)
(***************************************************************************)
CONSTANTS Nodes,     \* RTC node processes
          CallIds,   \* calls
          Loopback   \* processes with loopbackSec > 0: record, then replay;
                     \* the others echo

ASSUME LoopbackAssumption == Loopback \subseteq Nodes

VARIABLE peer   \* peer[n][c]: what process n holds of call c

-----------------------------------------------------------------------------
(* Records *)

\* accept:   where AcceptCall stands;
\* pc:       the pion PeerConnection ("failed" until somebody closes it);
\* stored:   pm.peers has an entry for the call;
\* closing:  a ClosePeer took the entry and has not closed the pc yet;
\* notice:   the OnConnectionStateChange(Failed) goroutine has yet to run;
\* track:    the goroutine reading the browser's audio, or the replay loop;
\* attached: entry.loopback # nil;  stopped: lb.stopped.
PeerRecord ==
    [accept   : {"none", "gathering", "returned", "failed"},
     pc       : {"none", "open", "failed", "closed"},
     stored   : BOOLEAN,
     closing  : BOOLEAN,
     notice   : BOOLEAN,
     track    : {"none", "echo", "recording", "replaying", "over"},
     attached : BOOLEAN,
     stopped  : BOOLEAN]

NoPeer == [accept |-> "none", pc |-> "none", stored |-> FALSE, closing |-> FALSE,
           notice |-> FALSE, track |-> "none", attached |-> FALSE, stopped |-> FALSE]

Init == peer = [n \in Nodes |-> [c \in CallIds |-> NoPeer]]

-----------------------------------------------------------------------------
(* AcceptCall *)

\* The connection is made, offer and answer are set, the callbacks registered;
\* the goroutine now waits for <-gatherComplete.
AcceptCall(n, c) ==
    /\ peer[n][c].accept = "none"
    /\ peer' = [peer EXCEPT ![n][c].accept = "gathering", ![n][c].pc = "open"]

\* Faulty variant: an error path that forgets pc.Close().
AcceptErrorUnclosed(n, c) ==
    /\ peer[n][c].accept = "gathering"
    /\ peer' = [peer EXCEPT ![n][c].accept = "failed"]

\* One of the calls before the wait failed: the connection is closed again.
AcceptError(n, c) ==
    /\ peer[n][c].accept = "gathering"
    /\ peer' = [peer EXCEPT ![n][c] = [@ EXCEPT !.accept = "failed", !.pc = "closed",
                                                !.notice = FALSE]]

\* Faulty variant: the answer is returned and the entry never stored.
AcceptReturnUnstored(n, c) ==
    /\ peer[n][c].accept = "gathering"
    /\ peer' = [peer EXCEPT ![n][c].accept = "returned"]

\* Candidates are gathered: the entry goes into the map, the answer back.
AcceptReturn(n, c) ==
    /\ peer[n][c].accept = "gathering"
    /\ peer' = [peer EXCEPT ![n][c] = [@ EXCEPT !.accept = "returned", !.stored = TRUE]]

-----------------------------------------------------------------------------
(* ClosePeer: called for a hang-up and by the connection-state callback *)

\* Faulty variant: the entry is closed without leaving the map.
TakenStill(p) == [p EXCEPT !.closing = @ \/ p.stored]

\* The critical section: take the entry out of the map, if there is one.
Taken(p) == [p EXCEPT !.stored = FALSE, !.closing = @ \/ p.stored]

ClosePeer(n, c) == peer' = [peer EXCEPT ![n][c] = Taken(@)]

\* Faulty variant: the loopback is not stopped.
ClosePeerEndSilent(n, c) ==
    /\ peer[n][c].closing
    /\ peer' = [peer EXCEPT ![n][c].closing = FALSE, ![n][c].pc = "closed"]

\* Who took the entry stops its loopback and closes the connection; the Closed
\* callback this causes finds no entry.
Closed(p) == [p EXCEPT !.closing = FALSE, !.pc = "closed", !.stopped = @ \/ p.attached]

ClosePeerEnd(n, c) ==
    /\ peer[n][c].closing
    /\ peer' = [peer EXCEPT ![n][c] = Closed(@)]

\* ICE or DTLS gives up; pion runs the callback in a goroutine of its own.
PcFails(n, c) ==
    /\ peer[n][c].pc = "open"
    /\ peer' = [peer EXCEPT ![n][c] = [@ EXCEPT !.pc = "failed", !.notice = TRUE]]

\* Faulty variant: the callback only knows the Closed state.
FailedCallbackIgnored(n, c) ==
    /\ peer[n][c].notice
    /\ peer' = [peer EXCEPT ![n][c].notice = FALSE]

FailedCallback(n, c) ==
    /\ peer[n][c].notice
    /\ peer' = [peer EXCEPT ![n][c] = [Taken(@) EXCEPT !.notice = FALSE]]

-----------------------------------------------------------------------------
(* Audio *)

FirstTrack(n) == IF n \in Loopback THEN "recording" ELSE "echo"

\* Faulty variants: the test of loopbackSec is the wrong way round; the loopback
\* is never attached to the entry.
OnTrackSwapped(n, c) ==
    /\ peer[n][c].accept = "returned"
    /\ peer[n][c].pc = "open"
    /\ peer[n][c].track = "none"
    /\ peer' = [peer EXCEPT ![n][c].track = FirstTrack(n),
                            ![n][c].attached = n \notin Loopback /\ peer[n][c].stored]
OnTrackUnattached(n, c) ==
    /\ peer[n][c].accept = "returned"
    /\ peer[n][c].pc = "open"
    /\ peer[n][c].track = "none"
    /\ peer' = [peer EXCEPT ![n][c].track = FirstTrack(n)]

\* The browser, which has the answer, sends its track: OnTrack starts the echo
\* or the recording, and attaches the loopback if the entry is still there.
OnTrack(n, c) ==
    /\ peer[n][c].accept = "returned"
    /\ peer[n][c].pc = "open"
    /\ peer[n][c].track = "none"
    /\ peer' = [peer EXCEPT ![n][c].track = FirstTrack(n),
                            ![n][c].attached = n \in Loopback /\ peer[n][c].stored]

\* The recording window (seconds) is over: replayLoop starts.  A close that is
\* under way (milliseconds) ends before a window does.
RecordingOver(n, c) ==
    /\ peer[n][c].track = "recording"
    /\ peer[n][c].pc = "open"
    /\ ~peer[n][c].closing
    /\ peer' = [peer EXCEPT ![n][c].track = "replaying"]

\* ReadRTP fails once the connection is closed; replayLoop, which only writes,
\* ends when its stop channel is closed.
TrackEnds(n, c) ==
    /\ \/ peer[n][c].track \in {"echo", "recording"} /\ peer[n][c].pc = "closed"
       \/ peer[n][c].track = "replaying" /\ peer[n][c].stopped
    /\ peer' = [peer EXCEPT ![n][c].track = "over"]

-----------------------------------------------------------------------------

\* What the code does on its own, without a command.
Internal(n, c) ==
    \/ AcceptError(n, c) \/ AcceptReturn(n, c)
    \/ ClosePeerEnd(n, c)
    \/ FailedCallback(n, c)
    \/ TrackEnds(n, c)

\* What the gateway and the network do to it.
External(n, c) ==
    \/ AcceptCall(n, c)
    \/ ClosePeer(n, c)
    \/ PcFails(n, c)
    \/ OnTrack(n, c)
    \/ RecordingOver(n, c)

Next == \E n \in Nodes, c \in CallIds : Internal(n, c) \/ External(n, c)

Spec == Init /\ [][Next]_peer

\* Goroutines that can run, run.
FairSpec == Spec /\ \A n \in Nodes, c \in CallIds : WF_peer(Internal(n, c))
-----------------------------------------------------------------------------
(* Properties *)

\* Type invariant: a process that echoes never records.
TypeOK ==
    /\ peer \in [Nodes -> [CallIds -> PeerRecord]]
    /\ \A n \in Nodes, c \in CallIds :
          IF n \in Loopback THEN peer[n][c].track # "echo"
                            ELSE /\ peer[n][c].track \notin {"recording", "replaying"}
                                 /\ ~peer[n][c].attached

\* No connection leaks: one that is not closed belongs to an AcceptCall that
\* waits, to an entry a hang-up can find, or to a ClosePeer under way.
PcReachable ==
    \A n \in Nodes, c \in CallIds :
        peer[n][c].pc \in {"open", "failed"} =>
            peer[n][c].accept = "gathering" \/ peer[n][c].stored \/ peer[n][c].closing

\* A connection is closed by one ClosePeer only: who closes it holds the entry
\* nobody else can find any more.
CloserAlone ==
    \A n \in Nodes, c \in CallIds :
        /\ peer[n][c].closing => ~peer[n][c].stored /\ peer[n][c].pc # "closed"
        /\ peer[n][c].stored => peer[n][c].pc # "closed"

\* A replay loop always has somebody who can stop it: its connection is up and
\* holds its loopback, or it has been told to stop.
ReplayStoppable ==
    \A n \in Nodes, c \in CallIds :
        peer[n][c].track = "replaying" =>
            \/ peer[n][c].stopped
            \/ peer[n][c].attached /\ (peer[n][c].stored \/ peer[n][c].closing)

\* Once the connection is closed, its audio goroutines end.
AudioEnds ==
    \A n \in Nodes, c \in CallIds :
        peer[n][c].pc = "closed" ~> peer[n][c].track \in {"none", "over"}

\* A connection that fails after its entry was stored is closed, hang-up or not.
FailureIsCleanedUp ==
    \A n \in Nodes, c \in CallIds :
        (peer[n][c].pc = "failed" /\ peer[n][c].notice /\ peer[n][c].stored)
            ~> peer[n][c].pc = "closed"

\* Where an accept stands, who can close its connection, and whether it is open.
AcceptStage(p) == IF p.accept = "gathering" THEN "running"
                  ELSE IF p.accept = "returned" THEN "answered" ELSE p.accept
Holders(p) == {h \in {"accept", "map", "closer"} :
                  CASE h = "accept" -> p.accept = "gathering"
                    [] h = "map"    -> p.stored
                    [] h = "closer" -> p.closing}
Open(p) == p.pc \in {"open", "failed"}

Custody == INSTANCE ConnectionCustody
    WITH Connections <- Nodes \X CallIds,
         LeavesOpen  <- FALSE,
         accept      <- [k \in Nodes \X CallIds |-> AcceptStage(peer[k[1]][k[2]])],
         open        <- [k \in Nodes \X CallIds |-> Open(peer[k[1]][k[2]])],
         holders     <- [k \in Nodes \X CallIds |-> Holders(peer[k[1]][k[2]])]

\* Hang-ups, failures and accepts pass a connection on without ever leaving it to
\* nobody or to two.
ImplementsCustody == Custody!Spec
=============================================================================
