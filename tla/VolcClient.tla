---------------------------- MODULE VolcClient ----------------------------
(***************************************************************************)
(* plugin/node/volc-client.ts: the client of the Volcano Engine dialogue   *)
(* API.  One object runs one socket after another; its fields ws and       *)
(* sessionActive are written by its methods and by the close handler of    *)
(* every socket it ever made.  Frames are the events they carry.           *)
(*                                                                         *)
(* Nothing in the repository calls the client yet.  Its owner is taken to  *)
(* await connect and to call it again only while isConnected is false.     *)
(***************************************************************************)
EXTENDS Naturals

CONSTANTS Sockets, None

ASSUME VolcAssumption == None \notin Sockets

VARIABLES ws,              \* this.ws
          sessionActive,   \* this.sessionActive
          sock,            \* sock[s]: readyState; "closed" before connect makes s
                           \* and once its close event ran, then s can stand for
                           \* another socket
          promise,         \* promise[s]: the promise of the connect that made s
          phase,           \* phase[s]: the session the frames sent on s describe
          stray,           \* sockets a frame was sent on before they were open, or
                           \* while they carried no session
          raced            \* connect ran before an earlier socket's close event

volcVars == <<ws, sessionActive, sock, promise, phase, stray, raced>>

isConnected == ws # None /\ sock[ws] = "open"

Unclosed == {s \in Sockets : sock[s] # "closed"}

VolcInit ==
    /\ ws = None
    /\ sessionActive = FALSE
    /\ sock = [s \in Sockets |-> "closed"]
    /\ promise = [s \in Sockets |-> "none"]
    /\ phase = [s \in Sockets |-> "none"]
    /\ stray = {}
    /\ raced = FALSE

-----------------------------------------------------------------------------
(* The methods *)

connect(s) ==
    /\ ~isConnected
    /\ \A t \in Sockets : promise[t] # "pending"
    /\ sock[s] = "closed"
    /\ ws' = s
    /\ sock' = [sock EXCEPT ![s] = "connecting"]
    /\ promise' = [promise EXCEPT ![s] = "pending"]
    /\ phase' = [phase EXCEPT ![s] = "none"]
    /\ raced' = (raced \/ Unclosed # {})
    /\ UNCHANGED <<sessionActive, stray>>

\* It throws unless the socket is open.
startSession(s) ==
    /\ ws = s
    /\ isConnected
    /\ phase' = [phase EXCEPT ![s] = "started"]
    /\ sessionActive' = TRUE
    /\ UNCHANGED <<ws, sock, promise, stray, raced>>

Strays(s) ==
    IF sock[s] = "connecting" \/ (sock[s] = "open" /\ phase[s] # "started") THEN {s} ELSE {}

\* sendAudio and sendTtsText ask for a session, not for an open socket: a frame
\* for a closing socket is dropped.
sendAudio(s) ==
    /\ ws = s
    /\ sessionActive
    /\ stray' = stray \union Strays(s)
    /\ UNCHANGED <<ws, sessionActive, sock, promise, phase, raced>>

finishSessionKept(s) ==
    /\ ws = s
    /\ sessionActive
    /\ stray' = stray \union Strays(s)
    /\ phase' = [phase EXCEPT ![s] = IF sock[s] = "open" THEN "finished" ELSE @]
    /\ UNCHANGED <<ws, sessionActive, sock, promise, raced>>

\* A socket that is not open yet throws before sessionActive is cleared.
finishSession(s) ==
    /\ ws = s
    /\ sessionActive
    /\ stray' = stray \union Strays(s)
    /\ sessionActive' = (sock[s] = "connecting")
    /\ phase' = [phase EXCEPT ![s] = IF sock[s] = "open" THEN "finished" ELSE @]
    /\ UNCHANGED <<ws, sock, promise, raced>>

disconnectUnclosed(s) ==
    /\ ws = s
    /\ sessionActive' = FALSE
    /\ ws' = None
    /\ UNCHANGED <<sock, promise, phase, stray, raced>>

\* Closing an unopened socket aborts its handshake.
disconnect(s) ==
    /\ ws = s
    /\ sessionActive' = FALSE
    /\ sock' = [sock EXCEPT ![s] = "closing"]
    /\ ws' = None
    /\ UNCHANGED <<promise, phase, stray, raced>>

-----------------------------------------------------------------------------
(* The socket's events *)

Opened(s) ==
    /\ sock[s] = "connecting"
    /\ sock' = [sock EXCEPT ![s] = "open"]
    /\ promise' = [promise EXCEPT ![s] = "resolved"]
    /\ UNCHANGED <<ws, sessionActive, phase, stray, raced>>

\* The handshake failed or was aborted: the error event, before the close event.
ConnectError(s) ==
    /\ promise[s] = "pending"
    /\ sock' = [sock EXCEPT ![s] = "closing"]
    /\ promise' = [promise EXCEPT ![s] = "rejected"]
    /\ UNCHANGED <<ws, sessionActive, phase, stray, raced>>

\* The server, or the network, closes an open socket.
RemoteCloses(s) ==
    /\ sock[s] = "open"
    /\ sock' = [sock EXCEPT ![s] = "closing"]
    /\ UNCHANGED <<ws, sessionActive, promise, phase, stray, raced>>

\* The close handler does not ask whose socket this.ws is.
Closed(s) ==
    /\ sock[s] = "closing"
    /\ promise[s] # "pending"
    /\ sock' = [sock EXCEPT ![s] = "closed"]
    /\ sessionActive' = FALSE
    /\ ws' = None
    /\ UNCHANGED <<promise, phase, stray, raced>>

VolcNext ==
    \E s \in Sockets :
        \/ connect(s) \/ startSession(s) \/ sendAudio(s) \/ finishSession(s)
        \/ disconnect(s) \/ Opened(s) \/ ConnectError(s) \/ RemoteCloses(s) \/ Closed(s)

VolcSpec == VolcInit /\ [][VolcNext]_volcVars

-----------------------------------------------------------------------------
(* Properties *)

VolcTypeOK ==
    /\ ws \in Sockets \union {None}
    /\ sessionActive \in BOOLEAN
    /\ sock \in [Sockets -> {"connecting", "open", "closing", "closed"}]
    /\ promise \in [Sockets -> {"none", "pending", "resolved", "rejected"}]
    /\ phase \in [Sockets -> {"none", "started", "finished"}]
    /\ stray \in SUBSET Sockets
    /\ raced \in BOOLEAN

\* As long as no connect overtook the close event of an earlier socket, the flag
\* that lets audio, text and the end of a session out agrees with the session the
\* open socket carries, and no such frame was ever sent outside of a session.  The
\* flag is per object and outlives a socket until its close handler runs
\* (volc-client.ts:100); neither connect nor sendAudio compare it with the socket.
SessionAgrees ==
    ~raced =>
        /\ stray = {}
        /\ sessionActive => ws # None /\ sock[ws] \in {"open", "closing"}
        /\ isConnected => (sessionActive <=> phase[ws] = "started")

\* On the same condition every socket that is opening or open can be disconnected:
\* this.ws names it.  The close handler clears this.ws whatever it names, so after
\* disconnect and connect an old socket's close event orphans the new one.
NoOrphan ==
    ~raced => \A s \in Sockets : sock[s] \in {"connecting", "open"} => ws = s
=============================================================================
