----------------------------- MODULE NodeClient -----------------------------
(***************************************************************************)
(* rtc-node/gateway.go and main.go: one process of the Go RTC node and its *)
(* connection to the gateway.  Three kinds of goroutine share it: main,    *)
(* which dials, waits and calls Close; readLoop; and one goroutine for     *)
(* each node.invoke.request.  Nothing guards g.closed.                     *)
(***************************************************************************)
CONSTANT Invokes   \* commands the gateway sends over the connection, each once

VARIABLES main,     \* where main stands, or how the process ended
          reader,   \* where readLoop stands
          conn,     \* the WebSocket: "lost" by the other side, "closed" by this one
          closed,   \* g.closed
          done,     \* the channel g.done is closed
          signal,   \* a signal waits in sigCh
          invoke    \* invoke[i]: the goroutine that handles command i

nodeVars == <<main, reader, conn, closed, done, signal, invoke>>

Ends    == {"exited", "failed", "killed", "panicked"}
Running == main \notin Ends

Init ==
    /\ main = "dialing"
    /\ reader = "off"
    /\ conn = "none"
    /\ closed = FALSE
    /\ done = FALSE
    /\ signal = FALSE
    /\ invoke = [i \in Invokes |-> "none"]

-----------------------------------------------------------------------------
(* Connect *)

Dial ==
    /\ main = "dialing"
    /\ \/ main' = "challenge" /\ conn' = "up"
       \/ main' = "failed" /\ UNCHANGED conn
    /\ UNCHANGED <<reader, closed, done, signal, invoke>>

\* Faulty variant: the read loop starts with the handshake.
HandshakeReadsAlready ==
    /\ main \in {"challenge", "response"}
    /\ conn = "up"
    /\ main' = IF main = "challenge" THEN "response" ELSE "waiting"
    /\ reader' = "reading"
    /\ UNCHANGED <<conn, closed, done, signal, invoke>>

\* handshake: the challenge is read and answered, then the response accepts the
\* node; any other frame, a read error or a rejection closes the connection and
\* main exits with status 1.
Handshake ==
    /\ main \in {"challenge", "response"}
    /\ \/ /\ conn = "up"
          /\ main = "challenge"
          /\ main' = "response"
          /\ UNCHANGED <<reader, conn>>
       \/ /\ conn = "up"
          /\ main = "response"
          /\ main' = "waiting"
          /\ reader' = "reading"
          /\ UNCHANGED conn
       \/ /\ main' = "failed"
          /\ conn' = "closed"
          /\ UNCHANGED reader
    /\ UNCHANGED <<closed, done, signal, invoke>>

-----------------------------------------------------------------------------
(* readLoop *)

\* Faulty variant: the loop ends without a word.
ReaderClosesSilently ==
    /\ Running
    /\ reader = "claiming"
    /\ reader' = "over"
    /\ closed' = TRUE
    /\ UNCHANGED <<main, done, conn, signal, invoke>>

\* ReadMessage fails.
ReaderFails ==
    /\ Running
    /\ reader = "reading"
    /\ conn # "up"
    /\ reader' = "leaving"
    /\ UNCHANGED <<main, conn, closed, done, signal, invoke>>

\* The deferred function reads g.closed ...
ReaderTests ==
    /\ Running
    /\ reader = "leaving"
    /\ reader' = IF closed THEN "over" ELSE "claiming"
    /\ UNCHANGED <<main, conn, closed, done, signal, invoke>>

\* ... and, if it was not set, sets it and closes g.done; closing a closed
\* channel panics.
ReaderCloses ==
    /\ Running
    /\ reader = "claiming"
    /\ reader' = "over"
    /\ closed' = TRUE
    /\ done' = TRUE
    /\ main' = IF done THEN "panicked" ELSE main
    /\ UNCHANGED <<conn, signal, invoke>>

\* A well-formed node.invoke.request gets a goroutine.
InvokeArrives(i) ==
    /\ Running
    /\ reader = "reading"
    /\ conn = "up"
    /\ invoke[i] = "none"
    /\ invoke' = [invoke EXCEPT ![i] = "running"]
    /\ UNCHANGED <<main, reader, conn, closed, done, signal>>

\* onInvoke returned: the result or the error is sent and not waited for; over a
\* connection that is gone it is dropped.
InvokeReturns(i) ==
    /\ Running
    /\ invoke[i] = "running"
    /\ invoke' = [invoke EXCEPT ![i] = IF conn = "up" THEN "sent" ELSE "dropped"]
    /\ UNCHANGED <<main, reader, conn, closed, done, signal>>

-----------------------------------------------------------------------------
(* main and Close *)

\* main's select.
Wake ==
    /\ main = "waiting"
    /\ signal \/ done
    /\ main' = "closing"
    /\ UNCHANGED <<reader, conn, closed, done, signal, invoke>>

\* Faulty variant: g.closed is left as it is.
CloseBeginsUnmarked ==
    /\ main = "closing"
    /\ main' = "closingConn"
    /\ UNCHANGED <<reader, conn, closed, done, signal, invoke>>

\* Close: g.closed = true ...
CloseBegins ==
    /\ main = "closing"
    /\ main' = "closingConn"
    /\ closed' = TRUE
    /\ UNCHANGED <<reader, conn, done, signal, invoke>>

\* ... g.conn.Close() ...
CloseConn ==
    /\ main = "closingConn"
    /\ main' = "closingDone"
    /\ conn' = IF conn = "up" THEN "closed" ELSE conn
    /\ UNCHANGED <<reader, closed, done, signal, invoke>>

\* ... close(g.done), whether or not the reader has closed it; main returns.
CloseDone ==
    /\ main = "closingDone"
    /\ main' = IF done THEN "panicked" ELSE "exited"
    /\ done' = TRUE
    /\ UNCHANGED <<reader, conn, closed, signal, invoke>>

-----------------------------------------------------------------------------
(* Outside *)

\* SIGINT or SIGTERM: before signal.Notify it ends the process.
Interrupt ==
    /\ Running
    /\ ~signal
    /\ IF main \in {"dialing", "challenge", "response"}
       THEN main' = "killed" /\ UNCHANGED signal
       ELSE signal' = TRUE /\ UNCHANGED main
    /\ UNCHANGED <<reader, conn, closed, done, invoke>>

LoseConnection ==
    /\ Running
    /\ conn = "up"
    /\ conn' = "lost"
    /\ UNCHANGED <<main, reader, closed, done, signal, invoke>>

-----------------------------------------------------------------------------

ProcessStep ==
    \/ Dial \/ Handshake
    \/ ReaderFails \/ ReaderTests \/ ReaderCloses
    \/ Wake \/ CloseBegins \/ CloseConn \/ CloseDone

Next ==
    \/ ProcessStep
    \/ \E i \in Invokes : InvokeArrives(i) \/ InvokeReturns(i)
    \/ Interrupt
    \/ LoseConnection

Spec == Init /\ [][Next]_nodeVars

\* A goroutine that can run, runs; the handshake waits for the gateway for as
\* long as the connection is up, so only its error path is fair.
FairSpec ==
    /\ Spec
    /\ WF_nodeVars((conn = "lost" /\ Handshake) \/ Wake \/ CloseBegins \/ CloseConn \/ CloseDone)
    /\ WF_nodeVars(ReaderFails \/ ReaderTests \/ ReaderCloses)
-----------------------------------------------------------------------------
(* Properties *)

Connecting == {"dialing", "challenge", "response"}
Closing    == {"closing", "closingConn", "closingDone"}

\* Type invariant: the reader exists only once the handshake is over, and no
\* command is handled before.
NodeTypeOK ==
    /\ main \in Connecting \cup {"waiting"} \cup Closing \cup Ends
    /\ reader \in {"off", "reading", "leaving", "claiming", "over"}
    /\ conn \in {"none", "up", "lost", "closed"}
    /\ closed \in BOOLEAN /\ done \in BOOLEAN /\ signal \in BOOLEAN
    /\ invoke \in [Invokes -> {"none", "running", "sent", "dropped"}]
    /\ main \in Connecting =>
          reader = "off" /\ \A i \in Invokes : invoke[i] = "none"

\* A signal alone shuts a connected node down cleanly: the process panics only
\* if the other side ended the connection.
PanicOnlyAfterLoss == main = "panicked" => conn = "lost"

\* No process outlives its connection: once the gateway is gone, or a signal has
\* come, the process ends (and with it every peer connection it holds).
ProcessEnds == (conn = "lost" \/ signal) ~> ~Running

\* main waits for "interrupt or connection close" and then closes the client:
\* neither makes the process panic.
NeverPanics == main # "panicked"
=============================================================================
