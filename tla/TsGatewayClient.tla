-------------------------- MODULE TsGatewayClient --------------------------
(***************************************************************************)
(* plugin/node/gateway-client.ts: the TypeScript node's connection to the  *)
(* gateway.  Unlike the Go node it connects again when the socket closes   *)
(* and goes on with the commands it has; their results go out on whatever  *)
(* socket is open when they are ready.                                     *)
(***************************************************************************)
EXTENDS Naturals

CONSTANTS Commands,     \* commands the gateway sends, each once
          MaxLosses     \* bound: connections that fail or are lost

ASSUME TsClientAssumption == MaxLosses \in Nat

VARIABLES socket,        \* this.ws: "none" when null, or its readyState
          connectSent,   \* this.connectSent
          reconnect,     \* this.reconnectTimer is set
          first,         \* the first frame sent on this socket
          registered,    \* the gateway lists the node
          losses,        \* connections failed or lost so far
          command        \* command[i]: handleInvokeRequest for command i

\* stage: the handler runs, or the positive or the negative result was sent and
\* its reply is awaited.  wire: that result on its way, or the reply to it on its
\* way back.  taken: what the gateway made of the invoke it awaits.
ClientRecord ==
    [stage : {"none", "running", "positive", "negative", "over"},
     wire  : {"none", "positive", "negative", "yes", "no"},
     taken : {"none", "waiting", "positive", "negative", "gaveup"}]

Unsent == [stage |-> "none", wire |-> "none", taken |-> "none"]

ClientInit ==
    /\ socket = "connecting"
    /\ connectSent = FALSE
    /\ reconnect = FALSE
    /\ first = "none"
    /\ registered = FALSE
    /\ losses = 0
    /\ command = [i \in Commands |-> Unsent]

-----------------------------------------------------------------------------
(* start, the socket's events and scheduleReconnect *)

\* The reconnect timer fires: start().
Reconnect ==
    /\ reconnect
    /\ reconnect' = FALSE
    /\ socket' = "connecting"
    /\ connectSent' = FALSE
    /\ first' = "none"
    /\ UNCHANGED <<registered, losses, command>>

Opens ==
    /\ socket = "connecting"
    /\ socket' = "open"
    /\ UNCHANGED <<connectSent, reconnect, first, registered, losses, command>>

\* Faulty variant: a result that cannot be sent is kept for the next connection.
FlushedRetried(r) == IF r.stage = "positive" THEN [r EXCEPT !.stage = "negative", !.wire = "none"]
                     ELSE r

\* flushPending: the request that waits for the reply of a result is rejected,
\* the catch's second request finds no socket, and handleInvokeRequest is over.
Flushed(r) == IF r.stage \in {"positive", "negative"}
              THEN [r EXCEPT !.stage = "over", !.wire = "none"] ELSE r

\* Faulty variant: only after a connection that was used is there another attempt.
CloseEventOnce ==
    /\ socket = "closing"
    /\ socket' = "none"
    /\ reconnect' = (first # "none")
    /\ command' = [i \in Commands |-> Flushed(command[i])]
    /\ UNCHANGED <<connectSent, first, registered, losses>>

\* The close handler, of a socket that was open or could not be opened.
CloseEvent ==
    /\ socket = "closing"
    /\ socket' = "none"
    /\ reconnect' = TRUE
    /\ command' = [i \in Commands |-> Flushed(command[i])]
    /\ UNCHANGED <<connectSent, first, registered, losses>>

\* What the gateway does when the connection ends: invokes pending on it reject,
\* and what was under way is lost.
Dropped(r) == [r EXCEPT !.wire = "none", !.taken = IF r.taken = "waiting" THEN "gaveup" ELSE r.taken]

GatewayDrops ==
    /\ socket' = "closing"
    /\ registered' = FALSE
    /\ command' = [i \in Commands |-> Dropped(command[i])]
    /\ UNCHANGED <<connectSent, reconnect, first>>

\* Connecting fails, or the connection is lost.
LoseConnection ==
    /\ socket \in {"connecting", "open"}
    /\ losses < MaxLosses
    /\ losses' = losses + 1
    /\ GatewayDrops

-----------------------------------------------------------------------------
(* handleChallenge *)

\* The first challenge on a connection is answered with "connect"; it may come
\* after a result has gone out.
Challenge ==
    /\ socket = "open"
    /\ ~connectSent
    /\ connectSent' = TRUE
    /\ first' = IF first = "none" THEN "connect" ELSE first
    /\ UNCHANGED <<socket, reconnect, registered, losses, command>>

\* The gateway takes a node that said "connect" ...
GatewayAccepts ==
    /\ socket = "open"
    /\ connectSent
    /\ ~registered
    /\ registered' = TRUE
    /\ UNCHANGED <<socket, connectSent, reconnect, first, losses, command>>

\* ... and may end a connection that began with something else.
GatewayRejects ==
    /\ socket = "open"
    /\ first = "result"
    /\ ~registered
    /\ GatewayDrops
    /\ UNCHANGED losses

-----------------------------------------------------------------------------
(* handleInvokeRequest: operators on the record of one command *)

\* The handler is started.
Taken(r) == [r EXCEPT !.stage = "running", !.taken = "waiting"]

\* Faulty variant: request() does not look at the socket.
SentUnchecked(r, result) == [r EXCEPT !.stage = result, !.wire = result]

\* request(): the result is sent if the socket is open; if not, it throws, the
\* catch's request throws as well, and that is the end of it.
Sent(r, result) == IF socket = "open" THEN [r EXCEPT !.stage = result, !.wire = result]
                   ELSE [r EXCEPT !.stage = "over"]

\* Sending a result makes it the first frame of a socket that has sent nothing.
FirstAfterResult == IF socket = "open" /\ first = "none" THEN "result" ELSE first

\* The gateway takes the result of an invoke it awaits, or refuses it; a late one
\* may get either reply.
GatewayTakes(i) ==
    LET r == command[i]
    IN  /\ registered
        /\ r.wire \in {"positive", "negative"}
        /\ \/ /\ r.taken = "waiting"
              /\ command' = [command EXCEPT ![i] = [@ EXCEPT !.taken = r.wire, !.wire = "yes"]]
           \/ /\ r.taken # "waiting"
              /\ command' = [command EXCEPT ![i] = [@ EXCEPT !.wire = "yes"]]
           \/ command' = [command EXCEPT ![i] = [@ EXCEPT !.wire = "no"]]
        /\ UNCHANGED <<socket, connectSent, reconnect, first, registered, losses>>

\* handleResponse: a positive result that was refused is followed by a negative
\* one, from the catch.
Replied(r) == IF r.wire = "no" /\ r.stage = "positive"
              THEN [r EXCEPT !.stage = "negative", !.wire = "negative"]
              ELSE [r EXCEPT !.stage = "over", !.wire = "none"]

ReplyArrives(i) ==
    /\ socket = "open"
    /\ command[i].wire \in {"yes", "no"}
    /\ command' = [command EXCEPT ![i] = Replied(@)]
    /\ UNCHANGED <<socket, connectSent, reconnect, first, registered, losses>>

\* The gateway's timeout.
GivesUp(i) ==
    /\ command[i].taken = "waiting"
    /\ command' = [command EXCEPT ![i] = [@ EXCEPT !.taken = "gaveup"]]
    /\ UNCHANGED <<socket, connectSent, reconnect, first, registered, losses>>

\* What happens to the connection, and to results on it.
Connection ==
    \/ Reconnect \/ Opens \/ CloseEvent \/ LoseConnection
    \/ Challenge \/ GatewayAccepts \/ GatewayRejects
    \/ \E i \in Commands : GatewayTakes(i) \/ ReplyArrives(i) \/ GivesUp(i)
-----------------------------------------------------------------------------
(* Properties *)

\* The node always has a socket or is about to open one; it is listed only over an
\* open connection on which it said "connect"; a result or reply is under way
\* only for a command that waits for it, on an open socket.
ClientTypeOK ==
    /\ socket \in {"none", "connecting", "open", "closing"}
    /\ connectSent \in BOOLEAN
    /\ reconnect \in BOOLEAN
    /\ reconnect <=> socket = "none"
    /\ first \in {"none", "connect", "result"}
    /\ registered \in BOOLEAN
    /\ registered => socket = "open" /\ connectSent
    /\ losses \in 0..MaxLosses
    /\ command \in [Commands -> ClientRecord]
    /\ \A i \in Commands :
          /\ command[i].stage = "none" <=> command[i].taken = "none"
          /\ command[i].wire # "none" => socket = "open" /\ command[i].stage \in {"positive", "negative"}

\* The gateway never gets two stories about one command: after it took a positive
\* result no negative one is sent, neither by the catch when the reply is lost with
\* the connection, nor on the connection that follows.
ResultsAgree ==
    \A i \in Commands :
        command[i].taken = "positive" => "negative" \notin {command[i].stage, command[i].wire}
=============================================================================
