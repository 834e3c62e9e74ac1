---------------------------- MODULE CallService ----------------------------
(***************************************************************************)
(* What the gateway and its RTC nodes together promise of a voice call,    *)
(* with none of their handlers, commands, goroutines or maps.  A call has  *)
(* a record at the gateway and a connection on some node, and the two are  *)
(* far apart; the promise is how they stay related: one node is asked once *)
(* for a connection, the record takes an answer only from a node that gave *)
(* one, and a connection that works is given up only for a call that has   *)
(* ended, or with the process that held it.  CallSystem implements it.     *)
(***************************************************************************)
CONSTANTS CallIds,   \* calls
          Nodes      \* nodes that can run a process

VARIABLES phase,     \* phase[c]: the record, from "unborn" to "ended"
          asked,     \* asked[c]: what the one command to connect c came to
          running,   \* the nodes whose process runs
          media      \* media[n][c]: the connection the process of n has for c

vars == <<phase, asked, running, media>>

Init == /\ phase = [c \in CallIds |-> "unborn"]
        /\ asked = [c \in CallIds |-> "no"]
        /\ running = {}
        /\ media = [n \in Nodes |-> [c \in CallIds |-> "none"]]

-----------------------------------------------------------------------------
(* The record *)

Place(c) ==
    /\ phase[c] = "unborn"
    /\ phase' = [phase EXCEPT ![c] = "initiating"]
    /\ UNCHANGED <<asked, running, media>>

\* The gateway takes an answer only after the node has given one.
TakeAnswer(c) ==
    /\ phase[c] = "initiating"
    /\ asked[c] = "answered"
    /\ phase' = [phase EXCEPT ![c] = "connecting"]
    /\ UNCHANGED <<asked, running, media>>

End(C) ==
    /\ \A c \in C : phase[c] \notin {"unborn", "ended"}
    /\ phase' = [c \in CallIds |-> IF c \in C THEN "ended" ELSE phase[c]]
    /\ UNCHANGED <<asked, running, media>>

-----------------------------------------------------------------------------
(* The connection *)

\* A process is asked for the connection of a call that was placed; no process
\* was before, and none will be again.
Prepare(n, c) ==
    /\ n \in running
    /\ phase[c] # "unborn"
    /\ asked[c] = "no"
    /\ media[n][c] = "none"
    /\ asked' = [asked EXCEPT ![c] = "asked"]
    /\ media' = [media EXCEPT ![n][c] = "preparing"]
    /\ UNCHANGED <<phase, running>>

\* It answers, though the connection may have broken meanwhile; or it gives up.
Ready(n, c) ==
    /\ asked[c] = "asked"
    /\ media[n][c] \in {"preparing", "broken"}
    /\ asked' = [asked EXCEPT ![c] = "answered"]
    /\ media' = [media EXCEPT ![n][c] = IF @ = "preparing" THEN "up" ELSE @]
    /\ UNCHANGED <<phase, running>>

Refuse(n, c) ==
    /\ asked[c] = "asked"
    /\ media[n][c] \in {"preparing", "broken"}
    /\ asked' = [asked EXCEPT ![c] = "failed"]
    /\ media' = [media EXCEPT ![n][c] = "closed"]
    /\ UNCHANGED <<phase, running>>

Break(n, c) ==
    /\ media[n][c] \in {"preparing", "up"}
    /\ media' = [media EXCEPT ![n][c] = "broken"]
    /\ UNCHANGED <<phase, asked, running>>

\* A connection that works is closed only when its call is over; a broken one is
\* closed once nobody is preparing it any more.
Release(n, c) ==
    /\ \/ media[n][c] = "up" /\ phase[c] = "ended"
       \/ media[n][c] = "broken" /\ asked[c] # "asked"
    /\ media' = [media EXCEPT ![n][c] = "closed"]
    /\ UNCHANGED <<phase, asked, running>>

-----------------------------------------------------------------------------
(* Processes.  C are the calls whose command was on its way to the process.   *)

Boot(n, C) ==
    /\ n \notin running
    /\ \A c \in C : phase[c] # "unborn" /\ asked[c] = "no"
    /\ running' = running \cup {n}
    /\ asked' = [c \in CallIds |-> IF c \in C THEN "failed" ELSE asked[c]]
    /\ UNCHANGED <<phase, media>>

Preparing(n) == {c \in CallIds : asked[c] = "asked" /\ media[n][c] # "none"}

Crash(n, C) ==
    /\ n \in running
    /\ \A c \in C : phase[c] # "unborn" /\ asked[c] = "no"
    /\ running' = running \ {n}
    /\ asked' = [c \in CallIds |-> IF c \in C \cup Preparing(n) THEN "failed" ELSE asked[c]]
    /\ media' = [media EXCEPT ![n] = [c \in CallIds |-> "none"]]
    /\ UNCHANGED phase

Next ==
    \/ \E c \in CallIds : Place(c) \/ TakeAnswer(c)
    \/ \E C \in SUBSET CallIds : End(C)
    \/ \E n \in Nodes, c \in CallIds :
          Prepare(n, c) \/ Ready(n, c) \/ Refuse(n, c) \/ Break(n, c) \/ Release(n, c)
    \/ \E n \in Nodes, C \in SUBSET CallIds : Boot(n, C) \/ Crash(n, C)

Spec == Init /\ [][Next]_vars
=============================================================================
