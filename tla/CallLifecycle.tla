--------------------------- MODULE CallLifecycle ---------------------------
(***************************************************************************)
(* What the plugin promises about voice calls, with none of the code's     *)
(* records, maps or handlers: a call goes through its phases in one        *)
(* direction, is over once it has ended, a session has at most one call    *)
(* that has not ended, and at most MaxLive calls are live at once.         *)
(* CallOrchestrator is shown to implement it.                              *)
(***************************************************************************)
EXTENDS Naturals, FiniteSets

CONSTANTS CallIds,      \* identities a call can get
          SessionKeys,  \* sessions that place calls
          MaxLive,      \* how many calls may be live at once
          NoSession     \* the holder of a call that was never placed

VARIABLES phase,   \* phase[c]: how far call c has got
          holder   \* holder[c]: the session that placed c

vars == <<phase, holder>>

LivePhases == {"initiating", "connecting", "active"}
Live == {c \in CallIds : phase[c] \in LivePhases}

Init == /\ phase = [c \in CallIds |-> "unborn"]
        /\ holder = [c \in CallIds |-> NoSession]

\* Session s places a call that never existed before.
Place(c, s) ==
    /\ phase[c] = "unborn"
    /\ Cardinality(Live) < MaxLive
    /\ \A d \in Live : holder[d] # s
    /\ phase' = [phase EXCEPT ![c] = "initiating"]
    /\ holder' = [holder EXCEPT ![c] = s]

\* A live call moves forward; it may skip "connecting".
Advance(c, p) ==
    /\ \/ phase[c] = "initiating" /\ p \in {"connecting", "active"}
       \/ phase[c] = "connecting" /\ p = "active"
    /\ phase' = [phase EXCEPT ![c] = p]
    /\ UNCHANGED holder

\* Some live calls end together: one hang-up, or all of them at a shutdown.
End(C) ==
    /\ C # {}
    /\ phase' = [c \in CallIds |-> IF c \in C THEN "ended" ELSE phase[c]]
    /\ UNCHANGED holder

Next == \/ \E c \in CallIds, s \in SessionKeys : Place(c, s)
        \/ \E c \in CallIds, p \in {"connecting", "active"} : Advance(c, p)
        \/ \E C \in SUBSET Live : End(C)

Spec == Init /\ [][Next]_vars
=============================================================================
