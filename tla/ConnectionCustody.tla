------------------------- MODULE ConnectionCustody -------------------------
(***************************************************************************)
(* Who can close a connection.  Both RTC nodes hand each connection on,    *)
(* from the accept that makes it to the map of stored connections, from    *)
(* there to one hang-up, failure callback or shutdown, and no further.  As *)
(* long as it is open exactly one can close it, unless LeavesOpen: then a  *)
(* failed accept leaves it to nobody.  PeerManager and TsNode implement    *)
(* this, with all their commands, callbacks and audio.                     *)
(***************************************************************************)
CONSTANTS Connections,
          LeavesOpen     \* an accept that fails forgets its connection, open

VARIABLES accept,    \* the accept: "none", "running", "answered", "failed";
                     \* it runs once
          open,      \* the connection is not closed yet, though it may have failed
          holders    \* those who can close it: "accept", "map", "closer"

vars == <<accept, open, holders>>

Init == /\ accept = [k \in Connections |-> "none"]
        /\ open = [k \in Connections |-> FALSE]
        /\ holders = [k \in Connections |-> {}]

Make(k) ==
    /\ accept[k] = "none"
    /\ accept' = [accept EXCEPT ![k] = "running"]
    /\ open' = [open EXCEPT ![k] = TRUE]
    /\ holders' = [holders EXCEPT ![k] = {"accept"}]

\* An accept that succeeds has stored its connection.
Store(k) ==
    /\ accept[k] = "running"
    /\ holders[k] = {"accept"}
    /\ accept' = [accept EXCEPT ![k] = "answered"]
    /\ holders' = [holders EXCEPT ![k] = {"map"}]
    /\ UNCHANGED open

GiveUp(k) ==
    /\ accept[k] = "running"
    /\ holders[k] = {"accept"}
    /\ accept' = [accept EXCEPT ![k] = "failed"]
    /\ holders' = [holders EXCEPT ![k] = {}]
    /\ open' = [open EXCEPT ![k] = LeavesOpen]

\* Entries are taken out of the map to be closed, all of them at a shutdown.
Take(K) ==
    /\ \A k \in K : holders[k] = {"map"}
    /\ holders' = [k \in Connections |-> IF k \in K THEN {"closer"} ELSE holders[k]]
    /\ UNCHANGED <<accept, open>>

Close(k) ==
    /\ holders[k] = {"closer"}
    /\ holders' = [holders EXCEPT ![k] = {}]
    /\ open' = [open EXCEPT ![k] = FALSE]
    /\ UNCHANGED accept

Next == \/ \E k \in Connections : Make(k) \/ Store(k) \/ GiveUp(k) \/ Close(k)
        \/ \E K \in SUBSET Connections : Take(K)

Spec == Init /\ [][Next]_vars
=============================================================================
