------------------------- MODULE PeerManager_proofs -------------------------
(***************************************************************************)
(* Proofs about the Go node's peer map.  Every property of a connection is *)
(* a fact about its own record, so the inductive invariant is a predicate  *)
(* on one record, and each action is checked on the record it changes.     *)
(***************************************************************************)
EXTENDS PeerManager, TLAPS

\* What holds of one connection of a node that records (lp) or echoes.
\* Stage by stage: nothing before AcceptCall, an open connection while it
\* gathers, closed after an error; and from then on the entry is in the map, or
\* taken by whoever closes the connection, or the connection is closed.
GoodPeer(p, lp) ==
    /\ p \in PeerRecord
    /\ p.accept = "none" => /\ p.pc = "none" /\ p.track = "none"
                            /\ ~p.stored /\ ~p.closing /\ ~p.notice
    /\ p.accept = "gathering" => /\ p.pc \in {"open", "failed"}
                                 /\ ~p.stored /\ ~p.closing /\ p.track = "none"
    /\ p.accept = "failed" => /\ p.pc = "closed"
                              /\ ~p.stored /\ ~p.closing /\ p.track = "none"
    /\ p.accept = "returned" => /\ (p.pc = "closed") <=> (~p.stored /\ ~p.closing)
                                /\ p.pc # "none"
                                /\ ~(p.stored /\ p.closing)
    /\ p.track = "none" => ~p.attached /\ ~p.stopped
    /\ (p.track = "recording" /\ p.stored) => p.attached
    /\ p.track = "replaying" => p.stopped \/ (p.attached /\ (p.stored \/ p.closing))
    /\ IF lp THEN p.track # "echo"
             ELSE p.track \notin {"recording", "replaying"} /\ ~p.attached

IInv == /\ peer \in [Nodes -> [CallIds -> PeerRecord]]
        /\ \A n \in Nodes, c \in CallIds : GoodPeer(peer[n][c], n \in Loopback)

-----------------------------------------------------------------------------

\* A step that only touches the record of (n, c), leaving it good, keeps IInv.
LEMMA OneRecord ==
    ASSUME IInv, NEW n \in Nodes, NEW c \in CallIds, NEW q,
           GoodPeer(q, n \in Loopback),
           peer' = [peer EXCEPT ![n][c] = q]
    PROVE  IInv'
<1>1. q \in PeerRecord
  BY DEF GoodPeer
<1>2. peer' \in [Nodes -> [CallIds -> PeerRecord]]
  BY <1>1 DEF IInv
<1>3. ASSUME NEW m \in Nodes, NEW d \in CallIds
      PROVE  GoodPeer(peer'[m][d], m \in Loopback)
  <2>1. CASE m = n /\ d = c
    <3>1. peer'[m][d] = q
      BY <2>1 DEF IInv
    <3> QED
      BY <3>1, <2>1
  <2>2. CASE ~(m = n /\ d = c)
    <3>1. peer'[m][d] = peer[m][d]
      BY <2>2 DEF IInv
    <3> QED
      BY <3>1 DEF IInv
  <2> QED
    BY <2>1, <2>2
<1> QED
  BY <1>2, <1>3 DEF IInv

\* The same, with the new record written as an update of the old one.
LEMMA GoodOld ==
    ASSUME IInv, NEW n \in Nodes, NEW c \in CallIds
    PROVE  /\ GoodPeer(peer[n][c], n \in Loopback)
           /\ peer[n][c] \in PeerRecord
  BY DEF IInv

\* The critical section of ClosePeer keeps a good connection good.
LEMMA GoodTaken ==
    ASSUME NEW p, NEW lp, GoodPeer(p, lp)
    PROVE  GoodPeer(Taken(p), lp)
  BY DEF GoodPeer, Taken, PeerRecord

LEMMA AcceptSteps ==
    ASSUME IInv, NEW n \in Nodes, NEW c \in CallIds,
           AcceptCall(n, c) \/ AcceptError(n, c) \/ AcceptReturn(n, c)
    PROVE  IInv'
<1> DEFINE p == peer[n][c]
<1>0. GoodPeer(p, n \in Loopback) /\ p \in PeerRecord
  BY GoodOld
<1>1. CASE AcceptCall(n, c)
  <2> DEFINE q == [p EXCEPT !.accept = "gathering", !.pc = "open"]
  <2>1. peer' = [peer EXCEPT ![n][c] = q]
    BY <1>1 DEF AcceptCall, IInv
  <2>2. GoodPeer(q, n \in Loopback)
    BY <1>0, <1>1 DEF AcceptCall, GoodPeer, PeerRecord
  <2> QED
    BY <2>1, <2>2, OneRecord
<1>2. CASE AcceptError(n, c)
  <2> DEFINE q == [p EXCEPT !.accept = "failed", !.pc = "closed", !.notice = FALSE]
  <2>1. peer' = [peer EXCEPT ![n][c] = q]
    BY <1>2 DEF AcceptError, IInv
  <2>2. GoodPeer(q, n \in Loopback)
    BY <1>0, <1>2 DEF AcceptError, GoodPeer, PeerRecord
  <2> QED
    BY <2>1, <2>2, OneRecord
<1>3. CASE AcceptReturn(n, c)
  <2> DEFINE q == [p EXCEPT !.accept = "returned", !.stored = TRUE]
  <2>1. peer' = [peer EXCEPT ![n][c] = q]
    BY <1>3 DEF AcceptReturn, IInv
  <2>2. GoodPeer(q, n \in Loopback)
    BY <1>0, <1>3 DEF AcceptReturn, GoodPeer, PeerRecord
  <2> QED
    BY <2>1, <2>2, OneRecord
<1> QED
  BY <1>1, <1>2, <1>3
LEMMA CloseSteps ==
    ASSUME IInv, NEW n \in Nodes, NEW c \in CallIds,
           \/ ClosePeer(n, c) \/ ClosePeerEnd(n, c)
           \/ PcFails(n, c) \/ FailedCallback(n, c)
    PROVE  IInv'
<1> DEFINE p == peer[n][c]
<1>0. GoodPeer(p, n \in Loopback) /\ p \in PeerRecord
  BY GoodOld
<1>1. CASE ClosePeer(n, c)
  <2>1. peer' = [peer EXCEPT ![n][c] = Taken(p)]
    BY <1>1 DEF ClosePeer, IInv
  <2>2. GoodPeer(Taken(p), n \in Loopback)
    BY GoodTaken, <1>0
  <2> QED
    BY <2>1, <2>2, OneRecord
<1>2. CASE ClosePeerEnd(n, c)
  <2>1. peer' = [peer EXCEPT ![n][c] = Closed(p)]
    BY <1>2 DEF ClosePeerEnd, IInv
  <2>2. GoodPeer(Closed(p), n \in Loopback)
    BY <1>0, <1>2 DEF ClosePeerEnd, Closed, GoodPeer, PeerRecord
  <2> QED
    BY <2>1, <2>2, OneRecord
<1>3. CASE PcFails(n, c)
  <2> DEFINE q == [p EXCEPT !.pc = "failed", !.notice = TRUE]
  <2>1. peer' = [peer EXCEPT ![n][c] = q]
    BY <1>3 DEF PcFails, IInv
  <2>2. GoodPeer(q, n \in Loopback)
    BY <1>0, <1>3 DEF PcFails, GoodPeer, PeerRecord
  <2> QED
    BY <2>1, <2>2, OneRecord
<1>4. CASE FailedCallback(n, c)
  <2> DEFINE q == [Taken(p) EXCEPT !.notice = FALSE]
  <2>1. peer' = [peer EXCEPT ![n][c] = q]
    BY <1>4 DEF FailedCallback, IInv
  <2>2. GoodPeer(Taken(p), n \in Loopback) /\ Taken(p).accept # "none"
    <3>1. GoodPeer(Taken(p), n \in Loopback)
      BY GoodTaken, <1>0
    <3>2. p.accept # "none"
      BY <1>0, <1>4 DEF FailedCallback, GoodPeer
    <3>3. Taken(p).accept = p.accept
      BY <1>0 DEF Taken, PeerRecord
    <3>4. QED
      BY <3>1, <3>2, <3>3
  <2>3. GoodPeer(q, n \in Loopback)
    BY <2>2 DEF GoodPeer, PeerRecord
  <2> QED
    BY <2>1, <2>3, OneRecord
<1> QED
  BY <1>1, <1>2, <1>3, <1>4

LEMMA AudioSteps ==
    ASSUME IInv, NEW n \in Nodes, NEW c \in CallIds,
           OnTrack(n, c) \/ RecordingOver(n, c) \/ TrackEnds(n, c)
    PROVE  IInv'
<1> DEFINE p == peer[n][c]
<1>0. GoodPeer(p, n \in Loopback) /\ p \in PeerRecord
  BY GoodOld
<1>1. CASE OnTrack(n, c)
  <2> DEFINE q == [p EXCEPT !.track = FirstTrack(n),
                            !.attached = n \in Loopback /\ p.stored]
  <2>1. peer' = [peer EXCEPT ![n][c] = q]
    BY <1>1 DEF OnTrack, IInv
  <2>2. GoodPeer(q, n \in Loopback)
    BY <1>0, <1>1 DEF OnTrack, FirstTrack, GoodPeer, PeerRecord
  <2> QED
    BY <2>1, <2>2, OneRecord
<1>2. CASE RecordingOver(n, c)
  <2> DEFINE q == [p EXCEPT !.track = "replaying"]
  <2>1. peer' = [peer EXCEPT ![n][c] = q]
    BY <1>2 DEF RecordingOver, IInv
  <2>2. GoodPeer(q, n \in Loopback)
    BY <1>0, <1>2 DEF RecordingOver, GoodPeer, PeerRecord
  <2> QED
    BY <2>1, <2>2, OneRecord
<1>3. CASE TrackEnds(n, c)
  <2> DEFINE q == [p EXCEPT !.track = "over"]
  <2>1. peer' = [peer EXCEPT ![n][c] = q]
    BY <1>3 DEF TrackEnds, IInv
  <2>2. GoodPeer(q, n \in Loopback)
    BY <1>0, <1>3 DEF TrackEnds, GoodPeer, PeerRecord
  <2> QED
    BY <2>1, <2>2, OneRecord
<1> QED
  BY <1>1, <1>2, <1>3

-----------------------------------------------------------------------------

\* The invariant of a node's connections, from which the three below follow.
THEOREM PeerInvariant == Spec => []IInv
<1>1. Init => IInv
  BY DEF Init, IInv, GoodPeer, PeerRecord, NoPeer
<1>2. IInv /\ [Next]_peer => IInv'
  <2> SUFFICES ASSUME IInv, [Next]_peer
               PROVE  IInv'
    OBVIOUS
  <2>1. CASE UNCHANGED peer
    BY <2>1 DEF IInv
  <2>2. CASE Next
    <3>1. PICK n \in Nodes, c \in CallIds : Internal(n, c) \/ External(n, c)
      BY <2>2 DEF Next
    <3> QED
      BY <3>1, AcceptSteps, CloseSteps, AudioSteps DEF Internal, External
  <2> QED
    BY <2>1, <2>2
<1> QED
  BY <1>1, <1>2, PTL DEF Spec

\* Every connection the process holds can be found by a hang-up or is being
\* closed, so ClosePeer leaks none (peer.go, AcceptCall and ClosePeer).
THEOREM NoLeak == Spec => []PcReachable
<1>1. IInv => PcReachable
  BY DEF IInv, GoodPeer, PeerRecord, NoPeer, PcReachable
<1> QED
  BY <1>1, PeerInvariant, PTL

\* Concurrent hang-ups and failure callbacks never close a connection twice.
THEOREM ClosedOnce == Spec => []CloserAlone
<1>1. IInv => CloserAlone
  BY DEF IInv, GoodPeer, PeerRecord, NoPeer, CloserAlone
<1> QED
  BY <1>1, PeerInvariant, PTL

\* A replay loop is never left without anybody who would stop it.
THEOREM ReplayEndable == Spec => []ReplayStoppable
<1>1. IInv => ReplayStoppable
  BY DEF IInv, GoodPeer, ReplayStoppable
<1> QED
  BY <1>1, PeerInvariant, PTL

\* Records are well formed, and the loopback mode decides the audio goroutine.
THEOREM PeerTypeCorrect == Spec => []TypeOK
<1>1. IInv => TypeOK
  BY DEF IInv, GoodPeer, TypeOK
<1> QED
  BY <1>1, PeerInvariant, PTL

-----------------------------------------------------------------------------
(* A connection is passed on, from its accept to the map to who closes it *)

Pairs      == Nodes \X CallIds
acceptBar  == [k \in Pairs |-> AcceptStage(peer[k[1]][k[2]])]
openBar    == [k \in Pairs |-> Open(peer[k[1]][k[2]])]
holdersBar == [k \in Pairs |-> Holders(peer[k[1]][k[2]])]

\* Who holds a good connection is told by where its accept and its entry are.
LEMMA GoodHolders ==
    ASSUME NEW p, NEW lp, GoodPeer(p, lp)
    PROVE  /\ p.accept = "none"      => Holders(p) = {} /\ ~Open(p)
           /\ p.accept = "gathering" => Holders(p) = {"accept"} /\ Open(p)
           /\ p.accept = "failed"    => Holders(p) = {} /\ ~Open(p)
           /\ p.accept = "returned"  =>
                 /\ p.stored  => Holders(p) = {"map"} /\ Open(p)
                 /\ p.closing => Holders(p) = {"closer"} /\ Open(p)
                 /\ ~p.stored /\ ~p.closing => Holders(p) = {} /\ ~Open(p)
<1>1. Holders(p) = (IF p.accept = "gathering" THEN {"accept"} ELSE {})
                      \cup (IF p.stored THEN {"map"} ELSE {})
                      \cup (IF p.closing THEN {"closer"} ELSE {})
  BY DEF Holders
<1>2. p.pc \in {"none", "open", "failed", "closed"}
  BY DEF GoodPeer, PeerRecord
<1> QED
  BY <1>1, <1>2 DEF GoodPeer, Open

\* The ways a record may go: as ConnectionCustody's actions, or out of its sight.
PassedOn(p, q) ==
    LET same == AcceptStage(q) = AcceptStage(p)
    IN  \/ same /\ Open(q) = Open(p) /\ Holders(q) = Holders(p)
        \/ AcceptStage(p) = "none" /\ AcceptStage(q) = "running" /\ Open(q) /\ Holders(q) = {"accept"}
        \/ AcceptStage(p) = "running" /\ AcceptStage(q) = "answered"
              /\ Open(q) = Open(p) /\ Holders(p) = {"accept"} /\ Holders(q) = {"map"}
        \/ AcceptStage(p) = "running" /\ AcceptStage(q) = "failed"
              /\ Open(q) = FALSE /\ Holders(p) = {"accept"} /\ Holders(q) = {}
        \/ same /\ Open(q) = Open(p) /\ Holders(p) = {"map"} /\ Holders(q) = {"closer"}
        \/ same /\ Open(q) = FALSE /\ Holders(p) = {"closer"} /\ Holders(q) = {}

LEMMA PassedOnRefines ==
    ASSUME IInv, NEW n \in Nodes, NEW c \in CallIds, NEW q,
           peer' = [peer EXCEPT ![n][c] = q], PassedOn(peer[n][c], q)
    PROVE  [Custody!Next]_(Custody!vars)
<1>1. PICK k \in Pairs : k = <<n, c>>
  BY DEF Pairs
<1>2. \A j \in Pairs : peer'[j[1]][j[2]] = IF j = k THEN q ELSE peer[j[1]][j[2]]
  <2> SUFFICES ASSUME NEW m \in Nodes, NEW d \in CallIds
               PROVE  peer'[m][d] = IF m = n /\ d = c THEN q ELSE peer[m][d]
    BY <1>1 DEF Pairs
  <2> QED
    BY DEF IInv
<1>3. /\ acceptBar'    = [acceptBar EXCEPT ![k] = AcceptStage(q)]
      /\ openBar'    = [openBar EXCEPT ![k] = Open(q)]
      /\ holdersBar' = [holdersBar EXCEPT ![k] = Holders(q)]
  <2>1. holdersBar' = [holdersBar EXCEPT ![k] = Holders(q)]
    <3>1. \A j \in Pairs : Holders(peer[j[1]][j[2]])'
                              = IF j = k THEN Holders(q) ELSE Holders(peer[j[1]][j[2]])
      BY <1>2 DEF Holders
    <3> QED
      BY <3>1 DEF holdersBar
  <2>2. openBar' = [openBar EXCEPT ![k] = Open(q)]
    <3>1. \A j \in Pairs : Open(peer[j[1]][j[2]])' = IF j = k THEN Open(q) ELSE Open(peer[j[1]][j[2]])
      BY <1>2 DEF Open
    <3> QED
      BY <3>1, Zenon DEF openBar
  <2>3. acceptBar' = [acceptBar EXCEPT ![k] = AcceptStage(q)]
    <3>1. \A j \in Pairs : AcceptStage(peer[j[1]][j[2]])'
                              = IF j = k THEN AcceptStage(q) ELSE AcceptStage(peer[j[1]][j[2]])
      BY <1>2 DEF AcceptStage
    <3> QED
      BY <3>1 DEF acceptBar
  <2> QED
    BY <2>1, <2>2, <2>3
<1>4. /\ acceptBar[k] = AcceptStage(peer[n][c])
      /\ openBar[k] = Open(peer[n][c])
      /\ holdersBar[k] = Holders(peer[n][c])
  BY <1>1 DEF acceptBar, openBar, holdersBar
<1>5. /\ acceptBar = [j \in Pairs |-> acceptBar[j]]
      /\ openBar = [j \in Pairs |-> openBar[j]]
      /\ holdersBar = [j \in Pairs |-> holdersBar[j]]
  BY DEF acceptBar, openBar, holdersBar
<1> DEFINE p == peer[n][c]
<1>6. k \in Nodes \X CallIds /\ {k} \in SUBSET (Nodes \X CallIds)
  BY DEF Pairs
<1>7. CASE AcceptStage(q) = AcceptStage(p) /\ Open(q) = Open(p) /\ Holders(q) = Holders(p)
  <2>1. UNCHANGED <<acceptBar, openBar, holdersBar>>
    BY <1>3, <1>4, <1>5, <1>7
  <2> QED
    BY <2>1 DEF Custody!vars, acceptBar, openBar, holdersBar, Pairs
<1>8. CASE AcceptStage(p) = "none" /\ AcceptStage(q) = "running" /\ Open(q) /\ Holders(q) = {"accept"}
  <2>1. Custody!Make(k)
    BY <1>3, <1>4, <1>8 DEF Custody!Make, acceptBar, openBar, holdersBar, Pairs
  <2> QED
    BY <1>6, <2>1 DEF Custody!Next
<1> DEFINE same == AcceptStage(q) = AcceptStage(p)
<1>9. CASE AcceptStage(p) = "running" /\ AcceptStage(q) = "answered"
           /\ Open(q) = Open(p) /\ Holders(p) = {"accept"} /\ Holders(q) = {"map"}
  <2>1. UNCHANGED openBar /\ acceptBar' = [acceptBar EXCEPT ![k] = "answered"]
    BY <1>3, <1>4, <1>5, <1>9
  <2>2. Custody!Store(k)
    BY <1>3, <1>4, <1>9, <2>1 DEF Custody!Store, acceptBar, openBar, holdersBar, Pairs
  <2> QED
    BY <1>6, <2>2 DEF Custody!Next
<1>10. CASE AcceptStage(p) = "running" /\ AcceptStage(q) = "failed"
            /\ Open(q) = FALSE /\ Holders(p) = {"accept"} /\ Holders(q) = {}
  <2>1. /\ acceptBar' = [acceptBar EXCEPT ![k] = "failed"]
        /\ openBar' = [openBar EXCEPT ![k] = FALSE]
    BY <1>3, <1>4, <1>5, <1>10
  <2>2. Custody!GiveUp(k)
    BY <1>3, <1>4, <1>10, <2>1 DEF Custody!GiveUp, acceptBar, openBar, holdersBar, Pairs
  <2> QED
    BY <1>6, <2>2 DEF Custody!Next
<1>11. CASE same /\ Open(q) = Open(p) /\ Holders(p) = {"map"} /\ Holders(q) = {"closer"}
  <2>1. UNCHANGED <<acceptBar, openBar>>
    BY <1>3, <1>4, <1>5, <1>11
  <2>2. holdersBar' = [j \in Pairs |-> IF j \in {k} THEN {"closer"} ELSE holdersBar[j]]
    BY <1>3, <1>5, <1>11
  <2>3. Custody!Take({k})
    BY <1>4, <1>11, <2>1, <2>2 DEF Custody!Take, acceptBar, openBar, holdersBar, Pairs
  <2> QED
    BY <1>6, <2>3 DEF Custody!Next
<1>12. CASE same /\ Open(q) = FALSE /\ Holders(p) = {"closer"} /\ Holders(q) = {}
  <2>1. UNCHANGED acceptBar /\ openBar' = [openBar EXCEPT ![k] = FALSE]
    BY <1>3, <1>4, <1>5, <1>12
  <2>2. Custody!Close(k)
    BY <1>3, <1>4, <1>12, <2>1 DEF Custody!Close, acceptBar, openBar, holdersBar, Pairs
  <2> QED
    BY <1>6, <2>2 DEF Custody!Next
<1> QED
  BY <1>7, <1>8, <1>9, <1>10, <1>11, <1>12 DEF PassedOn, AcceptStage

\* A record out of which only the audio has changed.
LEMMA AudioUnseen ==
    ASSUME NEW p, NEW q, q.accept = p.accept, q.pc = p.pc, q.stored = p.stored,
           q.closing = p.closing
    PROVE  PassedOn(p, q)
  BY DEF PassedOn, AcceptStage, Open, Holders

\* Where the accept and the entry go from one good record to the next.
LEMMA GoodPassesOn ==
    ASSUME NEW p, NEW q, NEW lp, GoodPeer(p, lp), GoodPeer(q, lp),
           \/ p.accept = "none" /\ q.accept = "gathering"
           \/ p.accept = "gathering" /\ q.accept = "failed"
           \/ p.accept = "gathering" /\ q.accept = "returned" /\ q.stored
           \/ p.accept = "returned" /\ q.accept = "returned" /\ p.stored /\ q.closing
           \/ p.accept = "returned" /\ q.accept = "returned" /\ p.closing
                 /\ ~q.stored /\ ~q.closing
    PROVE  PassedOn(p, q)
<1>1. CASE p.accept = "none" /\ q.accept = "gathering"
  BY <1>1, GoodHolders DEF PassedOn, AcceptStage
<1>2. CASE p.accept = "gathering" /\ q.accept = "failed"
  <2>1. Holders(p) = {"accept"} /\ Holders(q) = {} /\ Open(q) = FALSE
    BY <1>2, GoodHolders
  <2> QED
    BY <1>2, <2>1 DEF PassedOn, AcceptStage
<1>3. CASE p.accept = "gathering" /\ q.accept = "returned" /\ q.stored
  <2>1. Holders(p) = {"accept"} /\ Holders(q) = {"map"} /\ Open(q) = Open(p)
    BY <1>3, GoodHolders DEF Open
  <2> QED
    BY <1>3, <2>1 DEF PassedOn, AcceptStage
<1>4. CASE p.accept = "returned" /\ q.accept = "returned" /\ p.stored /\ q.closing
  <2>1. Holders(p) = {"map"} /\ Holders(q) = {"closer"} /\ Open(q) = Open(p)
    BY <1>4, GoodHolders DEF Open
  <2> QED
    BY <1>4, <2>1 DEF PassedOn, AcceptStage
<1>5. CASE p.accept = "returned" /\ q.accept = "returned" /\ p.closing /\ ~q.stored /\ ~q.closing
  <2>1. Holders(p) = {"closer"} /\ Holders(q) = {} /\ Open(q) = FALSE
    BY <1>5, GoodHolders
  <2> QED
    BY <1>5, <2>1 DEF PassedOn, AcceptStage
<1> QED
  BY <1>1, <1>2, <1>3, <1>4, <1>5

\* The critical section of ClosePeer takes the entry, if there is one.
LEMMA TakenPassesOn ==
    ASSUME NEW p, NEW lp, GoodPeer(p, lp)
    PROVE  PassedOn(p, Taken(p))
<1>1. p \in PeerRecord /\ p.stored \in BOOLEAN /\ p.closing \in BOOLEAN
  BY DEF GoodPeer, PeerRecord
<1>2. CASE p.stored
  <2>1. p.accept = "returned" /\ Taken(p).accept = "returned" /\ Taken(p).closing
    BY <1>1, <1>2 DEF GoodPeer, Taken, PeerRecord
  <2> QED
    BY <1>2, <2>1, GoodTaken, GoodPassesOn
<1>3. CASE ~p.stored
  <2>1. /\ Taken(p).accept = p.accept /\ Taken(p).pc = p.pc
        /\ Taken(p).stored = p.stored /\ Taken(p).closing = p.closing
    BY <1>1, <1>3 DEF Taken, PeerRecord
  <2> QED
    BY <2>1, AudioUnseen
<1> QED
  BY <1>2, <1>3

\* What a step writes, and that it is good again: PeerManager's actions one by one.
LEMMA AcceptPassesOn ==
    ASSUME IInv, NEW n \in Nodes, NEW c \in CallIds,
           AcceptCall(n, c) \/ AcceptError(n, c) \/ AcceptReturn(n, c)
    PROVE  \E q : peer' = [peer EXCEPT ![n][c] = q] /\ PassedOn(peer[n][c], q)
<1>0. PICK p : p = peer[n][c]
  OBVIOUS
<1>1. GoodPeer(p, n \in Loopback) /\ p \in PeerRecord
  BY <1>0, GoodOld
<1>2. CASE AcceptCall(n, c)
  <2> DEFINE q == [p EXCEPT !.accept = "gathering", !.pc = "open"]
  <2>1. peer' = [peer EXCEPT ![n][c] = q] /\ p.accept = "none"
    BY <1>0, <1>2 DEF AcceptCall, IInv
  <2>2. GoodPeer(q, n \in Loopback) /\ q.accept = "gathering"
    BY <1>1, <2>1 DEF GoodPeer, PeerRecord
  <2>3. PassedOn(p, q)
    BY <1>1, <2>1, <2>2, GoodPassesOn
  <2> QED
    BY <1>0, <2>1, <2>3
<1>3. CASE AcceptError(n, c)
  <2> DEFINE q == [p EXCEPT !.accept = "failed", !.pc = "closed", !.notice = FALSE]
  <2>1. peer' = [peer EXCEPT ![n][c] = q] /\ p.accept = "gathering"
    BY <1>0, <1>3 DEF AcceptError, IInv
  <2>2. GoodPeer(q, n \in Loopback) /\ q.accept = "failed"
    BY <1>1, <2>1 DEF GoodPeer, PeerRecord
  <2>3. PassedOn(p, q)
    BY <1>1, <2>1, <2>2, GoodPassesOn
  <2> QED
    BY <1>0, <2>1, <2>3
<1>4. CASE AcceptReturn(n, c)
  <2> DEFINE q == [p EXCEPT !.accept = "returned", !.stored = TRUE]
  <2>1. peer' = [peer EXCEPT ![n][c] = q] /\ p.accept = "gathering"
    BY <1>0, <1>4 DEF AcceptReturn, IInv
  <2>2. GoodPeer(q, n \in Loopback) /\ q.accept = "returned" /\ q.stored
    BY <1>1, <2>1 DEF GoodPeer, PeerRecord
  <2>3. PassedOn(p, q)
    BY <1>1, <2>1, <2>2, GoodPassesOn
  <2> QED
    BY <1>0, <2>1, <2>3
<1> QED
  BY <1>2, <1>3, <1>4

LEMMA ClosePassesOn ==
    ASSUME IInv, NEW n \in Nodes, NEW c \in CallIds,
           \/ ClosePeer(n, c) \/ ClosePeerEnd(n, c)
           \/ PcFails(n, c) \/ FailedCallback(n, c)
    PROVE  \E q : peer' = [peer EXCEPT ![n][c] = q] /\ PassedOn(peer[n][c], q)
<1>0. PICK p : p = peer[n][c]
  OBVIOUS
<1>1. GoodPeer(p, n \in Loopback) /\ p \in PeerRecord
  BY <1>0, GoodOld
<1>2. CASE ClosePeer(n, c)
  <2>1. peer' = [peer EXCEPT ![n][c] = Taken(p)]
    BY <1>0, <1>2 DEF ClosePeer, IInv
  <2> QED
    BY <1>0, <1>1, <2>1, TakenPassesOn
<1>3. CASE ClosePeerEnd(n, c)
  <2>1. peer' = [peer EXCEPT ![n][c] = Closed(p)] /\ p.closing
    BY <1>0, <1>3 DEF ClosePeerEnd, IInv
  <2>2. p.accept = "returned" /\ ~p.stored
    BY <1>1, <2>1 DEF GoodPeer, PeerRecord
  <2>3. /\ GoodPeer(Closed(p), n \in Loopback) /\ Closed(p).accept = "returned"
        /\ ~Closed(p).stored /\ ~Closed(p).closing
    BY <1>1, <2>1, <2>2 DEF Closed, GoodPeer, PeerRecord
  <2>4. PassedOn(p, Closed(p))
    BY <1>1, <2>1, <2>2, <2>3, GoodPassesOn
  <2> QED
    BY <1>0, <2>1, <2>4
<1>4. CASE PcFails(n, c)
  <2> DEFINE q == [p EXCEPT !.pc = "failed", !.notice = TRUE]
  <2>1. peer' = [peer EXCEPT ![n][c] = q] /\ p.pc = "open"
    BY <1>0, <1>4 DEF PcFails, IInv
  <2>2. /\ q.accept = p.accept /\ q.stored = p.stored /\ q.closing = p.closing
        /\ q.pc = "failed"
    BY <1>1 DEF PeerRecord
  <2> HIDE DEF q
  <2>3. Holders(q) = Holders(p)
    BY <2>2 DEF Holders
  <2>4. Open(q) = Open(p)
    BY <2>1, <2>2 DEF Open
  <2>5. PassedOn(p, q)
    BY <2>2, <2>3, <2>4 DEF PassedOn, AcceptStage
  <2> QED
    BY <1>0, <2>1, <2>5
<1>5. CASE FailedCallback(n, c)
  <2> DEFINE q == [Taken(p) EXCEPT !.notice = FALSE]
  <2>1. peer' = [peer EXCEPT ![n][c] = q]
    BY <1>0, <1>5 DEF FailedCallback, IInv
  <2>2. Taken(p) \in PeerRecord
    BY <1>1 DEF Taken, PeerRecord
  <2>3. /\ q.accept = Taken(p).accept /\ q.pc = Taken(p).pc
        /\ q.stored = Taken(p).stored /\ q.closing = Taken(p).closing
    BY <2>2 DEF PeerRecord
  <2> HIDE DEF q
  <2>4. /\ AcceptStage(q) = AcceptStage(Taken(p))
        /\ Open(q) = Open(Taken(p)) /\ Holders(q) = Holders(Taken(p))
    <3>1. AcceptStage(q) = AcceptStage(Taken(p)) /\ Open(q) = Open(Taken(p))
      BY <2>3 DEF AcceptStage, Open
    <3>2. Holders(q) = Holders(Taken(p))
      BY <2>3 DEF Holders
    <3> QED
      BY <3>1, <3>2
  <2>5. PassedOn(p, Taken(p))
    BY <1>1, TakenPassesOn
  <2>6. PassedOn(p, q)
    BY <2>4, <2>5 DEF PassedOn
  <2> QED
    BY <1>0, <2>1, <2>6
<1> QED
  BY <1>2, <1>3, <1>4, <1>5

LEMMA AudioPassesOn ==
    ASSUME IInv, NEW n \in Nodes, NEW c \in CallIds,
           OnTrack(n, c) \/ RecordingOver(n, c) \/ TrackEnds(n, c)
    PROVE  \E q : peer' = [peer EXCEPT ![n][c] = q] /\ PassedOn(peer[n][c], q)
<1>1. peer[n][c] \in PeerRecord
  BY DEF IInv
<1>2. PICK track, attached :
         peer' = [peer EXCEPT ![n][c] = [peer[n][c] EXCEPT !.track = track, !.attached = attached]]
  <2>1. \A track : [peer[n][c] EXCEPT !.track = track]
                      = [peer[n][c] EXCEPT !.track = track, !.attached = peer[n][c].attached]
    BY <1>1 DEF PeerRecord
  <2>2. ASSUME OnTrack(n, c)
        PROVE  \E attached : peer' = [peer EXCEPT ![n][c] =
                  [peer[n][c] EXCEPT !.track = FirstTrack(n), !.attached = attached]]
    <3>1. PICK attached : attached = (n \in Loopback /\ peer[n][c].stored)
      OBVIOUS
    <3>2. peer' = [peer EXCEPT ![n][c].track = FirstTrack(n), ![n][c].attached = attached]
      BY <2>2, <3>1 DEF OnTrack
    <3>3. peer' = [peer EXCEPT ![n][c] =
                      [peer[n][c] EXCEPT !.track = FirstTrack(n), !.attached = attached]]
      BY <3>2 DEF IInv
    <3> QED
      BY <3>3
  <2>3. ASSUME NEW track, peer' = [peer EXCEPT ![n][c].track = track]
        PROVE  peer' = [peer EXCEPT ![n][c] =
                  [peer[n][c] EXCEPT !.track = track, !.attached = peer[n][c].attached]]
    <3>1. peer' = [peer EXCEPT ![n][c] = [peer[n][c] EXCEPT !.track = track]]
      BY <2>3 DEF IInv
    <3>2. [peer[n][c] EXCEPT !.track = track]
            = [peer[n][c] EXCEPT !.track = track, !.attached = peer[n][c].attached]
      BY <2>1
    <3> QED
      BY <3>1, <3>2
  <2>4. CASE RecordingOver(n, c)
    BY <2>3, <2>4 DEF RecordingOver
  <2>5. CASE TrackEnds(n, c)
    BY <2>3, <2>5 DEF TrackEnds
  <2> QED
    BY <2>2, <2>4, <2>5
<1> DEFINE q == [peer[n][c] EXCEPT !.track = track, !.attached = attached]
<1>3. /\ q.accept = peer[n][c].accept /\ q.pc = peer[n][c].pc
      /\ q.stored = peer[n][c].stored /\ q.closing = peer[n][c].closing
  BY <1>1 DEF PeerRecord
<1> HIDE DEF q
<1>4. PassedOn(peer[n][c], q)
  BY <1>3, AudioUnseen
<1> QED
  BY <1>2, <1>4 DEF q

\* A connection of the Go node is always in exactly one hand until it is closed
\* (peer.go, AcceptCall, ClosePeer and the state callback).
THEOREM CustodyImplemented == Spec => ImplementsCustody
<1>1. Init => Custody!Init
  <2> SUFFICES ASSUME Init
               PROVE  Custody!Init
    OBVIOUS
  <2>1. \A k \in Nodes \X CallIds : peer[k[1]][k[2]] = NoPeer
    BY DEF Init
  <2>2. NoPeer.accept = "none" /\ NoPeer.pc = "none" /\ ~NoPeer.stored /\ ~NoPeer.closing
    BY DEF NoPeer
  <2>3. \A k \in Nodes \X CallIds : Holders(peer[k[1]][k[2]]) = {}
    BY <2>1, <2>2 DEF Holders
  <2>4. \A k \in Nodes \X CallIds : Open(peer[k[1]][k[2]]) = FALSE
    BY <2>1, <2>2 DEF Open
  <2>5. \A k \in Nodes \X CallIds : AcceptStage(peer[k[1]][k[2]]) = "none"
    BY <2>1, <2>2 DEF AcceptStage
  <2> QED
    BY <2>3, <2>4, <2>5, Zenon DEF Custody!Init
<1>2. IInv /\ [Next]_peer => [Custody!Next]_(Custody!vars)
  <2> SUFFICES ASSUME IInv, [Next]_peer
               PROVE  [Custody!Next]_(Custody!vars)
    OBVIOUS
  <2>1. CASE UNCHANGED peer
    BY <2>1 DEF Custody!vars, Open, Holders, AcceptStage
  <2>2. CASE Next
    <3>1. PICK n \in Nodes, c \in CallIds : Internal(n, c) \/ External(n, c)
      BY <2>2 DEF Next
    <3>2. \E q : peer' = [peer EXCEPT ![n][c] = q] /\ PassedOn(peer[n][c], q)
      BY <3>1, AcceptPassesOn, ClosePassesOn, AudioPassesOn DEF Internal, External
    <3> QED
      BY <3>2, PassedOnRefines
  <2> QED
    BY <2>1, <2>2
<1> QED
  BY <1>1, <1>2, PeerInvariant, PTL DEF Spec, ImplementsCustody, Custody!Spec
=============================================================================
