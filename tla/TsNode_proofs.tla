---------------------------- MODULE TsNode_proofs ----------------------------
(***************************************************************************)
(* The TypeScript node, for any set of calls and commands, any number of   *)
(* lost connections and with or without the loopback.                      *)
(***************************************************************************)
EXTENDS TsNode, TLAPS

-----------------------------------------------------------------------------
(* One connection *)

Over == {"closing", "closed"}

\* What the two properties of the peer manager say of one record.
PeerGood(p) ==
    /\ p \in PM!PeerRecord
    /\ (p.accept = "answered" /\ p.pc \notin Over) => p.stored
    /\ p.timer => p.loop

\* An answered call stays answered, and its connection over once it is over.
Onward(p, q) ==
    p.accept = "answered" => /\ q.accept = "answered"
                             /\ p.pc \in Over => q.pc \in Over

Peers == peer \in [CallIds -> PM!PeerRecord] /\ \A c \in CallIds : PeerGood(peer[c])

PeersOnward == Peers' /\ \A c \in CallIds : Onward(peer[c], peer'[c])

\* closePeer, from any state a record may be in: an answered call has its
\* connection closed.
LEMMA CloseEntryGood ==
    ASSUME NEW p \in PM!PeerRecord,
           p.accept = "answered" /\ p.pc \notin Over => p.stored,
           p.timer => p.loop
    PROVE  /\ PeerGood(PM!CloseEntry(p))
           /\ Onward(p, PM!CloseEntry(p))
           /\ PM!CloseEntry(p).accept = p.accept
           /\ p.accept = "answered" => PM!CloseEntry(p).pc \in Over
  BY DEF PM!CloseEntry, PM!PeerRecord, PeerGood, Onward, Over

\* A step on one record, from one good record to another.
LEMMA OnePeer ==
    ASSUME Peers, NEW c \in CallIds, NEW q, PeerGood(q), Onward(peer[c], q),
           peer' = [peer EXCEPT ![c] = q]
    PROVE  PeersOnward
  BY DEF Peers, PeersOnward, PeerGood, Onward, PM!PeerRecord

LEMMA ClosePeerStep ==
    ASSUME Peers, NEW c \in CallIds, PM!closePeer(c)
    PROVE  PeersOnward /\ (peer[c].accept = "answered" => peer'[c].pc \in Over)
  <1>1. peer' = [peer EXCEPT ![c] = PM!CloseEntry(peer[c])]
        BY DEF PM!closePeer, Peers
  <1>2. /\ PeerGood(PM!CloseEntry(peer[c])) /\ Onward(peer[c], PM!CloseEntry(peer[c]))
        /\ peer[c].accept = "answered" => PM!CloseEntry(peer[c]).pc \in Over
        BY CloseEntryGood DEF Peers, PeerGood
  <1>3. PeersOnward
        BY <1>1, <1>2, OnePeer
  <1>4. peer'[c] = PM!CloseEntry(peer[c])
        BY <1>1 DEF Peers
  <1>5. QED BY <1>2, <1>3, <1>4

LEMMA CloseAllStep ==
    ASSUME Peers, PM!closeAll PROVE PeersOnward
  <1>1. \A c \in CallIds :
           /\ PeerGood(PM!CloseEntry(peer[c])) /\ Onward(peer[c], PM!CloseEntry(peer[c]))
           /\ Onward(peer[c], peer[c])
        BY CloseEntryGood DEF Peers, PeerGood, Onward
  <1>2. peer' = [c \in CallIds |-> IF peer[c].stored THEN PM!CloseEntry(peer[c]) ELSE peer[c]]
        BY DEF PM!closeAll
  <1>3. \A c \in CallIds : PeerGood(peer'[c]) /\ Onward(peer[c], peer'[c])
        BY <1>1, <1>2 DEF Peers
  <1>4. peer' \in [CallIds -> PM!PeerRecord]
        BY <1>2, <1>3 DEF PeerGood
  <1>5. QED BY <1>3, <1>4 DEF PeersOnward, Peers

\* acceptCall.
LEMMA AcceptStep ==
    ASSUME Peers, NEW c \in CallIds,
           PM!AcceptCall(c) \/ PM!AcceptReturns(c) \/ PM!AcceptThrows(c)
    PROVE  /\ PeersOnward
           /\ PM!AcceptReturns(c) => peer'[c].accept = "answered"
  <1> DEFINE p == peer[c]
  <1>1. p \in PM!PeerRecord /\ (p.timer => p.loop)
        BY DEF Peers, PeerGood
  <1>2. CASE PM!AcceptCall(c)
    <2> DEFINE q == [p EXCEPT !.accept = "negotiating", !.pc = "up"]
    <2>1. peer' = [peer EXCEPT ![c] = q] /\ p.accept = "none"
          BY <1>2 DEF PM!AcceptCall, Peers
    <2>2. PeerGood(q) /\ Onward(p, q)
          BY <1>1, <2>1 DEF PM!PeerRecord, PeerGood, Onward
    <2>3. PeersOnward
          BY <2>1, <2>2, OnePeer
    <2>4. ~PM!AcceptReturns(c)
          BY <2>1 DEF PM!AcceptReturns
    <2>5. QED BY <2>3, <2>4
  <1>3. CASE PM!AcceptReturns(c)
    <2> DEFINE q == [p EXCEPT !.accept = "answered", !.stored = TRUE]
    <2>1. peer' = [peer EXCEPT ![c] = q] /\ p.accept = "negotiating"
          BY <1>3 DEF PM!AcceptReturns, Peers
    <2>2. PeerGood(q) /\ Onward(p, q) /\ q.accept = "answered"
          BY <1>1, <2>1 DEF PM!PeerRecord, PeerGood, Onward
    <2>3. PeersOnward /\ peer'[c] = q
          BY <2>1, <2>2, OnePeer DEF Peers
    <2>4. QED BY <2>2, <2>3
  <1>4. CASE PM!AcceptThrows(c)
    <2> DEFINE q == [p EXCEPT !.accept = "failed"]
    <2>1. peer' = [peer EXCEPT ![c] = q] /\ p.accept = "negotiating"
          BY <1>4 DEF PM!AcceptThrows, Peers
    <2>2. PeerGood(q) /\ Onward(p, q)
          BY <1>1, <2>1 DEF PM!PeerRecord, PeerGood, Onward
    <2>3. PeersOnward
          BY <2>1, <2>2, OnePeer
    <2>4. peer'[c] = q /\ q.accept = "failed"
          BY <1>1, <2>1 DEF Peers, PM!PeerRecord
    <2>5. PM!AcceptReturns(c) => peer'[c].accept = "answered"
          BY <1>1 DEF PM!AcceptReturns, PM!PeerRecord, Peers
    <2>6. QED BY <2>3, <2>5
  <1>5. QED BY <1>2, <1>3, <1>4

\* What connections and timers do on their own.
LEMMA InternalStep ==
    ASSUME Peers, NEW c \in CallIds, PM!Internal(c) PROVE PeersOnward
  <1> DEFINE p == peer[c]
  <1>1. /\ p \in PM!PeerRecord /\ (p.timer => p.loop)
        /\ (p.accept = "answered" /\ p.pc \notin Over) => p.stored
        BY DEF Peers, PeerGood
  <1>2. ASSUME NEW q, PeerGood(q), Onward(p, q), peer' = [peer EXCEPT ![c] = q]
        PROVE  PeersOnward
        BY <1>2, OnePeer
  <1>3. CASE PM!PcCloses(c)
    <2> DEFINE q == [p EXCEPT !.pc = "closed"]
    <2>1. p.pc = "closing" /\ (\/ peer' = [peer EXCEPT ![c] = PM!CloseEntry(q)]
                               \/ peer' = [peer EXCEPT ![c] = q])
          BY <1>3 DEF PM!PcCloses, Peers
    <2>2. PeerGood(q) /\ Onward(p, q) /\ q.pc = "closed" /\ q.accept = p.accept
          BY <1>1, <2>1 DEF PM!PeerRecord, PeerGood, Onward, Over
    <2> HIDE DEF q
    <2>3. PeerGood(PM!CloseEntry(q)) /\ Onward(q, PM!CloseEntry(q))
          BY <2>2, CloseEntryGood DEF PeerGood
    <2>4. Onward(p, PM!CloseEntry(q))
          BY <2>2, <2>3 DEF Onward
    <2>5. QED BY <1>2, <2>1, <2>2, <2>3, <2>4
  <1>4. ASSUME NEW state \in {"disconnected", "failed"}, PM!PcDrops(c, state)
        PROVE  PeersOnward
    <2> DEFINE q == [p EXCEPT !.pc = state]
    <2>1. p.pc \notin Over /\ peer' = [peer EXCEPT ![c] = PM!CloseEntry(q)]
          BY <1>4 DEF PM!PcDrops, Peers, Over
    <2>2. /\ q \in PM!PeerRecord /\ (q.timer => q.loop)
          /\ q.accept = p.accept
          /\ (q.accept = "answered" /\ q.pc \notin Over) => q.stored
          BY <1>1, <2>1 DEF PM!PeerRecord, Over
    <2> HIDE DEF q
    <2>3. PeerGood(PM!CloseEntry(q)) /\ PM!CloseEntry(q).accept = q.accept
          BY <2>2, CloseEntryGood
    <2>4. Onward(p, PM!CloseEntry(q))
          BY <2>1, <2>2, <2>3 DEF Onward
    <2>5. QED BY <1>2, <2>1, <2>3, <2>4
  <1>5. CASE PM!PcRecovers(c)
    <2> DEFINE q == [p EXCEPT !.pc = "up"]
    <2>1. p.pc = "disconnected" /\ peer' = [peer EXCEPT ![c] = q]
          BY <1>5 DEF PM!PcRecovers, Peers
    <2>2. PeerGood(q) /\ Onward(p, q)
          BY <1>1, <2>1 DEF PM!PeerRecord, PeerGood, Onward, Over
    <2>3. QED BY <1>2, <2>1, <2>2
  <1>6. CASE PM!OnTrack(c)
    <2> DEFINE q == [p EXCEPT !.audio = IF Loopback THEN "importing" ELSE "echo"]
    <2>1. peer' = [peer EXCEPT ![c] = q]
          BY <1>6 DEF PM!OnTrack, Peers
    <2>2. PeerGood(q) /\ Onward(p, q)
          BY <1>1 DEF PM!PeerRecord, PeerGood, Onward
    <2>3. QED BY <1>2, <2>1, <2>2
  <1>7. CASE PM!LoopbackReady(c)
    <2> DEFINE q == [p EXCEPT !.audio = "recording", !.loop = TRUE, !.timer = TRUE]
    <2>1. peer' = [peer EXCEPT ![c] = q]
          BY <1>7 DEF PM!LoopbackReady, Peers
    <2>2. PeerGood(q) /\ Onward(p, q)
          BY <1>1 DEF PM!PeerRecord, PeerGood, Onward
    <2>3. QED BY <1>2, <2>1, <2>2
  <1>8. CASE PM!RecordingOver(c)
    <2>1. PICK audio \in {"over", "switching"} :
             peer' = [peer EXCEPT ![c] = [p EXCEPT !.audio = audio, !.timer = FALSE]]
          BY <1>8 DEF PM!RecordingOver, Peers
    <2> DEFINE q == [p EXCEPT !.audio = audio, !.timer = FALSE]
    <2>2. PeerGood(q) /\ Onward(p, q)
          BY <1>1 DEF PM!PeerRecord, PeerGood, Onward
    <2>3. QED BY <1>2, <2>1, <2>2
  <1>9. CASE PM!PlaybackReady(c)
    <2> DEFINE q == [p EXCEPT !.audio = "playing", !.timer = TRUE]
               s == [p EXCEPT !.audio = "over"]
    <2>1. \/ p.loop /\ peer' = [peer EXCEPT ![c] = q]
          \/ peer' = [peer EXCEPT ![c] = s]
          BY <1>9 DEF PM!PlaybackReady, Peers
    <2>2. (p.loop => PeerGood(q)) /\ Onward(p, q)
          BY <1>1 DEF PM!PeerRecord, PeerGood, Onward
    <2>3. PeerGood(s) /\ Onward(p, s)
          BY <1>1 DEF PM!PeerRecord, PeerGood, Onward
    <2>4. QED BY <1>2, <2>1, <2>2, <2>3
  <1>10. CASE PM!PlayEnds(c)
    <2> DEFINE q == [p EXCEPT !.audio = "over", !.timer = FALSE]
    <2>1. peer' = [peer EXCEPT ![c] = q]
          BY <1>10 DEF PM!PlayEnds, Peers
    <2>2. PeerGood(q) /\ Onward(p, q)
          BY <1>1 DEF PM!PeerRecord, PeerGood, Onward
    <2>3. QED BY <1>2, <2>1, <2>2
  <1>11. QED BY <1>3, <1>4, <1>5, <1>6, <1>7, <1>8, <1>9, <1>10 DEF PM!Internal

-----------------------------------------------------------------------------
(* One command *)

Said(r) == {r.stage, r.wire, r.taken}

\* A result is under way only while its reply is awaited, and once the gateway took
\* a positive one there is nothing left but the reply to it.
CommandGood(r) ==
    /\ r \in ClientRecord
    /\ r.stage = "none" <=> r.taken = "none"
    /\ r.wire # "none" => r.stage \in {"positive", "negative"}
    /\ r.wire \in {"positive", "negative"} => r.stage = r.wire
    /\ r.taken = "positive" => r.stage \in {"positive", "over"} /\ r.wire \in {"yes", "none"}

\* Nothing positive comes of a command but from its handler.
CommandOnward(r, q) ==
    /\ CommandGood(q)
    /\ q.stage = "none" <=> r.stage = "none"
    /\ "positive" \in Said(q) => "positive" \in Said(r)

LEMMA RecordSteps ==
    ASSUME NEW r, CommandGood(r)
    PROVE  /\ CommandOnward(r, r)
           /\ CommandOnward(r, Dropped(r)) /\ Dropped(r).wire = "none"
           /\ CommandOnward(r, Flushed(r)) /\ Flushed(r).wire \in {r.wire, "none"}
           /\ r.wire # "none" => CommandOnward(r, Replied(r))
           /\ r.taken = "waiting" => CommandOnward(r, [r EXCEPT !.taken = "gaveup"])
  <1> USE DEF CommandGood, CommandOnward, Said, ClientRecord
  <1>1. CommandOnward(r, r)
        OBVIOUS
  <1>2. CommandOnward(r, Dropped(r)) /\ Dropped(r).wire = "none"
        BY DEF Dropped
  <1>3. CommandOnward(r, Flushed(r)) /\ Flushed(r).wire \in {r.wire, "none"}
        BY DEF Flushed
  <1>4. r.wire # "none" => CommandOnward(r, Replied(r))
        BY DEF Replied
  <1>5. r.taken = "waiting" => CommandOnward(r, [r EXCEPT !.taken = "gaveup"])
        OBVIOUS
  <1>6. QED BY <1>1, <1>2, <1>3, <1>4, <1>5

LEMMA TakeSteps ==
    ASSUME NEW r, CommandGood(r), r.wire \in {"positive", "negative"}
    PROVE  /\ r.taken = "waiting" => CommandOnward(r, [r EXCEPT !.taken = r.wire, !.wire = "yes"])
           /\ CommandOnward(r, [r EXCEPT !.wire = "yes"])
           /\ CommandOnward(r, [r EXCEPT !.wire = "no"])
  <1> USE DEF CommandGood, CommandOnward, Said, ClientRecord
  <1>1. r.taken = "waiting" => CommandOnward(r, [r EXCEPT !.taken = r.wire, !.wire = "yes"])
        OBVIOUS
  <1>2. CommandOnward(r, [r EXCEPT !.wire = "yes"])
        OBVIOUS
  <1>3. CommandOnward(r, [r EXCEPT !.wire = "no"])
        OBVIOUS
  <1>4. QED BY <1>1, <1>2, <1>3

\* A handler starts, and its result goes out.
LEMMA HandlerSteps ==
    ASSUME NEW r, CommandGood(r), NEW result \in {"positive", "negative"}
    PROVE  /\ r.stage = "none" =>
                 /\ CommandGood(Taken(r)) /\ Taken(r).stage = "running"
                 /\ "positive" \notin Said(Taken(r)) /\ Taken(r).wire = "none"
           /\ r.stage = "running" =>
                 /\ CommandGood(Sent(r, result)) /\ Sent(r, result).stage # "none"
                 /\ "positive" \in Said(Sent(r, result)) => result = "positive"
                 /\ Sent(r, result).wire # "none" => socket = "open"
  <1> USE DEF CommandGood, Said, ClientRecord
  <1>1. r.stage = "none" =>
           /\ CommandGood(Taken(r)) /\ Taken(r).stage = "running"
           /\ "positive" \notin Said(Taken(r)) /\ Taken(r).wire = "none"
        BY DEF Taken
  <1>2. r.stage = "running" =>
           /\ CommandGood(Sent(r, result)) /\ Sent(r, result).stage # "none"
           /\ "positive" \in Said(Sent(r, result)) => result = "positive"
           /\ Sent(r, result).wire # "none" => socket = "open"
        BY DEF Sent
  <1>3. QED BY <1>1, <1>2

-----------------------------------------------------------------------------
(* The inductive invariant *)

SocketGood ==
    IF life = "exited" THEN socket = "none" /\ ~reconnect /\ ~registered
    ELSE /\ socket \in {"none", "connecting", "open", "closing"}
         /\ connectSent \in BOOLEAN
         /\ reconnect \in BOOLEAN
         /\ reconnect <=> socket = "none"
         /\ first \in {"none", "connect", "result"}
         /\ registered \in BOOLEAN
         /\ registered => socket = "open" /\ connectSent

LossesGood == losses \in 0..MaxLosses

CommandsGood ==
    /\ command \in [Commands -> ClientRecord]
    /\ \A i \in Commands : CommandGood(command[i]) /\ (command[i].wire # "none" => socket = "open")

RequestsGood ==
    /\ request \in [Commands -> RequestRecord]
    /\ \A i \in Commands :
          /\ command[i].stage = "none" <=> request[i].kind = "none"
          /\ \A c, d \in request[i].calls : c = d

LifeGood == life \in {"up", "stopping", "exited"} /\ awaited \subseteq CallIds

\* What a positive result says of the call: it was answered; or, if it was answered
\* before the hang-up came, its connection is over.
ResultsTrue ==
    \A i \in Commands, c \in CallIds :
        /\ (Asks(i, "accept", c) /\ "positive" \in Said(command[i])) => peer[c].accept = "answered"
        /\ (Asks(i, "hangup", c) /\ request[i].answered) =>
              /\ peer[c].accept = "answered"
              /\ "positive" \in Said(command[i]) => peer[c].pc \in Over

IInv == SocketGood /\ LossesGood /\ CommandsGood /\ RequestsGood /\ LifeGood /\ Peers /\ ResultsTrue

LEMMA InitIInv == NodeInit => IInv
  <1> SUFFICES ASSUME NodeInit PROVE IInv
      OBVIOUS
  <1> USE DEF NodeInit, ClientInit, PM!Init
  <1>0. LossesGood    BY TsClientAssumption DEF LossesGood
  <1>1. SocketGood    BY Zenon DEF SocketGood
  <1>2. CommandsGood  BY DEF CommandsGood, CommandGood, ClientRecord, Unsent
  <1>3. RequestsGood  BY DEF RequestsGood, RequestRecord, NoRequest, Unsent
  <1>4. LifeGood      BY DEF LifeGood
  <1>5. Peers         BY DEF Peers, PeerGood, PM!PeerRecord, PM!NoPeer
  <1>6. ResultsTrue   BY DEF ResultsTrue, Asks, NoRequest
  <1>7. QED BY <1>0, <1>1, <1>2, <1>3, <1>4, <1>5, <1>6 DEF IInv

\* Whatever step takes every call and every command onward keeps the truth of the
\* results already given.
LEMMA KeepsResults ==
    ASSUME IInv, UNCHANGED request, PeersOnward,
           \A i \in Commands : "positive" \in Said(command'[i]) => "positive" \in Said(command[i])
    PROVE  ResultsTrue'
  BY DEF IInv, ResultsTrue, PeersOnward, Onward, Asks

\* The connection alone.
LEMMA ConnectionStep ==
    ASSUME IInv, Alone(Connection) PROVE IInv'
  <1> USE DEF Alone
  <1>0. /\ life # "exited" /\ UNCHANGED <<peer, request, life, awaited>>
        /\ \A i \in Commands : CommandGood(command[i])
        /\ \A i \in Commands : command[i].wire # "none" => socket = "open"
        /\ command = [i \in Commands |-> command[i]]
        /\ command \in [Commands -> ClientRecord]
        /\ Connection
        BY DEF IInv, CommandsGood
  <1> SUFFICES /\ SocketGood' /\ LossesGood'
               /\ command' \in [Commands -> ClientRecord]
               /\ \A i \in Commands :
                     /\ CommandOnward(command[i], command'[i])
                     /\ command'[i].wire # "none" => socket' = "open"
    <2>1. CommandsGood'
          BY DEF CommandsGood, CommandOnward
    <2>2. RequestsGood'
          BY <1>0 DEF IInv, RequestsGood, CommandOnward
    <2>3. LifeGood' /\ Peers'
          BY <1>0 DEF IInv, LifeGood, Peers
    <2>4. PeersOnward
          BY <1>0, <2>3 DEF PeersOnward, Onward
    <2>5. ResultsTrue'
          BY <1>0, <2>4, KeepsResults DEF CommandOnward
    <2>6. QED BY <2>1, <2>2, <2>3, <2>5 DEF IInv
  <1>1. SocketGood'
    <2> USE DEF IInv, SocketGood
    <2>1. CASE Reconnect       BY <1>0, <2>1 DEF Reconnect
    <2>2. CASE Opens           BY <1>0, <2>2 DEF Opens
    <2>3. CASE CloseEvent      BY <1>0, <2>3 DEF CloseEvent
    <2>4. CASE LoseConnection  BY <1>0, <2>4 DEF LoseConnection, GatewayDrops
    <2>5. CASE Challenge       BY <1>0, <2>5 DEF Challenge
    <2>6. CASE GatewayAccepts  BY <1>0, <2>6 DEF GatewayAccepts
    <2>7. CASE GatewayRejects  BY <1>0, <2>7 DEF GatewayRejects, GatewayDrops
    <2>8. CASE \E i \in Commands : GatewayTakes(i) \/ ReplyArrives(i) \/ GivesUp(i)
          BY <1>0, <2>8 DEF GatewayTakes, ReplyArrives, GivesUp
    <2>9. QED BY <1>0, <2>1, <2>2, <2>3, <2>4, <2>5, <2>6, <2>7, <2>8 DEF Connection
  <1>a. LossesGood'
    <2>1. CASE LoseConnection
          BY <2>1, TsClientAssumption DEF IInv, LossesGood, LoseConnection
    <2>2. CASE UNCHANGED losses
          BY <2>2 DEF IInv, LossesGood
    <2>3. LoseConnection \/ UNCHANGED losses
          BY <1>0 DEF Connection, Reconnect, Opens, CloseEvent, Challenge, GatewayAccepts,
                      GatewayRejects, GatewayTakes, ReplyArrives, GivesUp
    <2>4. QED BY <2>1, <2>2, <2>3
  <1> USE DEF CommandOnward, CommandGood
  <1>2. ASSUME NEW i \in Commands, NEW q, command' = [command EXCEPT ![i] = q],
               CommandOnward(command[i], q), q.wire # "none" => socket = "open", UNCHANGED socket
        PROVE  /\ command' \in [Commands -> ClientRecord]
               /\ \A j \in Commands :
                     /\ CommandOnward(command[j], command'[j])
                     /\ command'[j].wire # "none" => socket' = "open"
    <2>1. \A j \in Commands : CommandOnward(command[j], command[j])
          BY <1>0, RecordSteps
    <2>2. q \in ClientRecord
          BY <1>2
    <2> HIDE DEF CommandOnward, CommandGood
    <2>3. QED BY <1>0, <1>2, <2>1, <2>2
  <1> HIDE DEF CommandOnward, CommandGood
  <1> DEFINE Goal == /\ command' \in [Commands -> ClientRecord]
                     /\ \A j \in Commands :
                           /\ CommandOnward(command[j], command'[j])
                           /\ command'[j].wire # "none" => socket' = "open"
  <1>3. CASE Reconnect \/ Opens \/ Challenge \/ GatewayAccepts
    <2>1. UNCHANGED command
          BY <1>3 DEF Reconnect, Opens, Challenge, GatewayAccepts
    <2>2. \A i \in Commands : command[i].wire # "none" => socket' = "open"
          BY <1>0, <1>3 DEF Reconnect, Opens, Challenge, GatewayAccepts, IInv, SocketGood
    <2>3. QED BY <1>0, <1>1, <1>a, <2>1, <2>2, RecordSteps
  <1>4. CASE CloseEvent
    <2>1. command' = [i \in Commands |-> Flushed(command[i])] /\ socket = "closing"
          BY <1>4 DEF CloseEvent
    <2>2. \A i \in Commands : /\ CommandOnward(command[i], Flushed(command[i]))
                              /\ Flushed(command[i]).wire = "none"
          BY <1>0, <2>1, RecordSteps
    <2>3. \A i \in Commands : Flushed(command[i]) \in ClientRecord
          BY <2>2 DEF CommandOnward, CommandGood
    <2>4. QED BY <1>1, <1>a, <2>1, <2>2, <2>3
  <1>5. CASE LoseConnection \/ GatewayRejects
    <2>1. command' = [i \in Commands |-> Dropped(command[i])]
          BY <1>5 DEF LoseConnection, GatewayRejects, GatewayDrops
    <2>2. \A i \in Commands : /\ CommandOnward(command[i], Dropped(command[i]))
                              /\ Dropped(command[i]).wire = "none"
          BY <1>0, RecordSteps
    <2>3. \A i \in Commands : Dropped(command[i]) \in ClientRecord
          BY <2>2 DEF CommandOnward, CommandGood
    <2>4. QED BY <1>1, <1>a, <2>1, <2>2, <2>3
  <1>6. ASSUME NEW i \in Commands, GatewayTakes(i) PROVE Goal
    <2> DEFINE r == command[i]
    <2>1. /\ r.wire \in {"positive", "negative"} /\ UNCHANGED socket /\ socket = "open"
          /\ \/ r.taken = "waiting"
                   /\ command' = [command EXCEPT ![i] = [r EXCEPT !.taken = r.wire, !.wire = "yes"]]
             \/ command' = [command EXCEPT ![i] = [r EXCEPT !.wire = "yes"]]
             \/ command' = [command EXCEPT ![i] = [r EXCEPT !.wire = "no"]]
          BY <1>0, <1>6 DEF GatewayTakes
    <2>2. /\ r.taken = "waiting" => CommandOnward(r, [r EXCEPT !.taken = r.wire, !.wire = "yes"])
          /\ CommandOnward(r, [r EXCEPT !.wire = "yes"])
          /\ CommandOnward(r, [r EXCEPT !.wire = "no"])
          BY <1>0, <2>1, TakeSteps
    <2>3. QED BY <1>2, <2>1, <2>2
  <1>7. ASSUME NEW i \in Commands, ReplyArrives(i) PROVE Goal
    <2>1. command' = [command EXCEPT ![i] = Replied(command[i])] /\ UNCHANGED socket /\ socket = "open"
          BY <1>0, <1>7 DEF ReplyArrives
    <2>2. CommandOnward(command[i], Replied(command[i]))
          BY <1>0, <1>7, RecordSteps DEF ReplyArrives
    <2>3. Replied(command[i]).wire # "none" => socket = "open"
          BY <2>1
    <2>4. QED BY <1>2, <2>1, <2>2, <2>3
  <1>8. ASSUME NEW i \in Commands, GivesUp(i) PROVE Goal
    <2> DEFINE q == [command[i] EXCEPT !.taken = "gaveup"]
    <2>1. command' = [command EXCEPT ![i] = q] /\ UNCHANGED socket
          BY <1>0, <1>8 DEF GivesUp
    <2>2. CommandOnward(command[i], q)
          BY <1>0, <1>8, RecordSteps DEF GivesUp
    <2>3. q.wire # "none" => socket = "open"
          BY <1>0 DEF ClientRecord
    <2>4. QED BY <1>2, <2>1, <2>2, <2>3
  <1>9. QED BY <1>0, <1>1, <1>a, <1>3, <1>4, <1>5, <1>6, <1>7, <1>8 DEF Connection

\* Where a command ends up in a step that is its own: the other commands stay.
LEMMA OneCommand ==
    ASSUME IInv, NEW i \in Commands, NEW q, CommandGood(q), q.wire # "none" => socket = "open",
           command' = [command EXCEPT ![i] = q], UNCHANGED socket
    PROVE  /\ CommandsGood'
           /\ command'[i] = q
           /\ \A j \in Commands : j # i => command'[j] = command[j]
  BY DEF IInv, CommandsGood, CommandGood

\* A command comes in: its handler waits, or has settled, positively only for a
\* hang-up that found no entry.
LEMMA ArriveStep ==
    ASSUME IInv, NEW i \in Commands, NEW c \in CallIds,
           NEW kind \in {"accept", "candidate", "hangup"},
           Arrives(i, kind, c), PeersOnward,
           NEW q, CommandGood(q), q.stage # "none", q.wire # "none" => socket = "open",
           command' = [command EXCEPT ![i] = q], first' \in {first, "result"},
           "positive" \in Said(q) =>
              kind = "hangup" /\ (peer[c].accept = "answered" => peer'[c].pc \in Over)
    PROVE  IInv'
  <1> DEFINE answered == kind = "hangup" /\ Answered(c)
             r == [kind |-> kind, calls |-> {c}, answered |-> answered]
  <1>0. /\ life # "exited" /\ request' = [request EXCEPT ![i] = r]
        /\ request \in [Commands -> RequestRecord]
        /\ UNCHANGED <<socket, connectSent, reconnect, registered, losses, life, awaited>>
        BY DEF Arrives, IInv, RequestsGood
  <1>1. /\ CommandsGood' /\ command'[i] = q
        /\ \A j \in Commands : j # i => command'[j] = command[j]
        BY <1>0, OneCommand
  <1>2. SocketGood' /\ LossesGood' /\ LifeGood'
        BY <1>0 DEF IInv, SocketGood, LossesGood, LifeGood
  <1>3. answered \in BOOLEAN
        OBVIOUS
  <1>4. answered => peer'[c].accept = "answered" /\ peer[c].accept = "answered"
        BY DEF Answered, IInv, ResultsTrue, Said, PeersOnward, Onward
  <1> HIDE DEF answered
  <1>5. /\ r \in RequestRecord /\ r.kind = kind /\ r.calls = {c} /\ r.answered = answered
        BY <1>3 DEF RequestRecord
  <1> HIDE DEF r
  <1>6. /\ request' \in [Commands -> RequestRecord] /\ request'[i] = r
        /\ \A j \in Commands : j # i => request'[j] = request[j]
        BY <1>0, <1>5
  <1>7. RequestsGood'
    <2> SUFFICES ASSUME NEW j \in Commands
                 PROVE  /\ command'[j].stage = "none" <=> request'[j].kind = "none"
                        /\ \A d, e \in request'[j].calls : d = e
        BY <1>6 DEF RequestsGood
    <2>1. CASE j = i   BY <2>1, <1>1, <1>5, <1>6
    <2>2. CASE j # i   BY <2>2, <1>1, <1>6 DEF IInv, RequestsGood
    <2>3. QED BY <2>1, <2>2
  <1>8. ResultsTrue'
    <2> SUFFICES ASSUME NEW j \in Commands, NEW d \in CallIds
                 PROVE  /\ (Asks(j, "accept", d)' /\ "positive" \in Said(command'[j]))
                              => peer'[d].accept = "answered"
                        /\ (Asks(j, "hangup", d)' /\ request'[j].answered) =>
                              /\ peer'[d].accept = "answered"
                              /\ "positive" \in Said(command'[j]) => peer'[d].pc \in Over
        BY DEF ResultsTrue, Said
    <2>1. CASE j = i
          BY <2>1, <1>1, <1>4, <1>5, <1>6 DEF Asks
    <2>2. CASE j # i
      <3>1. /\ Asks(j, "accept", d)' = Asks(j, "accept", d)
            /\ Asks(j, "hangup", d)' = Asks(j, "hangup", d)
            /\ request'[j] = request[j] /\ command'[j] = command[j]
            BY <2>2, <1>1, <1>6 DEF Asks
      <3>2. Onward(peer[d], peer'[d])
            BY DEF PeersOnward
      <3>3. QED BY <3>1, <3>2 DEF IInv, ResultsTrue, Onward
    <2>3. QED BY <2>1, <2>2
  <1>9. QED BY <1>1, <1>2, <1>7, <1>8 DEF IInv, PeersOnward

\* The record of a command that has just come in.
LEMMA ArrivedRecord ==
    ASSUME IInv, NEW i \in Commands, command[i].stage = "none",
           NEW result \in {"positive", "negative"}
    PROVE  /\ Runs(i) =>
                 /\ CommandGood(Taken(command[i])) /\ Taken(command[i]).stage = "running"
                 /\ "positive" \notin Said(Taken(command[i])) /\ Taken(command[i]).wire = "none"
                 /\ command' = [command EXCEPT ![i] = Taken(command[i])] /\ first' = first
           /\ Settles(i, result) =>
                 LET q == Sent(Taken(command[i]), result)
                 IN  /\ CommandGood(q) /\ q.stage # "none"
                     /\ "positive" \in Said(q) => result = "positive"
                     /\ q.wire # "none" => socket = "open"
                     /\ command' = [command EXCEPT ![i] = q] /\ first' \in {first, "result"}
  <1>1. CommandGood(command[i]) /\ command \in [Commands -> ClientRecord]
        BY DEF IInv, CommandsGood
  <1>2. /\ CommandGood(Taken(command[i])) /\ Taken(command[i]).stage = "running"
        /\ "positive" \notin Said(Taken(command[i])) /\ Taken(command[i]).wire = "none"
        BY <1>1, HandlerSteps
  <1> DEFINE q == Sent(Taken(command[i]), result)
  <1>3. /\ CommandGood(q) /\ q.stage # "none"
        /\ "positive" \in Said(q) => result = "positive"
        /\ q.wire # "none" => socket = "open"
        BY <1>2, HandlerSteps
  <1>4. Settles(i, result) =>
           command' = [command EXCEPT ![i] = q] /\ first' \in {first, "result"}
        BY <1>1 DEF Settles, FirstAfterResult
  <1>5. Runs(i) => command' = [command EXCEPT ![i] = Taken(command[i])] /\ first' = first
        BY <1>1 DEF Runs
  <1> HIDE DEF q
  <1>6. QED BY <1>2, <1>3, <1>4, <1>5 DEF q

LEMMA CommandArrivesStep ==
    ASSUME IInv, NEW i \in Commands, CommandArrives(i) PROVE IInv'
  <1>0. PICK c \in CallIds : AcceptArrives(i, c) \/ CandidateArrives(i, c) \/ HangupArrives(i, c)
        BY DEF CommandArrives
  <1>1. command[i].stage = "none"
        BY <1>0 DEF AcceptArrives, CandidateArrives, HangupArrives, Arrives
  <1>2. CASE AcceptArrives(i, c)
    <2>1. Arrives(i, "accept", c) /\ Runs(i) /\ PeersOnward
          BY <1>2, AcceptStep DEF AcceptArrives, IInv
    <2>2. QED BY <1>1, <2>1, ArrivedRecord, ArriveStep
  <1>3. CASE CandidateArrives(i, c)
    <2>1. Arrives(i, "candidate", c) /\ (Runs(i) \/ Settles(i, "negative"))
          BY <1>3 DEF CandidateArrives
    <2>2. PeersOnward
          BY <1>3 DEF CandidateArrives, IInv, Peers, PeersOnward, Onward
    <2>3. CASE Runs(i)
          BY <1>1, <2>1, <2>2, <2>3, ArrivedRecord, ArriveStep
    <2>4. CASE Settles(i, "negative")
          BY <1>1, <2>1, <2>2, <2>4, ArrivedRecord, ArriveStep
    <2>5. QED BY <2>1, <2>3, <2>4
  <1>4. CASE HangupArrives(i, c)
    <2>1. Arrives(i, "hangup", c) /\ (Runs(i) \/ Settles(i, "positive")) /\ PM!closePeer(c)
          BY <1>4 DEF HangupArrives
    <2>2. PeersOnward /\ (peer[c].accept = "answered" => peer'[c].pc \in Over)
          BY <2>1, ClosePeerStep DEF IInv
    <2>3. CASE Runs(i)
          BY <1>1, <2>1, <2>2, <2>3, ArrivedRecord, ArriveStep
    <2>4. CASE Settles(i, "positive")
          BY <1>1, <2>1, <2>2, <2>4, ArrivedRecord, ArriveStep
    <2>5. QED BY <2>1, <2>3, <2>4
  <1>5. QED BY <1>0, <1>2, <1>3, <1>4

\* A handler is through.
LEMMA ReturnStep ==
    ASSUME IInv, NEW i \in Commands, NEW c \in CallIds, c \in request[i].calls,
           NEW result \in {"positive", "negative"}, Returns(i, result), PeersOnward,
           result = "positive" =>
              /\ Asks(i, "accept", c) => peer'[c].accept = "answered"
              /\ Asks(i, "hangup", c) => peer[c].pc \in Over
    PROVE  IInv'
  <1> DEFINE q == Sent(command[i], result)
  <1>0. /\ life # "exited" /\ command[i].stage = "running"
        /\ command' = [command EXCEPT ![i] = q] /\ first' \in {first, "result"}
        /\ UNCHANGED <<socket, connectSent, reconnect, registered, losses, request, life, awaited>>
        BY DEF Returns, FirstAfterResult, IInv, CommandsGood
  <1>1. /\ CommandGood(q) /\ q.stage # "none"
        /\ "positive" \in Said(q) => result = "positive"
        /\ q.wire # "none" => socket = "open"
        BY <1>0, HandlerSteps DEF IInv, CommandsGood
  <1> HIDE DEF q
  <1>2. /\ CommandsGood' /\ command'[i] = q
        /\ \A j \in Commands : j # i => command'[j] = command[j]
        BY <1>0, <1>1, OneCommand
  <1>3. SocketGood' /\ LossesGood' /\ LifeGood'
        BY <1>0 DEF IInv, SocketGood, LossesGood, LifeGood
  <1>4. \A j \in Commands : command'[j].stage = "none" <=> command[j].stage = "none"
        BY <1>0, <1>1, <1>2
  <1>5. RequestsGood'
        BY <1>0, <1>4 DEF IInv, RequestsGood
  <1>6. ResultsTrue'
    <2> SUFFICES ASSUME NEW j \in Commands, NEW d \in CallIds
                 PROVE  /\ (Asks(j, "accept", d) /\ "positive" \in Said(command'[j]))
                              => peer'[d].accept = "answered"
                        /\ (Asks(j, "hangup", d) /\ request[j].answered) =>
                              /\ peer'[d].accept = "answered"
                              /\ "positive" \in Said(command'[j]) => peer'[d].pc \in Over
        BY <1>0 DEF ResultsTrue, Said, Asks
    <2>1. Onward(peer[d], peer'[d])
          BY DEF PeersOnward
    <2>2. CASE j = i
      <3>1. d \in request[i].calls => d = c
            BY DEF IInv, RequestsGood
      <3>2. QED BY <2>1, <2>2, <3>1, <1>1, <1>2 DEF Asks, IInv, ResultsTrue, Onward
    <2>3. CASE j # i
          BY <2>1, <2>3, <1>2 DEF IInv, ResultsTrue, Onward
    <2>4. QED BY <2>2, <2>3
  <1>7. QED BY <1>2, <1>3, <1>5, <1>6 DEF IInv, PeersOnward

LEMMA CommandEndsStep ==
    ASSUME IInv, NEW i \in Commands, CommandEnds(i) PROVE IInv'
  <1>0. PICK c \in CallIds : AcceptEnds(i, c) \/ CandidateEnds(i, c) \/ HangupEnds(i, c)
        BY DEF CommandEnds
  <1>1. c \in request[i].calls
        BY <1>0 DEF AcceptEnds, CandidateEnds, HangupEnds, Asks
  <1>2. UNCHANGED peer => PeersOnward
        BY DEF IInv, Peers, PeersOnward, Onward
  <1>3. CASE AcceptEnds(i, c)
    <2>1. Asks(i, "accept", c) /\ ~Asks(i, "hangup", c)
          BY <1>3 DEF AcceptEnds, Asks
    <2>2. CASE PM!AcceptReturns(c) /\ Returns(i, "positive")
      <3>1. PeersOnward /\ peer'[c].accept = "answered"
            BY <2>2, AcceptStep DEF IInv
      <3>2. QED BY <1>1, <2>1, <2>2, <3>1, ReturnStep
    <2>3. CASE PM!AcceptThrows(c) /\ Returns(i, "negative")
      <3>1. PeersOnward
            BY <2>3, AcceptStep DEF IInv
      <3>2. QED BY <1>1, <2>3, <3>1, ReturnStep
    <2>4. QED BY <1>3, <2>2, <2>3 DEF AcceptEnds
  <1>4. CASE CandidateEnds(i, c)
    <2>1. /\ ~Asks(i, "accept", c) /\ ~Asks(i, "hangup", c) /\ PeersOnward
          /\ \E result \in {"positive", "negative"} : Returns(i, result)
          BY <1>2, <1>4 DEF CandidateEnds, Asks
    <2>2. PICK result \in {"positive", "negative"} : Returns(i, result)
          BY <2>1
    <2>3. QED BY <1>1, <2>1, <2>2, ReturnStep
  <1>5. CASE HangupEnds(i, c)
    <2>1. /\ ~Asks(i, "accept", c) /\ peer[c].pc \in Over /\ PeersOnward
          /\ Returns(i, "positive")
          BY <1>2, <1>5 DEF HangupEnds, Asks, Over
    <2>2. QED BY <1>1, <2>1, ReturnStep
  <1>6. QED BY <1>0, <1>3, <1>4, <1>5

\* Connections, timers and signals: the client is left alone, or ends.
LEMMA ProcessStep ==
    ASSUME IInv, (\E c \in CallIds : PeerStep(c)) \/ Shutdown \/ Exit PROVE IInv'
  <1>1. ASSUME PeersOnward, UNCHANGED <<clientVars, request>>, life # "exited", LifeGood',
               life' # "exited"
        PROVE  IInv'
    <2>1. SocketGood' /\ LossesGood'
          BY <1>1 DEF IInv, SocketGood, LossesGood, clientVars
    <2>2. CommandsGood' /\ RequestsGood'
          BY <1>1 DEF IInv, CommandsGood, RequestsGood, clientVars
    <2>3. ResultsTrue'
          BY <1>1, KeepsResults DEF clientVars
    <2>4. QED BY <1>1, <2>1, <2>2, <2>3 DEF IInv, PeersOnward
  <1>2. ASSUME NEW c \in CallIds, PeerStep(c) PROVE IInv'
    <2>1. PeersOnward
          BY <1>2, InternalStep DEF PeerStep, IInv
    <2>2. QED BY <1>1, <1>2, <2>1 DEF PeerStep, IInv, LifeGood
  <1>3. CASE Shutdown
    <2>1. PeersOnward
          BY <1>3, CloseAllStep DEF Shutdown, IInv
    <2>2. LifeGood'
          BY <1>3 DEF Shutdown, LifeGood
    <2>3. QED BY <1>1, <1>3, <2>1, <2>2 DEF Shutdown
  <1>4. CASE Exit
    <2>1. \A i \in Commands :
             LET r == command[i]
             IN  /\ CommandOnward(r, Dropped(r)) /\ Dropped(r).wire = "none"
                 /\ CommandOnward(Dropped(r), Flushed(Dropped(r)))
                 /\ Flushed(Dropped(r)).wire = "none"
      <3> SUFFICES ASSUME NEW i \in Commands
                   PROVE  LET r == command[i]
                          IN  /\ CommandOnward(r, Dropped(r)) /\ Dropped(r).wire = "none"
                              /\ CommandOnward(Dropped(r), Flushed(Dropped(r)))
                              /\ Flushed(Dropped(r)).wire = "none"
          OBVIOUS
      <3>1. CommandOnward(command[i], Dropped(command[i])) /\ Dropped(command[i]).wire = "none"
            BY RecordSteps DEF IInv, CommandsGood
      <3>2. CommandGood(Dropped(command[i]))
            BY <3>1 DEF CommandOnward
      <3>3. /\ CommandOnward(Dropped(command[i]), Flushed(Dropped(command[i])))
            /\ Flushed(Dropped(command[i])).wire \in {Dropped(command[i]).wire, "none"}
            BY <3>2, RecordSteps
      <3>4. QED BY <3>1, <3>3
    <2>2. command' = [i \in Commands |-> Flushed(Dropped(command[i]))]
          BY <1>4 DEF Exit
    <2>3. \A i \in Commands :
             /\ CommandGood(command'[i]) /\ command'[i].wire = "none"
             /\ command'[i].stage = "none" <=> command[i].stage = "none"
             /\ "positive" \in Said(command'[i]) => "positive" \in Said(command[i])
          BY <2>1, <2>2 DEF CommandOnward
    <2>4. CommandsGood'
          BY <2>2, <2>3 DEF CommandsGood, CommandGood
    <2>5. RequestsGood'
          BY <1>4, <2>3 DEF Exit, IInv, RequestsGood
    <2>6. SocketGood' /\ LossesGood' /\ LifeGood' /\ Peers'
          BY <1>4 DEF Exit, IInv, SocketGood, LossesGood, LifeGood, Peers
    <2>7. PeersOnward
          BY <1>4, <2>6 DEF Exit, PeersOnward, Onward
    <2>8. ResultsTrue'
          BY <1>4, <2>3, <2>7, KeepsResults DEF Exit
    <2>9. QED BY <2>4, <2>5, <2>6, <2>8 DEF IInv
  <1>5. QED BY <1>2, <1>3, <1>4

\* The inductive invariant of the node.
THEOREM TsNodeInvariant == Spec => []IInv
  <1>1. IInv /\ [Next]_nodeVars => IInv'
    <2> SUFFICES ASSUME IInv, [Next]_nodeVars PROVE IInv'
        OBVIOUS
    <2>1. CASE UNCHANGED nodeVars
      <3> USE <2>1 DEF nodeVars, IInv
      <3>1. SocketGood' /\ LossesGood' /\ LifeGood' /\ Peers'
            BY DEF SocketGood, LossesGood, LifeGood, Peers
      <3>2. CommandsGood' /\ RequestsGood' /\ ResultsTrue'
            BY DEF CommandsGood, RequestsGood, ResultsTrue, Asks
      <3>3. QED BY <3>1, <3>2
    <2>2. CASE Next
          BY <2>2, ConnectionStep, CommandArrivesStep, CommandEndsStep, ProcessStep DEF Next
    <2>3. QED BY <2>1, <2>2
  <1>2. QED BY <1>1, InitIInv, PTL DEF Spec

\* The process, its client and its connections keep their types.
THEOREM TsNodeTypeCorrect == Spec => []TsNodeTypeOK
  <1>1. IInv => TsNodeTypeOK
    <2> SUFFICES ASSUME IInv PROVE TsNodeTypeOK
        OBVIOUS
    <2>1. PM!PeersTypeOK
          BY DEF IInv, Peers, PM!PeersTypeOK
    <2>2. \A i \in Commands :
             /\ command[i] \in ClientRecord
             /\ command[i].stage = "none" <=> command[i].taken = "none"
             /\ command[i].wire # "none" => socket = "open" /\ command[i].stage \in {"positive", "negative"}
          BY DEF IInv, CommandsGood, CommandGood
    <2>3. life # "exited" => ClientTypeOK
          BY <2>2 DEF IInv, SocketGood, LossesGood, CommandsGood, ClientTypeOK
    <2>4. life = "exited" => socket = "none" /\ ~reconnect /\ ~registered
          BY DEF IInv, SocketGood
    <2>5. QED BY <2>1, <2>2, <2>3, <2>4 DEF IInv, RequestsGood, LifeGood, TsNodeTypeOK
  <1>2. QED BY <1>1, TsNodeInvariant, PTL

\* The gateway never gets two stories about one command.
THEOREM OneResult == Spec => []ResultsAgree
  <1>1. IInv => ResultsAgree
        BY DEF IInv, CommandsGood, CommandGood, ResultsAgree
  <1>2. QED BY <1>1, TsNodeInvariant, PTL

\* An answered call can always be hung up.
THEOREM AnsweredCallReachable == Spec => []AnsweredReachable
  <1>1. IInv => AnsweredReachable
        BY DEF IInv, Peers, PeerGood, Over, AnsweredReachable, PM!AnsweredReachable
  <1>2. QED BY <1>1, TsNodeInvariant, PTL

\* No loopback timer is ever out of closePeer's reach.
THEOREM LoopbackEndable == Spec => []TimersReachable
  <1>1. IInv => TimersReachable
        BY DEF IInv, Peers, PeerGood, TimersReachable, PM!TimersReachable
  <1>2. QED BY <1>1, TsNodeInvariant, PTL

\* A hang-up that succeeded, of a call the gateway knew to be answered, has closed
\* the connection.
THEOREM HangupCloses == Spec => []HangupReleases
  <1>1. IInv => HangupReleases
        BY DEF IInv, ResultsTrue, Said, Over, HangupReleases
  <1>2. QED BY <1>1, TsNodeInvariant, PTL

-----------------------------------------------------------------------------
(* A connection is passed on, from its accept to the map to who closes it *)

\* Where a connection is while its accept stands where it does: an answered one is
\* in the map until it is told to close, any other never gets there.
HeldOnce(p) ==
    /\ p \in PM!PeerRecord
    /\ p.accept = "none" => p.pc = "none" /\ ~p.stored
    /\ p.accept \in {"negotiating", "failed"} =>
          p.pc \in {"up", "disconnected", "failed"} /\ ~p.stored
    /\ p.accept = "answered" => p.pc # "none" /\ (p.stored <=> p.pc \notin Over)

AllHeld == peer \in [CallIds -> PM!PeerRecord] /\ \A c \in CallIds : HeldOnce(peer[c])

LEMMA HeldBy ==
    ASSUME NEW p, HeldOnce(p)
    PROVE  /\ p.accept = "none"        => Holders(p) = {} /\ Open(p) = FALSE
           /\ p.accept = "negotiating" => Holders(p) = {"accept"} /\ Open(p) = TRUE
           /\ p.accept = "failed"      => Holders(p) = {} /\ Open(p) = TRUE
           /\ p.accept = "answered" =>
                 /\ p.stored         => Holders(p) = {"map"} /\ Open(p) = TRUE
                 /\ p.pc = "closing" => Holders(p) = {"closer"} /\ Open(p) = TRUE
                 /\ p.pc = "closed"  => Holders(p) = {} /\ Open(p) = FALSE
  <1>1. Holders(p) = (IF p.accept = "negotiating" THEN {"accept"} ELSE {})
                        \cup (IF p.stored THEN {"map"} ELSE {})
                        \cup (IF p.pc = "closing" THEN {"closer"} ELSE {})
        BY DEF Holders
  <1>2. QED BY <1>1 DEF HeldOnce, PM!PeerRecord, Open, Over

\* The ways a record may go: as ConnectionCustody's actions, or out of its sight.
PassedOn(p, q) ==
    LET same == AcceptStage(q) = AcceptStage(p)
    IN  \/ same /\ Open(q) = Open(p) /\ Holders(q) = Holders(p)
        \/ AcceptStage(p) = "none" /\ AcceptStage(q) = "running" /\ Open(q) = TRUE /\ Holders(q) = {"accept"}
        \/ AcceptStage(p) = "running" /\ AcceptStage(q) = "answered"
              /\ Open(q) = Open(p) /\ Holders(p) = {"accept"} /\ Holders(q) = {"map"}
        \/ AcceptStage(p) = "running" /\ AcceptStage(q) = "failed"
              /\ Open(q) = TRUE /\ Holders(p) = {"accept"} /\ Holders(q) = {}
        \/ same /\ Open(q) = Open(p) /\ Holders(p) = {"map"} /\ Holders(q) = {"closer"}
        \/ same /\ Open(q) = FALSE /\ Holders(p) = {"closer"} /\ Holders(q) = {}

\* A record of which only the audio, the loopback or the link has changed.
LEMMA UnseenPassesOn ==
    ASSUME NEW p, NEW q, HeldOnce(p), q \in PM!PeerRecord,
           q.accept = p.accept, q.stored = p.stored,
           \/ q.pc = p.pc
           \/ p.pc \in {"up", "disconnected", "failed"} /\ q.pc \in {"up", "disconnected", "failed"}
    PROVE  HeldOnce(q) /\ PassedOn(p, q)
  <1>1. HeldOnce(q)
        BY DEF HeldOnce, Over
  <1>2. Open(q) = Open(p)
        BY DEF Open
  <1>3. (q.pc = "closing") = (p.pc = "closing")
        OBVIOUS
  <1>4. Holders(q) = Holders(p)
        BY <1>3 DEF Holders
  <1>5. QED BY <1>1, <1>2, <1>4 DEF PassedOn, AcceptStage

LEMMA HeldPassesOn ==
    ASSUME NEW p, NEW q, HeldOnce(p), HeldOnce(q),
           \/ p.accept = "none" /\ q.accept = "negotiating"
           \/ p.accept = "negotiating" /\ q.accept = "failed"
           \/ p.accept = "negotiating" /\ q.accept = "answered" /\ q.stored
           \/ p.accept = "answered" /\ q.accept = "answered" /\ p.stored /\ q.pc = "closing"
           \/ p.accept = "answered" /\ q.accept = "answered" /\ p.pc = "closing" /\ q.pc = "closed"
    PROVE  PassedOn(p, q)
  <1>1. CASE p.accept = "none" /\ q.accept = "negotiating"
        BY <1>1, HeldBy DEF PassedOn, AcceptStage
  <1>2. CASE p.accept = "negotiating" /\ q.accept = "failed"
    <2>1. Holders(p) = {"accept"} /\ Holders(q) = {} /\ Open(q) = TRUE
          BY <1>2, HeldBy
    <2>2. QED BY <1>2, <2>1 DEF PassedOn, AcceptStage
  <1>3. CASE p.accept = "negotiating" /\ q.accept = "answered" /\ q.stored
    <2>1. Holders(p) = {"accept"} /\ Holders(q) = {"map"} /\ Open(q) = Open(p)
          BY <1>3, HeldBy
    <2>2. QED BY <1>3, <2>1 DEF PassedOn, AcceptStage
  <1>4. CASE p.accept = "answered" /\ q.accept = "answered" /\ p.stored /\ q.pc = "closing"
    <2>1. Holders(p) = {"map"} /\ Holders(q) = {"closer"} /\ Open(q) = Open(p)
          BY <1>4, HeldBy
    <2>2. QED BY <1>4, <2>1 DEF PassedOn, AcceptStage
  <1>5. CASE p.accept = "answered" /\ q.accept = "answered" /\ p.pc = "closing" /\ q.pc = "closed"
    <2>1. Holders(p) = {"closer"} /\ Holders(q) = {} /\ Open(q) = FALSE
          BY <1>5, HeldBy
    <2>2. QED BY <1>5, <2>1 DEF PassedOn, AcceptStage
  <1>6. QED BY <1>1, <1>2, <1>3, <1>4, <1>5

\* closePeer takes the entry, if there is one; it may find a connection that has
\* just dropped.
LEMMA ClosePassesOn ==
    ASSUME NEW p, HeldOnce(p)
    PROVE  /\ HeldOnce(PM!CloseEntry(p)) /\ PassedOn(p, PM!CloseEntry(p))
           /\ p.stored => /\ p.accept = "answered" /\ PM!CloseEntry(p).accept = "answered"
                          /\ PM!CloseEntry(p).pc = "closing"
  <1> PICK q : q = PM!CloseEntry(p)
      OBVIOUS
  <1>1. /\ q \in PM!PeerRecord /\ q.accept = p.accept /\ ~q.stored
        /\ q.pc = IF p.stored THEN "closing" ELSE p.pc
        BY DEF PM!CloseEntry, PM!PeerRecord, HeldOnce
  <1>2. CASE p.stored
    <2>1. p.accept = "answered" /\ q.accept = "answered" /\ q.pc = "closing"
          BY <1>1, <1>2 DEF HeldOnce, PM!PeerRecord
    <2>2. HeldOnce(q)
          BY <1>1, <2>1 DEF HeldOnce, Over
    <2>3. PassedOn(p, q)
          BY <1>2, <2>1, <2>2, HeldPassesOn
    <2>4. QED BY <2>1, <2>2, <2>3
  <1>3. CASE ~p.stored
    <2>1. p.stored = q.stored /\ q.pc = p.pc
          BY <1>1, <1>3 DEF HeldOnce, PM!PeerRecord
    <2>2. HeldOnce(q) /\ PassedOn(p, q)
          BY <1>1, <2>1, UnseenPassesOn
    <2>3. QED BY <1>3, <2>2
  <1>4. QED BY <1>2, <1>3

-----------------------------------------------------------------------------

\* What a step on one record writes.
Writes(c) == \E q : peer' = [peer EXCEPT ![c] = q] /\ HeldOnce(q) /\ PassedOn(peer[c], q)

LEMMA AcceptWrites ==
    ASSUME AllHeld, NEW c \in CallIds,
           PM!AcceptCall(c) \/ PM!AcceptReturns(c) \/ PM!AcceptThrows(c)
    PROVE  Writes(c)
  <1>0. PICK p : p = peer[c]
        OBVIOUS
  <1>1. HeldOnce(p) /\ p \in PM!PeerRecord
        BY <1>0 DEF AllHeld, HeldOnce
  <1>2. ASSUME NEW q, HeldOnce(q), PassedOn(p, q), peer' = [peer EXCEPT ![c] = q]
        PROVE  Writes(c)
        BY <1>0, <1>2 DEF Writes
  <1>3. CASE PM!AcceptCall(c)
    <2> DEFINE q == [p EXCEPT !.accept = "negotiating", !.pc = "up"]
    <2>1. peer' = [peer EXCEPT ![c] = q] /\ p.accept = "none"
          BY <1>0, <1>3 DEF PM!AcceptCall, AllHeld
    <2>2. HeldOnce(q) /\ q.accept = "negotiating"
          BY <1>1, <2>1 DEF HeldOnce, PM!PeerRecord
    <2> HIDE DEF q
    <2>3. QED BY <1>1, <1>2, <2>1, <2>2, HeldPassesOn
  <1>4. CASE PM!AcceptReturns(c)
    <2> DEFINE q == [p EXCEPT !.accept = "answered", !.stored = TRUE]
    <2>1. peer' = [peer EXCEPT ![c] = q] /\ p.accept = "negotiating"
          BY <1>0, <1>4 DEF PM!AcceptReturns, AllHeld
    <2>2. HeldOnce(q) /\ q.accept = "answered" /\ q.stored
          BY <1>1, <2>1 DEF HeldOnce, PM!PeerRecord, Over
    <2> HIDE DEF q
    <2>3. QED BY <1>1, <1>2, <2>1, <2>2, HeldPassesOn
  <1>5. CASE PM!AcceptThrows(c)
    <2> DEFINE q == [p EXCEPT !.accept = "failed"]
    <2>1. peer' = [peer EXCEPT ![c] = q] /\ p.accept = "negotiating"
          BY <1>0, <1>5 DEF PM!AcceptThrows, AllHeld
    <2>2. HeldOnce(q) /\ q.accept = "failed"
          BY <1>1, <2>1 DEF HeldOnce, PM!PeerRecord
    <2> HIDE DEF q
    <2>3. QED BY <1>1, <1>2, <2>1, <2>2, HeldPassesOn
  <1>6. QED BY <1>3, <1>4, <1>5

LEMMA ClosePeerWrites ==
    ASSUME AllHeld, NEW c \in CallIds, PM!closePeer(c) PROVE Writes(c)
  <1>1. peer' = [peer EXCEPT ![c] = PM!CloseEntry(peer[c])] /\ HeldOnce(peer[c])
        BY DEF PM!closePeer, AllHeld
  <1>2. QED BY <1>1, ClosePassesOn DEF Writes

LEMMA InternalWrites ==
    ASSUME AllHeld, NEW c \in CallIds, PM!Internal(c) PROVE Writes(c)
  <1>0. PICK p : p = peer[c]
        OBVIOUS
  <1>1. HeldOnce(p) /\ p \in PM!PeerRecord
        BY <1>0 DEF AllHeld, HeldOnce
  <1>2. ASSUME NEW q, HeldOnce(q), PassedOn(p, q), peer' = [peer EXCEPT ![c] = q]
        PROVE  Writes(c)
        BY <1>0, <1>2 DEF Writes
  <1>3. CASE PM!PcCloses(c)
    <2> DEFINE q == [p EXCEPT !.pc = "closed"]
    <2>1. p.pc = "closing" /\ (\/ peer' = [peer EXCEPT ![c] = PM!CloseEntry(q)]
                               \/ peer' = [peer EXCEPT ![c] = q])
          BY <1>0, <1>3 DEF PM!PcCloses, AllHeld
    <2>2. p.accept = "answered" /\ ~p.stored
          BY <1>1, <2>1 DEF HeldOnce, PM!PeerRecord, Over
    <2>3. HeldOnce(q) /\ q.accept = "answered" /\ q.pc = "closed" /\ ~q.stored
          BY <1>1, <2>2 DEF HeldOnce, PM!PeerRecord, Over
    <2> HIDE DEF q
    <2>4. PassedOn(p, q)
          BY <1>1, <2>1, <2>2, <2>3, HeldPassesOn
    <2>5. HeldOnce(PM!CloseEntry(q))
          BY <2>3, ClosePassesOn
    <2>6. PM!CloseEntry(q).accept = "answered" /\ PM!CloseEntry(q).pc = "closed"
          BY <2>3 DEF PM!CloseEntry, HeldOnce, PM!PeerRecord
    <2>7. PassedOn(p, PM!CloseEntry(q))
          BY <1>1, <2>1, <2>2, <2>5, <2>6, HeldPassesOn
    <2>8. QED BY <1>2, <2>1, <2>3, <2>4, <2>5, <2>7
  <1>4. ASSUME NEW state \in {"disconnected", "failed"}, PM!PcDrops(c, state)
        PROVE  Writes(c)
    <2> DEFINE q == [p EXCEPT !.pc = state]
    <2>1. p.pc \in {"up", "disconnected"} /\ peer' = [peer EXCEPT ![c] = PM!CloseEntry(q)]
          BY <1>0, <1>4 DEF PM!PcDrops, AllHeld
    <2>2. q \in PM!PeerRecord /\ q.accept = p.accept /\ q.stored = p.stored /\ q.pc = state
          BY <1>1 DEF PM!PeerRecord
    <2> HIDE DEF q
    <2>3. HeldOnce(q) /\ PassedOn(p, q)
          BY <1>1, <2>1, <2>2, UnseenPassesOn
    <2>4. Open(q) = Open(p) /\ Holders(q) = Holders(p)
      <3>1. (q.pc = "closing") = (p.pc = "closing")
            BY <2>1, <2>2
      <3>2. QED BY <2>1, <2>2, <3>1 DEF Open, Holders
    <2>5. HeldOnce(PM!CloseEntry(q)) /\ PassedOn(q, PM!CloseEntry(q))
          BY <2>3, ClosePassesOn
    <2>6. PassedOn(p, PM!CloseEntry(q))
          BY <2>2, <2>4, <2>5 DEF PassedOn, AcceptStage
    <2>7. QED BY <1>2, <2>1, <2>5, <2>6
  <1>5. ASSUME NEW q \in PM!PeerRecord, peer' = [peer EXCEPT ![c] = q],
               q.accept = p.accept, q.stored = p.stored,
               q.pc = p.pc \/ (p.pc = "disconnected" /\ q.pc = "up")
        PROVE  Writes(c)
        BY <1>1, <1>2, <1>5, UnseenPassesOn
  <1>6. CASE PM!PcRecovers(c)
    <2> DEFINE q == [p EXCEPT !.pc = "up"]
    <2>1. p.pc = "disconnected" /\ peer' = [peer EXCEPT ![c] = q]
          BY <1>0, <1>6 DEF PM!PcRecovers, AllHeld
    <2>2. q \in PM!PeerRecord /\ q.accept = p.accept /\ q.stored = p.stored /\ q.pc = "up"
          BY <1>1 DEF PM!PeerRecord
    <2> HIDE DEF q
    <2>3. QED BY <1>5, <2>1, <2>2
  <1>7. ASSUME NEW audio \in {"echo", "importing", "recording", "switching", "playing", "over"},
               NEW loop \in BOOLEAN, NEW timer \in BOOLEAN,
               peer' = [peer EXCEPT ![c] = [p EXCEPT !.audio = audio, !.loop = loop, !.timer = timer]]
        PROVE  Writes(c)
    <2> DEFINE q == [p EXCEPT !.audio = audio, !.loop = loop, !.timer = timer]
    <2>1. q \in PM!PeerRecord /\ q.accept = p.accept /\ q.stored = p.stored /\ q.pc = p.pc
          BY <1>1 DEF PM!PeerRecord
    <2> HIDE DEF q
    <2>2. QED BY <1>5, <1>7, <2>1 DEF q
  <1>8. \A audio, timer : /\ [p EXCEPT !.audio = audio]
                              = [p EXCEPT !.audio = audio, !.loop = p.loop, !.timer = p.timer]
                          /\ [p EXCEPT !.audio = audio, !.timer = timer]
                              = [p EXCEPT !.audio = audio, !.loop = p.loop, !.timer = timer]
        BY <1>1 DEF PM!PeerRecord
  <1>9. p.loop \in BOOLEAN /\ p.timer \in BOOLEAN
        BY <1>1 DEF PM!PeerRecord
  <1>10. CASE PM!OnTrack(c)
    <2>1. PICK audio \in {"importing", "echo"} : peer' = [peer EXCEPT ![c] = [p EXCEPT !.audio = audio]]
          BY <1>0, <1>10 DEF PM!OnTrack, AllHeld
    <2>2. [p EXCEPT !.audio = audio] = [p EXCEPT !.audio = audio, !.loop = p.loop, !.timer = p.timer]
          BY <1>8
    <2>3. peer' = [peer EXCEPT ![c] = [p EXCEPT !.audio = audio, !.loop = p.loop, !.timer = p.timer]]
          BY <2>1, <2>2
    <2>4. QED BY <1>7, <1>9, <2>3
  <1>11. CASE PM!LoopbackReady(c)
    <2>1. peer' = [peer EXCEPT ![c] = [p EXCEPT !.audio = "recording", !.loop = TRUE, !.timer = TRUE]]
          BY <1>0, <1>11 DEF PM!LoopbackReady, AllHeld
    <2>2. QED BY <1>7, <2>1
  <1>12. CASE PM!RecordingOver(c)
    <2>1. PICK audio \in {"over", "switching"} :
             peer' = [peer EXCEPT ![c] = [p EXCEPT !.audio = audio, !.timer = FALSE]]
          BY <1>0, <1>12 DEF PM!RecordingOver, AllHeld
    <2>2. [p EXCEPT !.audio = audio, !.timer = FALSE]
             = [p EXCEPT !.audio = audio, !.loop = p.loop, !.timer = FALSE]
          BY <1>8
    <2>3. peer' = [peer EXCEPT ![c] = [p EXCEPT !.audio = audio, !.loop = p.loop, !.timer = FALSE]]
          BY <2>1, <2>2
    <2>4. QED BY <1>7, <1>9, <2>3
  <1>13. CASE PM!PlaybackReady(c)
    <2>1. \/ peer' = [peer EXCEPT ![c] = [p EXCEPT !.audio = "playing", !.timer = TRUE]]
          \/ peer' = [peer EXCEPT ![c] = [p EXCEPT !.audio = "over"]]
          BY <1>0, <1>13 DEF PM!PlaybackReady, AllHeld
    <2>2. /\ [p EXCEPT !.audio = "playing", !.timer = TRUE]
                = [p EXCEPT !.audio = "playing", !.loop = p.loop, !.timer = TRUE]
          /\ [p EXCEPT !.audio = "over"]
                = [p EXCEPT !.audio = "over", !.loop = p.loop, !.timer = p.timer]
          BY <1>8
    <2>3. \/ peer' = [peer EXCEPT ![c] = [p EXCEPT !.audio = "playing", !.loop = p.loop, !.timer = TRUE]]
          \/ peer' = [peer EXCEPT ![c] = [p EXCEPT !.audio = "over", !.loop = p.loop, !.timer = p.timer]]
          BY <2>1, <2>2
    <2>4. QED BY <1>7, <1>9, <2>3
  <1>14. CASE PM!PlayEnds(c)
    <2>1. peer' = [peer EXCEPT ![c] = [p EXCEPT !.audio = "over", !.timer = FALSE]]
          BY <1>0, <1>14 DEF PM!PlayEnds, AllHeld
    <2>2. [p EXCEPT !.audio = "over", !.timer = FALSE]
             = [p EXCEPT !.audio = "over", !.loop = p.loop, !.timer = FALSE]
          BY <1>8
    <2>3. peer' = [peer EXCEPT ![c] = [p EXCEPT !.audio = "over", !.loop = p.loop, !.timer = FALSE]]
          BY <2>1, <2>2
    <2>4. QED BY <1>7, <1>9, <2>3
  <1>15. QED BY <1>3, <1>4, <1>6, <1>10, <1>11, <1>12, <1>13, <1>14 DEF PM!Internal

-----------------------------------------------------------------------------

acceptBar   == [c \in CallIds |-> AcceptStage(peer[c])]
openBar    == [c \in CallIds |-> Open(peer[c])]
holdersBar == [c \in CallIds |-> Holders(peer[c])]

LEMMA WritesRefines ==
    ASSUME AllHeld, NEW c \in CallIds, Writes(c)
    PROVE  AllHeld' /\ [Custody!Next]_(Custody!vars)
  <1>0. PICK q : peer' = [peer EXCEPT ![c] = q] /\ HeldOnce(q) /\ PassedOn(peer[c], q)
        BY DEF Writes
  <1>1. \A d \in CallIds : peer'[d] = IF d = c THEN q ELSE peer[d]
        BY <1>0 DEF AllHeld
  <1>2. AllHeld'
    <2>1. \A d \in CallIds : HeldOnce(peer'[d])
          BY <1>0, <1>1 DEF AllHeld
    <2>2. peer' \in [CallIds -> PM!PeerRecord]
          BY <1>0 DEF AllHeld, HeldOnce
    <2>3. QED BY <2>1, <2>2 DEF AllHeld
  <1>3. holdersBar' = [holdersBar EXCEPT ![c] = Holders(q)]
    <2>1. \A d \in CallIds : Holders(peer[d])' = IF d = c THEN Holders(q) ELSE Holders(peer[d])
          BY <1>1 DEF Holders
    <2>2. QED BY <2>1 DEF holdersBar
  <1>4. openBar' = [openBar EXCEPT ![c] = Open(q)]
    <2>1. \A d \in CallIds : Open(peer[d])' = IF d = c THEN Open(q) ELSE Open(peer[d])
          BY <1>1 DEF Open
    <2>2. QED BY <2>1, Zenon DEF openBar
  <1>5. acceptBar' = [acceptBar EXCEPT ![c] = AcceptStage(q)]
    <2>1. \A d \in CallIds : AcceptStage(peer[d])'
                                = IF d = c THEN AcceptStage(q) ELSE AcceptStage(peer[d])
          BY <1>1 DEF AcceptStage
    <2>2. QED BY <2>1 DEF acceptBar
  <1>6. /\ acceptBar[c] = AcceptStage(peer[c]) /\ openBar[c] = Open(peer[c])
        /\ holdersBar[c] = Holders(peer[c])
        /\ acceptBar = [d \in CallIds |-> acceptBar[d]] /\ openBar = [d \in CallIds |-> openBar[d]]
        /\ holdersBar = [d \in CallIds |-> holdersBar[d]]
        BY DEF acceptBar, openBar, holdersBar
  <1> DEFINE p    == peer[c]
             same == AcceptStage(q) = AcceptStage(p)
  <1>7. CASE same /\ Open(q) = Open(p) /\ Holders(q) = Holders(p)
    <2>1. UNCHANGED <<acceptBar, openBar, holdersBar>>
          BY <1>3, <1>4, <1>5, <1>6, <1>7
    <2>2. QED BY <1>2, <2>1 DEF Custody!vars, acceptBar, openBar, holdersBar
  <1>8. CASE AcceptStage(p) = "none" /\ AcceptStage(q) = "running"
                /\ Open(q) = TRUE /\ Holders(q) = {"accept"}
    <2>1. Custody!Make(c)
          BY <1>3, <1>4, <1>5, <1>6, <1>8 DEF Custody!Make, acceptBar, openBar, holdersBar
    <2>2. QED BY <1>2, <2>1 DEF Custody!Next
  <1>9. CASE AcceptStage(p) = "running" /\ AcceptStage(q) = "answered"
             /\ Open(q) = Open(p) /\ Holders(p) = {"accept"} /\ Holders(q) = {"map"}
    <2>1. UNCHANGED openBar /\ acceptBar' = [acceptBar EXCEPT ![c] = "answered"]
          BY <1>4, <1>5, <1>6, <1>9
    <2>2. Custody!Store(c)
          BY <1>3, <1>6, <1>9, <2>1 DEF Custody!Store, acceptBar, openBar, holdersBar
    <2>3. QED BY <1>2, <2>2 DEF Custody!Next
  <1>10. CASE AcceptStage(p) = "running" /\ AcceptStage(q) = "failed"
              /\ Open(q) = TRUE /\ Holders(p) = {"accept"} /\ Holders(q) = {}
    <2>1. /\ acceptBar' = [acceptBar EXCEPT ![c] = "failed"]
          /\ openBar' = [openBar EXCEPT ![c] = TRUE]
          BY <1>4, <1>5, <1>6, <1>10
    <2>2. Custody!GiveUp(c)
          BY <1>3, <1>6, <1>10, <2>1 DEF Custody!GiveUp, acceptBar, openBar, holdersBar
    <2>3. QED BY <1>2, <2>2 DEF Custody!Next
  <1>11. CASE same /\ Open(q) = Open(p) /\ Holders(p) = {"map"} /\ Holders(q) = {"closer"}
    <2>1. UNCHANGED <<acceptBar, openBar>>
          BY <1>4, <1>5, <1>6, <1>11
    <2>2. holdersBar' = [d \in CallIds |-> IF d \in {c} THEN {"closer"} ELSE holdersBar[d]]
          BY <1>3, <1>6, <1>11
    <2>3. Custody!Take({c})
          BY <1>6, <1>11, <2>1, <2>2 DEF Custody!Take, acceptBar, openBar, holdersBar
    <2>4. {c} \in SUBSET CallIds
          OBVIOUS
    <2>5. QED BY <1>2, <2>3, <2>4 DEF Custody!Next
  <1>12. CASE same /\ Open(q) = FALSE /\ Holders(p) = {"closer"} /\ Holders(q) = {}
    <2>1. UNCHANGED acceptBar /\ openBar' = [openBar EXCEPT ![c] = FALSE]
          BY <1>4, <1>5, <1>6, <1>12
    <2>2. Custody!Close(c)
          BY <1>3, <1>6, <1>12, <2>1 DEF Custody!Close, acceptBar, openBar, holdersBar
    <2>3. QED BY <1>2, <2>2 DEF Custody!Next
  <1>13. QED BY <1>0, <1>7, <1>8, <1>9, <1>10, <1>11, <1>12 DEF PassedOn, AcceptStage

\* The shutdown takes all the entries at once.
LEMMA CloseAllRefines ==
    ASSUME AllHeld, PM!closeAll PROVE AllHeld' /\ [Custody!Next]_(Custody!vars)
  <1> PICK K : K = {c \in CallIds : peer[c].stored}
      OBVIOUS
  <1>1. \A c \in CallIds : peer'[c] = IF c \in K THEN PM!CloseEntry(peer[c]) ELSE peer[c]
        BY DEF PM!closeAll
  <1>2. \A c \in CallIds :
           /\ HeldOnce(peer[c]) /\ HeldOnce(PM!CloseEntry(peer[c]))
           /\ c \in K => /\ peer[c].accept = "answered" /\ peer[c].stored
                         /\ PM!CloseEntry(peer[c]).accept = "answered"
                         /\ PM!CloseEntry(peer[c]).pc = "closing"
        BY ClosePassesOn DEF AllHeld
  <1>3. AllHeld'
    <2>1. \A c \in CallIds : HeldOnce(peer'[c])
          BY <1>1, <1>2
    <2>2. peer' \in [CallIds -> PM!PeerRecord]
          BY <2>1 DEF PM!closeAll, HeldOnce
    <2>3. QED BY <2>1, <2>2 DEF AllHeld
  <1>4. \A c \in CallIds :
           /\ c \in K => Holders(peer[c]) = {"map"} /\ Open(peer[c]) = TRUE
           /\ Holders(peer[c])' = IF c \in K THEN {"closer"} ELSE Holders(peer[c])
           /\ Open(peer[c])' = Open(peer[c])
           /\ AcceptStage(peer[c])' = AcceptStage(peer[c])
    <2> SUFFICES ASSUME NEW c \in CallIds
                 PROVE  /\ c \in K => Holders(peer[c]) = {"map"} /\ Open(peer[c]) = TRUE
                        /\ Holders(peer[c])' = IF c \in K THEN {"closer"} ELSE Holders(peer[c])
                        /\ Open(peer[c])' = Open(peer[c])
                        /\ AcceptStage(peer[c])' = AcceptStage(peer[c])
        OBVIOUS
    <2>1. /\ Holders(peer[c])' = Holders(peer'[c]) /\ Open(peer[c])' = Open(peer'[c])
          /\ AcceptStage(peer[c])' = AcceptStage(peer'[c])
          BY DEF Holders, Open, AcceptStage
    <2>2. CASE c \in K
      <3>1. Holders(peer[c]) = {"map"} /\ Open(peer[c]) = TRUE
            BY <1>2, <2>2, HeldBy
      <3>2. Holders(PM!CloseEntry(peer[c])) = {"closer"} /\ Open(PM!CloseEntry(peer[c])) = TRUE
            BY <1>2, <2>2, HeldBy
      <3>3. peer'[c] = PM!CloseEntry(peer[c])
            BY <1>1, <2>2
      <3>4. AcceptStage(peer'[c]) = AcceptStage(peer[c])
            BY <1>2, <2>2, <3>3 DEF AcceptStage
      <3>5. QED BY <2>1, <2>2, <3>1, <3>2, <3>3, <3>4
    <2>3. CASE c \notin K
          BY <1>1, <2>1, <2>3
    <2>4. QED BY <2>2, <2>3
  <1>5. holdersBar' = [c \in CallIds |-> IF c \in K THEN {"closer"} ELSE holdersBar[c]]
        BY <1>4 DEF holdersBar
  <1>6. UNCHANGED openBar
        BY <1>4, Zenon DEF openBar
  <1>7. UNCHANGED acceptBar
        BY <1>4 DEF acceptBar
  <1>8. \A c \in K : holdersBar[c] = {"map"}
        BY <1>4 DEF holdersBar
  <1>9. Custody!Take(K)
        BY <1>5, <1>6, <1>7, <1>8 DEF Custody!Take, acceptBar, openBar, holdersBar
  <1>10. QED BY <1>3, <1>9 DEF Custody!Next

\* The commands and the process touch one connection or, at a shutdown, all.
LEMMA NextWrites ==
    ASSUME [Next]_nodeVars
    PROVE  UNCHANGED peer \/ PM!closeAll \/ \E c \in CallIds :
              \/ PM!AcceptCall(c) \/ PM!AcceptReturns(c) \/ PM!AcceptThrows(c)
              \/ PM!closePeer(c) \/ PM!Internal(c)
  <1>1. CASE UNCHANGED nodeVars
        BY <1>1 DEF nodeVars
  <1>2. ASSUME NEW i \in Commands, CommandArrives(i)
        PROVE  UNCHANGED peer \/ \E c \in CallIds : PM!AcceptCall(c) \/ PM!closePeer(c)
        BY <1>2 DEF CommandArrives, AcceptArrives, CandidateArrives, HangupArrives
  <1>3. ASSUME NEW i \in Commands, CommandEnds(i)
        PROVE  UNCHANGED peer \/ \E c \in CallIds : PM!AcceptReturns(c) \/ PM!AcceptThrows(c)
        BY <1>3 DEF CommandEnds, AcceptEnds, CandidateEnds, HangupEnds
  <1>4. ASSUME NEW c \in CallIds, PeerStep(c)
        PROVE  PM!Internal(c)
        BY <1>4 DEF PeerStep
  <1>5. CASE Alone(Connection)
        BY <1>5 DEF Alone
  <1>6. CASE Shutdown
        BY <1>6 DEF Shutdown
  <1>7. CASE Exit
        BY <1>7 DEF Exit
  <1>8. QED BY <1>1, <1>2, <1>3, <1>4, <1>5, <1>6, <1>7 DEF Next

\* A connection of the TypeScript node is in exactly one hand until it is closed,
\* unless its accept failed (peer-manager.ts, acceptCall, closePeer, closeAll and the
\* "peerclose" events).
THEOREM TsCustodyImplemented == Spec => ImplementsCustody
  <1>1. NodeInit => AllHeld /\ Custody!Init
    <2> SUFFICES ASSUME NodeInit PROVE AllHeld /\ Custody!Init
        OBVIOUS
    <2>1. peer = [c \in CallIds |-> PM!NoPeer]
          BY DEF NodeInit, PM!Init
    <2>2. HeldOnce(PM!NoPeer) /\ PM!NoPeer.accept = "none"
          BY DEF PM!NoPeer, HeldOnce, PM!PeerRecord
    <2>3. AllHeld
          BY <2>1, <2>2 DEF AllHeld, HeldOnce
    <2>4. Holders(PM!NoPeer) = {} /\ Open(PM!NoPeer) = FALSE /\ AcceptStage(PM!NoPeer) = "none"
          BY <2>2, HeldBy DEF AcceptStage
    <2>5. \A c \in CallIds : /\ Holders(peer[c]) = {} /\ Open(peer[c]) = FALSE
                             /\ AcceptStage(peer[c]) = "none"
          BY <2>1, <2>2, <2>4
    <2>6. Custody!Init
          BY <2>5, Zenon DEF Custody!Init
    <2>7. QED BY <2>3, <2>6
  <1>2. AllHeld /\ [Next]_nodeVars => AllHeld' /\ [Custody!Next]_(Custody!vars)
    <2> SUFFICES ASSUME AllHeld, [Next]_nodeVars
                 PROVE  AllHeld' /\ [Custody!Next]_(Custody!vars)
        OBVIOUS
    <2>1. CASE UNCHANGED peer
      <3>1. AllHeld'
            BY <2>1 DEF AllHeld
      <3>2. UNCHANGED Custody!vars
            BY <2>1 DEF Custody!vars, Open, Holders, AcceptStage
      <3>3. QED BY <3>1, <3>2
    <2>2. CASE PM!closeAll
          BY <2>2, CloseAllRefines
    <2>3. ASSUME NEW c \in CallIds, \/ PM!AcceptCall(c) \/ PM!AcceptReturns(c) \/ PM!AcceptThrows(c)
                                    \/ PM!closePeer(c) \/ PM!Internal(c)
          PROVE  AllHeld' /\ [Custody!Next]_(Custody!vars)
      <3>1. Writes(c)
            BY <2>3, AcceptWrites, ClosePeerWrites, InternalWrites
      <3>2. QED BY <3>1, WritesRefines
    <2>4. QED BY <2>1, <2>2, <2>3, NextWrites
  <1>3. QED BY <1>1, <1>2, PTL DEF Spec, ImplementsCustody, Custody!Spec
=============================================================================
