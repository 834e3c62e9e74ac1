------------------------- MODULE CallSystem_proofs -------------------------
(***************************************************************************)
(* Proofs about the gateway with its nodes.  The composition only          *)
(* restricts when the plugin's handlers go on, so all that is proved of    *)
(* the plugin holds of it.  Everything of a call is on one node (RouteInv) *)
(* and commands, connections and records agree (PlaceInv).                 *)
(***************************************************************************)
EXTENDS CallSystem, RtcPlugin_proofs

-----------------------------------------------------------------------------

\* What the nodes do on their own is invisible to the plugin.
LEMMA NodeStepsUnseen ==
    ASSUME NEW r \in Requests,
           \/ DeliverAccept(r) \/ DeliverCandidate(r) \/ DeliverHangup(r)
           \/ CommandEnds(r)
    PROVE  UNCHANGED pluginVars
  BY DEF DeliverAccept, DeliverCandidate, DeliverHangup, Delivered, CommandEnds,
         pluginVars

\* The gateway's steps are steps of the plugin.
LEMMA SystemStepIsPluginStep ==
    ASSUME SystemNext
    PROVE  PluginNext \/ UNCHANGED pluginVars
<1>1. ASSUME NEW r \in Requests, SystemArrive(r)
      PROVE  PluginNext
  BY <1>1 DEF SystemArrive, PluginNext
<1>2. ASSUME NEW r \in Requests, SystemResume(r)
      PROVE  PluginNext
  <2>1. Resume(r)
    BY <1>2 DEF SystemResume, Resume
  <2> QED
    BY <2>1 DEF PluginNext
<1>3. ASSUME NEW n \in Nodes, NodeStep(n)
      PROVE  PluginNext \/ UNCHANGED pluginVars
  <2>1. CASE NodeStart(n)
    BY <2>1 DEF NodeStart, PluginNext
  <2>2. CASE NodeLost(n)
    BY <2>2 DEF NodeLost, PluginNext
  <2>3. CASE NodeExit(n)
    BY <2>3 DEF NodeExit, pluginVars
  <2>4. CASE \E c \in CallIds : PeerStep(n, c)
    BY <2>4 DEF PeerStep, pluginVars
  <2> QED
    BY <1>3, <2>1, <2>2, <2>3, <2>4 DEF NodeStep
<1>4. CASE SystemStop
  BY <1>4 DEF SystemStop, PluginNext
<1> QED
  BY <1>1, <1>2, <1>3, <1>4, NodeStepsUnseen DEF SystemNext, RequestStep

\* The gateway and its nodes together behave as the plugin with arbitrary nodes.
THEOREM SystemUsesPlugin == SystemSpec => PluginSpec
<1>1. SystemInit => PluginInit
  BY DEF SystemInit
<1>2. [SystemNext]_systemVars => [PluginNext]_pluginVars
  <2>1. UNCHANGED systemVars => UNCHANGED pluginVars
    BY DEF systemVars, pluginVars
  <2> QED
    BY <2>1, SystemStepIsPluginStep
<1> QED
  BY <1>1, <1>2, PTL DEF SystemSpec, PluginSpec
\* What callers are told and what a hang-up does, with real nodes behind it.
THEOREM SystemKeepsPromises == SystemSpec => [](StartResponseAgrees /\ HangupTakesEffect)
  BY SystemUsesPlugin, CallersToldTruth, HangupIsFinal, PTL

-----------------------------------------------------------------------------
(* Routing.  Commands are sent to the head of the list of connected nodes;    *)
(* the invariant is that nothing of a call is ever anywhere else in the list. *)

NoDuplicates(s) == \A i, j \in 1..Len(s) : s[i] = s[j] => i = j

InHand(r) == Stage(r) \in {"sent", "running"}

RouteTypes ==
    /\ PluginTypeOK
    /\ peer \in [Nodes -> [CallIds -> PM!PeerRecord]]
    /\ serving \in [Nodes -> BOOLEAN]
    /\ invoke \in [Requests -> InvokeRecord]

\* Handlers wait for, goroutines run on, and calls live on the head of the list
\* (or on a process the gateway has lost); a process that is gone has no calls.
OnHead ==
    /\ NoDuplicates(connected)
    /\ \A r \in Requests : (Awaiting(r) /\ handlers[r].node # Undefined)
                             => handlers[r].node = findRtcNode
    /\ \A r \in Requests : (InHand(r) /\ Target(r) \in ConnectedNodes)
                             => Target(r) = findRtcNode
    /\ \A n \in Nodes : ~serving[n] => \A c \in CallIds : peer[n][c] = PM!NoPeer
    /\ \A n \in ConnectedNodes, c \in CallIds :
          peer[n][c] # PM!NoPeer => n = findRtcNode

RouteInv == RouteTypes /\ OnHead

\* Removing one element of a list.
Without(s, i) == SubSeq(s, 1, i - 1) \o SubSeq(s, i + 1, Len(s))

Removed(s, i, t) ==
    /\ NoDuplicates(t)
    /\ \A j \in 1..Len(t) : \E k \in 1..Len(s) : t[j] = s[k] /\ t[j] # s[i]
    /\ i # 1 => t # <<>> /\ Head(t) = Head(s)

LEMMA Removal ==
    ASSUME NEW s \in Seq(Nodes), NoDuplicates(s), NEW i \in 1..Len(s)
    PROVE  Removed(s, i, Without(s, i))
<1> DEFINE a == SubSeq(s, 1, i - 1)
           b == SubSeq(s, i + 1, Len(s))
           t == Without(s, i)
<1>1. /\ a \in Seq(Nodes) /\ Len(a) = i - 1
      /\ \A j \in 1..(i - 1) : a[j] = s[j]
  OBVIOUS
<1>2. /\ b \in Seq(Nodes) /\ Len(b) = Len(s) - i
      /\ \A j \in 1..(Len(s) - i) : b[j] = s[i + j]
  OBVIOUS
<1>3. /\ t \in Seq(Nodes) /\ Len(t) = Len(s) - 1
      /\ \A j \in 1..(Len(s) - 1) : t[j] = IF j < i THEN s[j] ELSE s[j + 1]
  <2> HIDE DEF a, b, t
  <2>1. Len(s) \in Nat /\ i \in Nat /\ 1 <= i /\ i <= Len(s)
    OBVIOUS
  <2>2. Len(a) + Len(b) = Len(s) - 1
    BY <1>1, <1>2, <2>1
  <2>3. t = a \o b
    BY DEF t, a, b, Without
  <2>4. /\ Len(t) = Len(s) - 1
        /\ t \in Seq(Nodes)
        /\ \A j \in 1..(Len(s) - 1) :
              t[j] = IF j <= Len(a) THEN a[j] ELSE b[j - Len(a)]
    <3>1. /\ Len(a \o b) = Len(a) + Len(b)
          /\ a \o b \in Seq(Nodes)
          /\ \A j \in 1..(Len(a) + Len(b)) :
                (a \o b)[j] = IF j <= Len(a) THEN a[j] ELSE b[j - Len(a)]
      BY <1>1, <1>2, ConcatProperties
    <3> QED
      BY ONLY <3>1, <2>2, <2>3, Zenon
  <2>5. ASSUME NEW j \in 1..(Len(s) - 1)
        PROVE  t[j] = IF j < i THEN s[j] ELSE s[j + 1]
    <3>1. CASE j < i
      <4>1. j <= Len(a) /\ j \in 1..(i - 1)
        BY <1>1, <2>1, <3>1
      <4>2. t[j] = a[j]
        BY <2>4, <4>1
      <4> QED
        BY <4>1, <4>2, <1>1, <3>1
    <3>2. CASE ~(j < i)
      <4>1. ~(j <= Len(a)) /\ j - Len(a) = j - (i - 1)
        BY <1>1, <2>1, <3>2
      <4>2. t[j] = b[j - (i - 1)]
        BY <2>4, <4>1
      <4>3. j - (i - 1) \in 1..(Len(s) - i) /\ i + (j - (i - 1)) = j + 1
        BY <2>1, <3>2
      <4> QED
        BY <4>2, <4>3, <1>2, <3>2
    <3> QED
      BY <3>1, <3>2
  <2> QED
    BY <2>4, <2>5
<1> HIDE DEF a, b, t
<1>4. /\ Len(s) \in Nat /\ i \in Nat /\ 1 <= i /\ i <= Len(s)
      /\ Len(t) = Len(s) - 1
      /\ 1..Len(t) = 1..(Len(s) - 1)
  <2>1. Len(s) \in Nat /\ i \in Nat /\ 1 <= i /\ i <= Len(s)
    OBVIOUS
  <2> QED
    BY <1>3, <2>1
<1> DEFINE from(j) == IF j < i THEN j ELSE j + 1
<1>5. ASSUME NEW j \in 1..Len(t)
      PROVE  from(j) \in 1..Len(s) /\ from(j) # i /\ t[j] = s[from(j)]
  <2>1. j \in 1..(Len(s) - 1)
    BY ONLY <1>4, <1>5
  <2>2. t[j] = IF j < i THEN s[j] ELSE s[j + 1]
    BY <1>3, <2>1
  <2> QED
    BY ONLY <1>4, <2>1, <2>2 DEF from
<1>6. ASSUME NEW j \in 1..Len(t), NEW k \in 1..Len(t), from(j) = from(k)
      PROVE  j = k
  BY <1>4, <1>6
<1> HIDE DEF from
<1>7. NoDuplicates(t)
  <2> SUFFICES ASSUME NEW j \in 1..Len(t), NEW k \in 1..Len(t), t[j] = t[k]
               PROVE  j = k
    BY DEF NoDuplicates
  <2>1. s[from(j)] = s[from(k)] /\ from(j) \in 1..Len(s) /\ from(k) \in 1..Len(s)
    BY <1>5
  <2>2. from(j) = from(k)
    BY <2>1 DEF NoDuplicates
  <2> QED
    BY <2>2, <1>6
<1>8. \A j \in 1..Len(t) : \E k \in 1..Len(s) : t[j] = s[k] /\ t[j] # s[i]
  <2> SUFFICES ASSUME NEW j \in 1..Len(t)
               PROVE  t[j] = s[from(j)] /\ s[from(j)] # s[i] /\ from(j) \in 1..Len(s)
    OBVIOUS
  <2> QED
    BY <1>5 DEF NoDuplicates
<1>9. i # 1 => t # <<>> /\ Head(t) = Head(s)
  <2> SUFFICES ASSUME i # 1
               PROVE  t # <<>> /\ Head(t) = Head(s)
    OBVIOUS
  <2>0. i # 1
    OBVIOUS
  <2>1. Len(t) >= 1 /\ 1 \in 1..(Len(s) - 1) /\ 1 < i
    BY ONLY <1>4, <2>0
  <2>2. t[1] = s[1]
    BY <1>3, <2>1
  <2>3. t # <<>> /\ s # <<>>
    BY <2>1, <1>3, <1>4
  <2> QED
    BY <2>1, <2>2, <2>3
<1> QED
  BY <1>7, <1>8, <1>9 DEF Removed, t

-----------------------------------------------------------------------------
(* What the steps do to the places *)

\* A request that arrives is sent to the head of the list, or nowhere.
LEMMA ArriveNode ==
    ASSUME RouteTypes, NEW r \in Requests, Arrive(r)
    PROVE  /\ handlers'[r].node \in {Undefined, findRtcNode}
           /\ \A q \in Requests : q # r => handlers'[q] = handlers[q]
<1>0. handlers \in [Requests -> HandlerRecord]
  BY DEF RouteTypes, PluginTypeOK
<1>1. ASSUME NEW method, NEW c, Await(r, method, c)
      PROVE  /\ handlers'[r].node = findRtcNode
             /\ \A q \in Requests : q # r => handlers'[q] = handlers[q]
  BY <1>0, <1>1 DEF Await
<1>2. ASSUME NEW method, NEW c, NEW response, Respond(r, method, c, response)
      PROVE  /\ handlers'[r].node = Undefined
             /\ \A q \in Requests : q # r => handlers'[q] = handlers[q]
  BY <1>0, <1>2 DEF Respond
<1>3. ASSUME NEW c \in CallIds, NEW method, NEW registry \in BOOLEAN,
             Forward(r, method, c, registry)
      PROVE  /\ handlers'[r].node \in {Undefined, findRtcNode}
             /\ \A q \in Requests : q # r => handlers'[q] = handlers[q]
  BY <1>1, <1>2, <1>3 DEF Forward
<1> QED
  BY <1>1, <1>2, <1>3 DEF Arrive, StartAccepted, StartRefused, IceRequest,
     HangupRequest, RequestRefused

\* A handler that goes on awaits nothing any more.
LEMMA ResumeNode ==
    ASSUME RouteTypes, NEW r \in Requests, Resume(r)
    PROVE  /\ handlers'[r].node = Undefined
           /\ \A q \in Requests : q # r => handlers'[q] = handlers[q]
<1>0. handlers \in [Requests -> HandlerRecord]
  BY DEF RouteTypes, PluginTypeOK
<1>1. ASSUME NEW outcome, NEW response, Finish(r, outcome, response)
      PROVE  /\ handlers'[r].node = Undefined
             /\ \A q \in Requests : q # r => handlers'[q] = handlers[q]
  BY <1>0, <1>1 DEF Finish, Settled, HandlerRecord
<1> QED
  BY <1>1 DEF Resume, StartAnswered, StartUnanswered, ForwardReturned, InvokeTimeout

\* Steps of connections leave what was never there as it is.
LEMMA PeerStepOld ==
    ASSUME RouteTypes, NEW n \in Nodes, NEW c \in CallIds,
           \/ PM!ClosePeer(n, c) \/ PM!ClosePeerEnd(n, c)
           \/ PM!PcFails(n, c) \/ PM!FailedCallback(n, c)
           \/ PM!AcceptReturn(n, c) \/ PM!AcceptError(n, c)
    PROVE  /\ peer' \in [Nodes -> [CallIds -> PM!PeerRecord]]
           /\ \A m \in Nodes, d \in CallIds :
                 peer[m][d] = PM!NoPeer => peer'[m][d] = PM!NoPeer
<1>0. peer \in [Nodes -> [CallIds -> PM!PeerRecord]]
  BY DEF RouteTypes
<1>1. ASSUME NEW q \in PM!PeerRecord, peer' = [peer EXCEPT ![n][c] = q],
             peer[n][c] = PM!NoPeer => q = PM!NoPeer
      PROVE  /\ peer' \in [Nodes -> [CallIds -> PM!PeerRecord]]
             /\ \A m \in Nodes, d \in CallIds :
                   peer[m][d] = PM!NoPeer => peer'[m][d] = PM!NoPeer
  BY <1>0, <1>1
<1> DEFINE p == peer[n][c]
<1>2. p \in PM!PeerRecord
  BY <1>0
<1>3. CASE PM!ClosePeer(n, c)
  <2>1. peer' = [peer EXCEPT ![n][c] = PM!Taken(p)]
    BY <1>0, <1>3 DEF PM!ClosePeer
  <2>2. PM!Taken(p) \in PM!PeerRecord
    BY <1>2 DEF PM!Taken, PM!PeerRecord
  <2>3. p = PM!NoPeer => PM!Taken(p) = PM!NoPeer
    <3> SUFFICES ASSUME p = PM!NoPeer
                 PROVE  PM!Taken(PM!NoPeer) = PM!NoPeer
      OBVIOUS
    <3>1. PM!NoPeer.stored = FALSE /\ (PM!NoPeer.closing \/ PM!NoPeer.stored) = FALSE
      BY DEF PM!NoPeer
    <3>2. PM!Taken(PM!NoPeer) = [PM!NoPeer EXCEPT !.stored = FALSE, !.closing = FALSE]
      BY <3>1 DEF PM!Taken
    <3> QED
      BY ONLY <3>2 DEF PM!NoPeer
  <2> QED
    BY <1>1, <2>1, <2>2, <2>3
<1>4. CASE PM!ClosePeerEnd(n, c)
  <2>0. p # PM!NoPeer
    BY <1>4 DEF PM!ClosePeerEnd, PM!NoPeer
  <2>1. peer' = [peer EXCEPT ![n][c] = PM!Closed(p)]
    BY <1>0, <1>4 DEF PM!ClosePeerEnd
  <2>2. PM!Closed(p) \in PM!PeerRecord
    BY <1>2 DEF PM!Closed, PM!PeerRecord
  <2> QED
    BY <1>1, <2>0, <2>1, <2>2
<1>5. CASE PM!PcFails(n, c)
  <2> DEFINE q == [p EXCEPT !.pc = "failed", !.notice = TRUE]
  <2>0. p # PM!NoPeer
    BY <1>5 DEF PM!PcFails, PM!NoPeer
  <2>1. peer' = [peer EXCEPT ![n][c] = q]
    BY <1>0, <1>5 DEF PM!PcFails
  <2>2. q \in PM!PeerRecord
    BY <1>2 DEF PM!PeerRecord
  <2> QED
    BY <1>1, <2>0, <2>1, <2>2
<1>6. CASE PM!FailedCallback(n, c)
  <2> DEFINE q == [PM!Taken(p) EXCEPT !.notice = FALSE]
  <2>0. p # PM!NoPeer
    BY <1>6 DEF PM!FailedCallback, PM!NoPeer
  <2>1. peer' = [peer EXCEPT ![n][c] = q]
    BY <1>0, <1>6 DEF PM!FailedCallback
  <2>2. q \in PM!PeerRecord
    BY <1>2 DEF PM!Taken, PM!PeerRecord
  <2> QED
    BY <1>1, <2>0, <2>1, <2>2
<1>7. CASE PM!AcceptReturn(n, c)
  <2> DEFINE q == [p EXCEPT !.accept = "returned", !.stored = TRUE]
  <2>0. p # PM!NoPeer
    BY <1>7 DEF PM!AcceptReturn, PM!NoPeer
  <2>1. peer' = [peer EXCEPT ![n][c] = q]
    BY <1>0, <1>7 DEF PM!AcceptReturn
  <2>2. q \in PM!PeerRecord
    BY <1>2 DEF PM!PeerRecord
  <2> QED
    BY <1>1, <2>0, <2>1, <2>2
<1>8. CASE PM!AcceptError(n, c)
  <2> DEFINE q == [p EXCEPT !.accept = "failed", !.pc = "closed", !.notice = FALSE]
  <2>0. p # PM!NoPeer
    BY <1>8 DEF PM!AcceptError, PM!NoPeer
  <2>1. peer' = [peer EXCEPT ![n][c] = q]
    BY <1>0, <1>8 DEF PM!AcceptError
  <2>2. q \in PM!PeerRecord
    BY <1>2 DEF PM!PeerRecord
  <2> QED
    BY <1>1, <2>0, <2>1, <2>2
<1> QED
  BY <1>3, <1>4, <1>5, <1>6, <1>7, <1>8

\* The same wherever the command says the call is.
LEMMA PeerStepAnywhere ==
    ASSUME RouteTypes, NEW n, NEW c,
           \/ PM!ClosePeer(n, c) \/ PM!ClosePeerEnd(n, c)
           \/ PM!PcFails(n, c) \/ PM!FailedCallback(n, c)
           \/ PM!AcceptReturn(n, c) \/ PM!AcceptError(n, c)
    PROVE  /\ peer' \in [Nodes -> [CallIds -> PM!PeerRecord]]
           /\ \A m \in Nodes, d \in CallIds :
                 peer[m][d] = PM!NoPeer => peer'[m][d] = PM!NoPeer
<1>1. CASE n \in Nodes /\ c \in CallIds
  BY <1>1, PeerStepOld
<1>2. CASE ~(n \in Nodes /\ c \in CallIds)
  <2>0. peer \in [Nodes -> [CallIds -> PM!PeerRecord]]
    BY DEF RouteTypes
  <2>1. ASSUME NEW q, peer' = [peer EXCEPT ![n][c] = q]
        PROVE  peer' = peer
    BY <1>2, <2>0, <2>1
  <2>2. \E q : peer' = [peer EXCEPT ![n][c] = q]
    <3>1. CASE PM!ClosePeer(n, c)
      BY <3>1 DEF PM!ClosePeer
    <3>2. CASE PM!ClosePeerEnd(n, c)
      BY <3>2 DEF PM!ClosePeerEnd
    <3>3. CASE PM!PcFails(n, c)
      BY <3>3 DEF PM!PcFails
    <3>4. CASE PM!FailedCallback(n, c)
      BY <3>4 DEF PM!FailedCallback
    <3>5. CASE PM!AcceptReturn(n, c)
      BY <3>5 DEF PM!AcceptReturn
    <3>6. CASE PM!AcceptError(n, c)
      BY <3>6 DEF PM!AcceptError
    <3> QED
      BY <3>1, <3>2, <3>3, <3>4, <3>5, <3>6
  <2>3. peer' = peer
    BY <2>1, <2>2
  <2> QED
    BY <2>0, <2>3
<1> QED
  BY <1>1, <1>2

\* What a step of the node side does to the commands: none gets in hand.
LEMMA NowStage ==
    ASSUME RouteTypes, NEW r \in Requests, Stage(r) \in {"sent", "running"},
           NEW stage \in {"running", "ok", "error"}, Now(r, stage)
    PROVE  /\ invoke' \in [Requests -> InvokeRecord]
           /\ \A q \in Requests : /\ invoke'[q].node = invoke[q].node
                                  /\ InHand(q)' => InHand(q)
<1>1. invoke \in [Requests -> InvokeRecord]
  BY DEF RouteTypes
<1>2. invoke' = [invoke EXCEPT ![r] = [invoke[r] EXCEPT !.stage = stage]]
  BY <1>1 DEF Now
<1>3. [invoke[r] EXCEPT !.stage = stage] \in InvokeRecord
  BY <1>1 DEF InvokeRecord
<1>4. invoke' \in [Requests -> InvokeRecord]
  BY <1>1, <1>2, <1>3
<1>5. ASSUME NEW q \in Requests
      PROVE  /\ invoke'[q].node = invoke[q].node
             /\ InHand(q)' => InHand(q)
  <2>1. CASE q = r
    BY <1>1, <1>2, <2>1 DEF InvokeRecord, InHand, Stage
  <2>2. CASE q # r
    BY <1>1, <1>2, <2>2 DEF InHand, Stage
  <2> QED
    BY <2>1, <2>2
<1> QED
  BY <1>4, <1>5

LEMMA LoseStage ==
    ASSUME RouteTypes, NEW n \in Nodes, LoseCommands(n)
    PROVE  /\ invoke' \in [Requests -> InvokeRecord]
           /\ \A q \in Requests : /\ invoke'[q].node = invoke[q].node
                                  /\ InHand(q)' => InHand(q) /\ Target(q) # n
<1>1. invoke \in [Requests -> InvokeRecord]
  BY DEF RouteTypes
<1>2. ASSUME NEW q \in Requests
      PROVE  /\ invoke'[q] \in InvokeRecord
             /\ invoke'[q].node = invoke[q].node
             /\ InHand(q)' => InHand(q) /\ Target(q) # n
  <2>1. invoke'[q] = IF Target(q) = n /\ Stage(q) \in {"sent", "running"}
                     THEN [invoke[q] EXCEPT !.stage = "lost"] ELSE invoke[q]
    BY DEF LoseCommands
  <2>2. invoke[q] \in InvokeRecord
    BY <1>1
  <2> QED
    BY <2>1, <2>2 DEF InvokeRecord, InHand, Stage, Target
<1>3. invoke' \in [Requests -> InvokeRecord]
  BY <1>2 DEF LoseCommands
<1> QED
  BY <1>2, <1>3

\* A step of the node side that starts no accept: nothing new is anywhere.
LEMMA QuietStep ==
    ASSUME RouteInv,
           UNCHANGED <<handlers, connected, serving>>,
           peer' \in [Nodes -> [CallIds -> PM!PeerRecord]],
           \A m \in Nodes, d \in CallIds :
              peer[m][d] = PM!NoPeer => peer'[m][d] = PM!NoPeer,
           \A q \in Requests : /\ invoke'[q].node = invoke[q].node
                               /\ InHand(q)' => InHand(q)
    PROVE  OnHead'
<1>1. connected \in Seq(Nodes)
  BY DEF RouteInv, RouteTypes, PluginTypeOK
<1>2. ConnectedNodes \subseteq Nodes /\ ConnectedNodes' = ConnectedNodes
      /\ findRtcNode' = findRtcNode
  BY <1>1 DEF ConnectedNodes, findRtcNode
<1>3. NoDuplicates(connected)'
  BY DEF RouteInv, OnHead, NoDuplicates
<1>4. \A r \in Requests : (Awaiting(r)' /\ handlers'[r].node # Undefined)
                           => handlers'[r].node = findRtcNode
  BY DEF RouteInv, OnHead, Awaiting
<1>5. \A r \in Requests : (InHand(r)' /\ invoke'[r].node \in ConnectedNodes)
                           => invoke'[r].node = findRtcNode
  BY DEF RouteInv, OnHead, Target
<1>6. \A n \in Nodes : ~serving'[n] => \A c \in CallIds : peer'[n][c] = PM!NoPeer
  BY DEF RouteInv, OnHead
<1>7. \A n \in ConnectedNodes, c \in CallIds :
          peer'[n][c] # PM!NoPeer => n = findRtcNode
  BY <1>2 DEF RouteInv, OnHead
<1> QED
  BY <1>2, <1>3, <1>4, <1>5, <1>6, <1>7 DEF OnHead, Target

\* A request arrives.
LEMMA ArriveOnHead ==
    ASSUME RouteInv, NEW r \in Requests, SystemArrive(r)
    PROVE  OnHead' /\ invoke' \in [Requests -> InvokeRecord]
<1>1. /\ connected \in Seq(Nodes) /\ invoke \in [Requests -> InvokeRecord]
      /\ RouteTypes /\ PluginTypeOK
  BY DEF RouteInv, RouteTypes, PluginTypeOK
<1>2. UNCHANGED <<connected, peer, serving>>
  BY <1>1, ArriveHandlers DEF SystemArrive
<1>3. ConnectedNodes' = ConnectedNodes /\ findRtcNode' = findRtcNode
  BY <1>2 DEF ConnectedNodes, findRtcNode
<1>4. /\ handlers'[r].node \in {Undefined, findRtcNode}
      /\ \A q \in Requests : q # r => handlers'[q] = handlers[q]
  BY <1>1, ArriveNode DEF SystemArrive
<1>5. SentBy(handlers'[r]) \in InvokeRecord
  BY <1>1, <1>4, findRtcNodeType DEF SentBy, NoInvoke, InvokeRecord
<1>6. /\ invoke' \in [Requests -> InvokeRecord]
      /\ invoke'[r] = SentBy(handlers'[r])
      /\ \A q \in Requests : q # r => invoke'[q] = invoke[q]
  BY <1>1, <1>5 DEF SystemArrive
<1>7. \A q \in Requests : (Awaiting(q)' /\ handlers'[q].node # Undefined)
                           => handlers'[q].node = findRtcNode
  BY <1>4 DEF RouteInv, OnHead, Awaiting
<1>8. \A q \in Requests : (InHand(q)' /\ invoke'[q].node \in ConnectedNodes)
                           => invoke'[q].node = findRtcNode
  <2>1. InHand(r)' => invoke'[r].node = findRtcNode
    BY <1>4, <1>6 DEF SentBy, NoInvoke, InHand, Stage
  <2>2. ASSUME NEW q \in Requests, q # r
        PROVE  (InHand(q)' /\ invoke'[q].node \in ConnectedNodes)
                  => invoke'[q].node = findRtcNode
    BY <1>6, <2>2 DEF RouteInv, OnHead, InHand, Stage, Target
  <2> QED
    BY <2>1, <2>2
<1>9. NoDuplicates(connected)'
  BY <1>2 DEF RouteInv, OnHead, NoDuplicates
<1>10. \A n \in Nodes : ~serving'[n] => \A c \in CallIds : peer'[n][c] = PM!NoPeer
  BY <1>2 DEF RouteInv, OnHead
<1>11. \A n \in ConnectedNodes, c \in CallIds :
          peer'[n][c] # PM!NoPeer => n = findRtcNode
  BY <1>2 DEF RouteInv, OnHead
<1> QED
  BY <1>3, <1>6, <1>7, <1>8, <1>9, <1>10, <1>11 DEF OnHead, Target

\* A handler goes on.
LEMMA ResumeOnHead ==
    ASSUME RouteInv, NEW r \in Requests, SystemResume(r)
    PROVE  OnHead'
<1>1. RouteTypes /\ PluginTypeOK
  BY DEF RouteInv, RouteTypes
<1>2. Resume(r)
  BY DEF SystemResume, Resume
<1>3. UNCHANGED <<connected, peer, serving, invoke>>
  BY <1>1, <1>2, ResumeHandlers DEF SystemResume
<1>4. /\ handlers'[r].node = Undefined
      /\ \A q \in Requests : q # r => handlers'[q] = handlers[q]
  BY <1>1, <1>2, ResumeNode
<1>5. \A q \in Requests : (Awaiting(q)' /\ handlers'[q].node # Undefined)
                           => handlers'[q].node = findRtcNode
  BY <1>4 DEF RouteInv, OnHead, Awaiting
<1> QED
  BY <1>3, <1>5 DEF RouteInv, OnHead, NoDuplicates, ConnectedNodes, findRtcNode,
     InHand, Stage, Target

\* A node takes up an accept: it is the head, if the gateway has it at all.
LEMMA AcceptOnHead ==
    ASSUME RouteInv, NEW r \in Requests, DeliverAccept(r)
    PROVE  /\ OnHead'
           /\ peer' \in [Nodes -> [CallIds -> PM!PeerRecord]]
           /\ invoke' \in [Requests -> InvokeRecord]
<1> DEFINE n == Target(r)
           c == CallOf(r)
           q == [peer[n][c] EXCEPT !.accept = "gathering", !.pc = "open"]
<1>1. /\ RouteTypes
      /\ peer \in [Nodes -> [CallIds -> PM!PeerRecord]]
      /\ connected \in Seq(Nodes)
  BY DEF RouteInv, RouteTypes, PluginTypeOK
<1>2. /\ UNCHANGED <<handlers, connected, serving>>
      /\ Stage(r) = "sent" /\ serving[n]
      /\ Now(r, "running") /\ PM!AcceptCall(n, c)
  BY DEF DeliverAccept, Delivered
<1>3. /\ invoke' \in [Requests -> InvokeRecord]
      /\ \A p \in Requests : /\ invoke'[p].node = invoke[p].node
                             /\ InHand(p)' => InHand(p)
  BY <1>1, <1>2, NowStage
<1>4. peer' = [peer EXCEPT ![n][c] = q]
  BY <1>1, <1>2 DEF PM!AcceptCall
<1>5. peer' \in [Nodes -> [CallIds -> PM!PeerRecord]]
  <2>1. ASSUME n \in Nodes, c \in CallIds
        PROVE  q \in PM!PeerRecord
    <3>1. peer[n][c] \in PM!PeerRecord
      BY <1>1, <2>1
    <3> HIDE DEF n, c
    <3> QED
      BY <3>1 DEF PM!PeerRecord
  <2> HIDE DEF q, n, c
  <2> QED
    BY <1>1, <1>4, <2>1
<1>6. \A m \in Nodes, d \in CallIds : m # n => peer'[m][d] = peer[m][d]
  <2> HIDE DEF q, n, c
  <2> QED
    BY <1>1, <1>4
<1>7. n \in ConnectedNodes => n = findRtcNode
  BY <1>2 DEF RouteInv, OnHead, InHand
<1>8. ConnectedNodes \subseteq Nodes /\ ConnectedNodes' = ConnectedNodes
      /\ findRtcNode' = findRtcNode
  BY <1>1, <1>2 DEF ConnectedNodes, findRtcNode
<1> HIDE DEF n, c, q
<1>9. NoDuplicates(connected)'
  BY <1>2 DEF RouteInv, OnHead, NoDuplicates
<1>10. \A p \in Requests : (Awaiting(p)' /\ handlers'[p].node # Undefined)
                           => handlers'[p].node = findRtcNode
  BY <1>2 DEF RouteInv, OnHead, Awaiting
<1>11. \A p \in Requests : (InHand(p)' /\ invoke'[p].node \in ConnectedNodes)
                           => invoke'[p].node = findRtcNode
  BY <1>3 DEF RouteInv, OnHead, Target
<1>12. \A m \in Nodes : ~serving'[m] => \A d \in CallIds : peer'[m][d] = PM!NoPeer
  BY <1>2, <1>6 DEF RouteInv, OnHead
<1>13. \A m \in ConnectedNodes, d \in CallIds :
          peer'[m][d] # PM!NoPeer => m = findRtcNode
  BY <1>6, <1>7, <1>8 DEF RouteInv, OnHead
<1> QED
  BY <1>3, <1>5, <1>8, <1>9, <1>10, <1>11, <1>12, <1>13 DEF OnHead, Target

\* The other steps of the nodes.
LEMMA NodeSideOnHead ==
    ASSUME RouteInv,
           \/ \E r \in Requests : \/ DeliverCandidate(r) \/ DeliverHangup(r)
                                  \/ CommandEnds(r)
           \/ \E n \in Nodes, c \in CallIds : PeerStep(n, c)
    PROVE  /\ OnHead'
           /\ peer' \in [Nodes -> [CallIds -> PM!PeerRecord]]
           /\ invoke' \in [Requests -> InvokeRecord]
<1>1. /\ RouteTypes
      /\ peer \in [Nodes -> [CallIds -> PM!PeerRecord]]
      /\ invoke \in [Requests -> InvokeRecord]
      /\ handlers \in [Requests -> HandlerRecord]
  BY DEF RouteInv, RouteTypes, PluginTypeOK
<1>2. UNCHANGED <<handlers, connected, serving>>
  BY DEF DeliverCandidate, DeliverHangup, CommandEnds, PeerStep, Delivered
<1>3. ASSUME NEW r \in Requests,
             DeliverCandidate(r) \/ DeliverHangup(r) \/ CommandEnds(r)
      PROVE  /\ invoke' \in [Requests -> InvokeRecord]
             /\ \A q \in Requests : /\ invoke'[q].node = invoke[q].node
                                    /\ InHand(q)' => InHand(q)
  <2>1. Stage(r) \in {"sent", "running"}
    BY <1>3 DEF DeliverCandidate, DeliverHangup, CommandEnds, Delivered
  <2>2. \E stage \in {"running", "ok", "error"} : Now(r, stage)
    BY <1>3 DEF DeliverCandidate, DeliverHangup, CommandEnds
  <2> QED
    BY <1>1, <2>1, <2>2, NowStage
<1>4. ASSUME NEW r \in Requests,
             DeliverCandidate(r) \/ DeliverHangup(r) \/ CommandEnds(r)
      PROVE  \/ UNCHANGED peer
             \/ \E n, c : \/ PM!ClosePeer(n, c) \/ PM!AcceptReturn(n, c)
                          \/ PM!AcceptError(n, c)
  BY <1>4 DEF DeliverCandidate, DeliverHangup, CommandEnds
<1>5. ASSUME NEW n \in Nodes, NEW c \in CallIds, PeerStep(n, c)
      PROVE  /\ UNCHANGED invoke
             /\ PM!ClosePeerEnd(n, c) \/ PM!PcFails(n, c) \/ PM!FailedCallback(n, c)
  BY <1>5 DEF PeerStep
<1>6. /\ peer' \in [Nodes -> [CallIds -> PM!PeerRecord]]
      /\ \A m \in Nodes, d \in CallIds :
            peer[m][d] = PM!NoPeer => peer'[m][d] = PM!NoPeer
  BY <1>1, <1>4, <1>5, PeerStepAnywhere
<1>7. /\ invoke' \in [Requests -> InvokeRecord]
      /\ \A q \in Requests : /\ invoke'[q].node = invoke[q].node
                             /\ InHand(q)' => InHand(q)
  BY <1>1, <1>3, <1>5 DEF InHand, Stage
<1> QED
  BY <1>2, <1>6, <1>7, QuietStep

\* A process starts: at the end of the list, with nothing in hand.
LEMMA StartOnHead ==
    ASSUME RouteInv, NEW n \in Nodes, NodeStart(n)
    PROVE  /\ OnHead'
           /\ serving' \in [Nodes -> BOOLEAN]
           /\ invoke' \in [Requests -> InvokeRecord]
<1>1. /\ RouteTypes
      /\ connected \in Seq(Nodes) /\ serving \in [Nodes -> BOOLEAN]
  BY DEF RouteInv, RouteTypes, PluginTypeOK
<1>2. /\ ~serving[n] /\ n \notin ConnectedNodes
      /\ connected' = Append(connected, n)
      /\ serving' = [serving EXCEPT ![n] = TRUE]
      /\ LoseCommands(n)
      /\ UNCHANGED <<handlers, peer>>
  BY DEF NodeStart, NodeConnect
<1>3. /\ invoke' \in [Requests -> InvokeRecord]
      /\ \A q \in Requests : /\ invoke'[q].node = invoke[q].node
                             /\ InHand(q)' => InHand(q) /\ Target(q) # n
  BY <1>1, <1>2, LoseStage
<1>4. /\ ConnectedNodes' = ConnectedNodes \cup {n}
      /\ ConnectedNodes \subseteq Nodes
      /\ NoDuplicates(connected)'
  BY <1>1, <1>2 DEF ConnectedNodes, RouteInv, OnHead, NoDuplicates
<1>5. /\ findRtcNode # Undefined => findRtcNode' = findRtcNode
      /\ findRtcNode = Undefined <=> ConnectedNodes = {}
  <2>1. CASE connected = <<>>
    BY <2>1 DEF findRtcNode, ConnectedNodes
  <2>2. CASE connected # <<>>
    <3>1. Len(connected) \in Nat /\ Len(connected) >= 1 /\ Head(connected) = connected[1]
      BY <1>1, <2>2
    <3>2. connected[1] \in Nodes /\ connected[1] # Undefined
      BY <1>1, <3>1, PluginAssumption
    <3>3. connected[1] \in ConnectedNodes
      <4>1. 1 \in 1..Len(connected)
        BY <3>1
      <4> QED
        BY <4>1 DEF ConnectedNodes
    <3>4. Append(connected, n) # <<>> /\ Head(Append(connected, n)) = connected[1]
      BY <1>1, <3>1
    <3> QED
      BY <1>2, <2>2, <3>1, <3>2, <3>3, <3>4 DEF findRtcNode
  <2> QED
    BY <2>1, <2>2
<1>6. \A r \in Requests : (Awaiting(r)' /\ handlers'[r].node # Undefined)
                           => handlers'[r].node = findRtcNode'
  BY <1>2, <1>5 DEF RouteInv, OnHead, Awaiting
<1>7. \A r \in Requests : (InHand(r)' /\ invoke'[r].node \in ConnectedNodes')
                           => invoke'[r].node = findRtcNode'
  <2> SUFFICES ASSUME NEW r \in Requests, InHand(r)', invoke'[r].node \in ConnectedNodes'
               PROVE  invoke'[r].node = findRtcNode'
    OBVIOUS
  <2>1. InHand(r) /\ Target(r) = invoke'[r].node /\ Target(r) \in ConnectedNodes
    BY <1>3, <1>4 DEF Target
  <2> QED
    BY <2>1, <1>5 DEF RouteInv, OnHead
<1>8. \A m \in Nodes : ~serving'[m] => \A c \in CallIds : peer'[m][c] = PM!NoPeer
  BY <1>1, <1>2 DEF RouteInv, OnHead
<1>9. \A m \in ConnectedNodes', c \in CallIds :
          peer'[m][c] # PM!NoPeer => m = findRtcNode'
  <2> SUFFICES ASSUME NEW m \in ConnectedNodes', NEW c \in CallIds,
                      peer'[m][c] # PM!NoPeer
               PROVE  m = findRtcNode'
    OBVIOUS
  <2>1. m # n
    BY <1>2 DEF RouteInv, OnHead
  <2> QED
    BY <2>1, <1>2, <1>4, <1>5 DEF RouteInv, OnHead
<1>10. serving' \in [Nodes -> BOOLEAN]
  BY <1>1, <1>2
<1> QED
  BY <1>3, <1>4, <1>6, <1>7, <1>8, <1>9, <1>10 DEF OnHead, Target

\* The gateway loses a node: the calls on the old head are off the list.
LEMMA LostOnHead ==
    ASSUME RouteInv, NEW n \in Nodes, NodeLost(n)
    PROVE  OnHead'
<1>1. /\ connected \in Seq(Nodes)
      /\ handlers \in [Requests -> HandlerRecord]
      /\ UNCHANGED <<peer, serving, invoke>>
  BY DEF RouteInv, RouteTypes, PluginTypeOK, NodeLost
<1>2. PICK i \in 1..Len(connected) :
         /\ connected[i] = n
         /\ connected' = SubSeq(connected, 1, i - 1)
                             \o SubSeq(connected, i + 1, Len(connected))
  BY DEF NodeLost, NodeDisconnect
<1>3. /\ NoDuplicates(connected)'
      /\ \A j \in 1..Len(connected') :
            \E k \in 1..Len(connected) :
               connected'[j] = connected[k] /\ connected'[j] # connected[i]
      /\ i # 1 => connected' # <<>> /\ Head(connected') = Head(connected)
  <2>1. NoDuplicates(connected)
    BY DEF RouteInv, OnHead
  <2>2. Removed(connected, i, Without(connected, i))
    BY <1>1, <2>1, Removal
  <2>3. connected' = Without(connected, i)
    BY <1>2 DEF Without
  <2>4. Removed(connected, i, connected')
    BY <2>2, <2>3
  <2> QED
    BY <2>4 DEF Removed, NoDuplicates
<1>4. ConnectedNodes' \subseteq ConnectedNodes \ {n}
  BY <1>2, <1>3 DEF ConnectedNodes
<1>5. findRtcNode # n => findRtcNode' = findRtcNode
  <2>1. connected # <<>> /\ findRtcNode = connected[1]
    BY <1>1, <1>2 DEF findRtcNode
  <2>2. i = 1 => findRtcNode = n
    BY <1>2, <2>1
  <2> QED
    BY <1>3, <2>1, <2>2 DEF findRtcNode
<1>6. ASSUME NEW r \in Requests, Awaiting(r)', handlers'[r].node # Undefined
      PROVE  handlers'[r].node = findRtcNode'
  <2>1. handlers'[r] = IF Awaiting(r) /\ handlers[r].node = n
                       THEN Settled(handlers[r], "reject", "error") ELSE handlers[r]
    BY DEF NodeLost, NodeDisconnect
  <2>2. Settled(handlers[r], "reject", "error").outcome = "reject"
    BY <1>1 DEF Settled, HandlerRecord
  <2>3. handlers'[r] = handlers[r] /\ Awaiting(r) /\ handlers[r].node # n
    BY <1>6, <2>1, <2>2 DEF Awaiting
  <2>4. handlers[r].node = findRtcNode
    BY <1>6, <2>3 DEF RouteInv, OnHead
  <2> QED
    BY <2>3, <2>4, <1>5
<1>7. ASSUME NEW r \in Requests, InHand(r)', invoke'[r].node \in ConnectedNodes'
      PROVE  invoke'[r].node = findRtcNode'
  <2>1. InHand(r) /\ Target(r) = invoke'[r].node /\ Target(r) \in ConnectedNodes \ {n}
    BY <1>1, <1>4, <1>7 DEF InHand, Stage, Target
  <2>2. Target(r) = findRtcNode
    BY <2>1 DEF RouteInv, OnHead
  <2> QED
    BY <2>1, <2>2, <1>5
<1>8. \A m \in Nodes : ~serving'[m] => \A c \in CallIds : peer'[m][c] = PM!NoPeer
  BY <1>1 DEF RouteInv, OnHead
<1>9. \A m \in ConnectedNodes', c \in CallIds :
          peer'[m][c] # PM!NoPeer => m = findRtcNode'
  BY <1>1, <1>4, <1>5 DEF RouteInv, OnHead
<1> QED
  BY <1>3, <1>6, <1>7, <1>8, <1>9 DEF OnHead, Target

\* A process ends: its calls end with it.
LEMMA ExitOnHead ==
    ASSUME RouteInv, NEW n \in Nodes, NodeExit(n)
    PROVE  /\ OnHead'
           /\ peer' \in [Nodes -> [CallIds -> PM!PeerRecord]]
           /\ serving' \in [Nodes -> BOOLEAN]
           /\ invoke' \in [Requests -> InvokeRecord]
<1>1. /\ RouteTypes
      /\ peer \in [Nodes -> [CallIds -> PM!PeerRecord]]
      /\ connected \in Seq(Nodes) /\ serving \in [Nodes -> BOOLEAN]
  BY DEF RouteInv, RouteTypes, PluginTypeOK
<1>2. /\ serving' = [serving EXCEPT ![n] = FALSE]
      /\ peer' = [peer EXCEPT ![n] = [c \in CallIds |-> PM!NoPeer]]
      /\ LoseCommands(n)
      /\ UNCHANGED <<handlers, connected>>
  BY DEF NodeExit
<1>3. /\ invoke' \in [Requests -> InvokeRecord]
      /\ \A q \in Requests : /\ invoke'[q].node = invoke[q].node
                             /\ InHand(q)' => InHand(q) /\ Target(q) # n
  BY <1>1, <1>2, LoseStage
<1>4. PM!NoPeer \in PM!PeerRecord
  BY DEF PM!NoPeer, PM!PeerRecord
<1>5. peer' \in [Nodes -> [CallIds -> PM!PeerRecord]]
  BY <1>1, <1>2, <1>4
<1>6. serving' \in [Nodes -> BOOLEAN]
  BY <1>1, <1>2
<1>7. ASSUME NEW m \in Nodes, NEW c \in CallIds, peer'[m][c] # PM!NoPeer
      PROVE  m # n /\ peer[m][c] # PM!NoPeer
  BY <1>1, <1>2, <1>7
<1>8. ConnectedNodes \subseteq Nodes /\ ConnectedNodes' = ConnectedNodes
      /\ findRtcNode' = findRtcNode
  BY <1>1, <1>2 DEF ConnectedNodes, findRtcNode
<1>9. NoDuplicates(connected)'
  BY <1>2 DEF RouteInv, OnHead, NoDuplicates
<1>10. \A r \in Requests : (Awaiting(r)' /\ handlers'[r].node # Undefined)
                            => handlers'[r].node = findRtcNode
  BY <1>2 DEF RouteInv, OnHead, Awaiting
<1>11. \A r \in Requests : (InHand(r)' /\ invoke'[r].node \in ConnectedNodes)
                            => invoke'[r].node = findRtcNode
  BY <1>3 DEF RouteInv, OnHead, Target
<1>12. \A m \in Nodes : ~serving'[m] => \A c \in CallIds : peer'[m][c] = PM!NoPeer
  BY <1>1, <1>2 DEF RouteInv, OnHead
<1>13. \A m \in ConnectedNodes, c \in CallIds :
          peer'[m][c] # PM!NoPeer => m = findRtcNode
  BY <1>7, <1>8 DEF RouteInv, OnHead
<1> QED
  BY <1>3, <1>5, <1>6, <1>8, <1>9, <1>10, <1>11, <1>12, <1>13 DEF OnHead, Target

-----------------------------------------------------------------------------

LEMMA InitRouteInv == SystemInit => RouteInv
<1> SUFFICES ASSUME SystemInit
             PROVE  RouteInv
  OBVIOUS
<1>1. PluginTypeOK
  BY NoRecordType DEF SystemInit, PluginInit, PluginTypeOK, Init, TypeOK, NoRequest,
     HandlerRecord, Awaiting
<1>2. /\ peer \in [Nodes -> [CallIds -> PM!PeerRecord]]
      /\ \A n \in Nodes, c \in CallIds : peer[n][c] = PM!NoPeer
  BY DEF SystemInit, PM!Init, PM!PeerRecord, PM!NoPeer
<1>3. /\ serving \in [Nodes -> BOOLEAN]
      /\ invoke \in [Requests -> InvokeRecord]
      /\ \A r \in Requests : ~InHand(r) /\ ~Awaiting(r)
  BY DEF SystemInit, PluginInit, NoInvoke, InvokeRecord, NoRequest, InHand, Stage, Awaiting
<1>4. ConnectedNodes = {} /\ NoDuplicates(connected)
  BY DEF SystemInit, PluginInit, ConnectedNodes, NoDuplicates
<1> QED
  BY <1>1, <1>2, <1>3, <1>4 DEF RouteInv, RouteTypes, OnHead

LEMMA StepRouteInv == RouteInv /\ [SystemNext]_systemVars => RouteInv'
<1> SUFFICES ASSUME RouteInv, [SystemNext]_systemVars
             PROVE  RouteInv'
  OBVIOUS
<1>0. /\ peer \in [Nodes -> [CallIds -> PM!PeerRecord]]
      /\ serving \in [Nodes -> BOOLEAN]
      /\ invoke \in [Requests -> InvokeRecord]
      /\ PluginTypeOK
  BY DEF RouteInv, RouteTypes
<1>1. PluginTypeOK'
  <2>1. UNCHANGED systemVars => UNCHANGED pluginVars
    BY DEF systemVars, pluginVars
  <2> QED
    BY <1>0, <2>1, SystemStepIsPluginStep, StepPluginTypeOK
<1> DEFINE Kept == /\ OnHead'
                   /\ peer' \in [Nodes -> [CallIds -> PM!PeerRecord]]
                   /\ serving' \in [Nodes -> BOOLEAN]
                   /\ invoke' \in [Requests -> InvokeRecord]
<1>2. ASSUME UNCHANGED systemVars \/ SystemStop
      PROVE  Kept
  <2>1. UNCHANGED <<handlers, connected, peer, serving, invoke>>
    BY <1>2 DEF systemVars, SystemStop, ServiceStop
  <2>2. OnHead'
    BY <2>1 DEF RouteInv, OnHead, NoDuplicates, ConnectedNodes, findRtcNode,
       InHand, Stage, Target, Awaiting
  <2> QED
    BY <1>0, <2>1, <2>2
<1>3. ASSUME NEW r \in Requests, SystemArrive(r)
      PROVE  Kept
  BY <1>0, <1>3, ArriveOnHead DEF SystemArrive
<1>4. ASSUME NEW r \in Requests, SystemResume(r)
      PROVE  Kept
  BY <1>0, <1>4, ResumeOnHead DEF SystemResume
<1>5. ASSUME NEW r \in Requests, DeliverAccept(r)
      PROVE  Kept
  BY <1>0, <1>5, AcceptOnHead DEF DeliverAccept, Delivered
<1>6. ASSUME NEW r \in Requests,
             DeliverCandidate(r) \/ DeliverHangup(r) \/ CommandEnds(r)
      PROVE  Kept
  BY <1>0, <1>6, NodeSideOnHead
     DEF DeliverCandidate, DeliverHangup, CommandEnds, Delivered
<1>7. ASSUME NEW n \in Nodes, NodeStep(n)
      PROVE  Kept
  <2>1. CASE NodeStart(n)
    BY <1>0, <2>1, StartOnHead DEF NodeStart
  <2>2. CASE NodeLost(n)
    BY <1>0, <2>2, LostOnHead DEF NodeLost
  <2>3. CASE NodeExit(n)
    BY <2>3, ExitOnHead
  <2>4. CASE \E c \in CallIds : PeerStep(n, c)
    BY <1>0, <2>4, NodeSideOnHead DEF PeerStep
  <2> QED
    BY <1>7, <2>1, <2>2, <2>3, <2>4 DEF NodeStep
<1> HIDE DEF Kept
<1>8. Kept
  BY <1>2, <1>3, <1>4, <1>5, <1>6, <1>7 DEF SystemNext, RequestStep
<1> QED
  BY <1>1, <1>8 DEF RouteInv, RouteTypes, Kept

\* Everything of a call is on one node of the list, the head.
THEOREM OneNodePerCall == SystemSpec => []RouteInv
  BY InitRouteInv, StepRouteInv, PTL DEF SystemSpec

\* However nodes come and go, a command is never sent past the node that serves
\* its call.
THEOREM CommandsFindTheirCall == SystemSpec => []CommandsReachTheCall
<1>1. RouteInv => CommandsReachTheCall
  <2> SUFFICES ASSUME RouteInv, NEW r \in Requests, NEW n \in ConnectedNodes,
                      Awaiting(r), handlers[r].node # Undefined,
                      peer[n][CallOf(r)] # PM!NoPeer
               PROVE  n = handlers[r].node
    BY DEF CommandsReachTheCall
  <2>1. CallOf(r) \in CallIds
    BY DEF RouteInv, RouteTypes, PluginTypeOK, HandlerRecord, CallOf
  <2> QED
    BY <2>1 DEF RouteInv, OnHead
<1> QED
  BY <1>1, OneNodePerCall, PTL

-----------------------------------------------------------------------------
(* Connections, commands and records.  Every connection that is being set up   *)
(* has its command, every command that sets one up its connection; a hang-up   *)
(* that reached the node left nothing open of a call that was answered.        *)

SoundPeer(p) ==
    /\ p \in PM!PeerRecord
    /\ p.accept = "none" <=> p.pc = "none"
    /\ p.accept = "none" => ~p.stored /\ ~p.closing /\ ~p.notice
    /\ p.accept = "gathering" => p.pc \in {"open", "failed"} /\ ~p.stored /\ ~p.closing
    /\ p.accept = "failed" => p.pc = "closed" /\ ~p.stored /\ ~p.closing
    /\ (p.accept = "returned" /\ ~p.stored) => p.pc = "closed" \/ p.closing
    /\ p.notice => p.pc # "open"
    /\ p.track \notin {"recording", "replaying"}
    /\ ~p.attached

\* r is the accept that sets up call c on node n.
RunsAccept(r, n, c) ==
    /\ Stage(r) = "running" /\ handlers[r].method = "start"
    /\ Target(r) = n /\ CallOf(r) = c

PeerAccounted(n, c) ==
    /\ SoundPeer(peer[n][c])
    /\ peer[n][c].accept = "gathering" => \E r \in Requests : RunsAccept(r, n, c)
    /\ (peer[n][c].closing /\ peer[n][c].pc = "open") => Terminal(c)

CommandAccounted(r) ==
    /\ Stage(r) = "none" <=> Target(r) = Undefined
    /\ Stage(r) # "none" => CallOf(r) # Undefined
    /\ handlers[r].node # Undefined => Target(r) = handlers[r].node
    /\ (Stage(r) = "running" /\ handlers[r].method = "start")
          => peer[Target(r)][CallOf(r)].accept = "gathering"
    /\ (handlers[r].method = "start" /\ handlers[r].response = "ok") => Stage(r) = "ok"
    /\ HungUp(r) => Stage(r) = "ok"

\* The node has taken r, a hang-up, and the gateway knows or may come to know.
Reached(r) ==
    /\ handlers[r].method = "hangup"
    /\ Stage(r) \in {"running", "ok"}
    /\ HungUp(r) \/ (Awaiting(r) /\ handlers[r].node # Undefined)

ReachedCloses(r) ==
    (Reached(r) /\ calls[CallOf(r)].answerSdp # Undefined)
        => \A n \in ConnectedNodes : ConnectionGone(n, CallOf(r))

PlaceInv ==
    /\ \A n \in Nodes, c \in CallIds : PeerAccounted(n, c)
    /\ \A r \in Requests : CommandAccounted(r) /\ ReachedCloses(r)

\* What was proved before, taken together.
KnownInv == RouteInv /\ StartResponseAgrees /\ HangupTakesEffect

\* The types, as the steps below use them.
LEMMA SystemTypes ==
    ASSUME RouteInv
    PROVE  /\ PluginTypeOK /\ TypeOK
           /\ handlers \in [Requests -> HandlerRecord]
           /\ calls \in [CallIds -> RtcCallRecord]
           /\ connected \in Seq(Nodes)
           /\ peer \in [Nodes -> [CallIds -> PM!PeerRecord]]
           /\ invoke \in [Requests -> InvokeRecord]
           /\ ConnectedNodes \subseteq Nodes
           /\ Undefined \notin Nodes /\ Undefined \notin CallIds
  BY PluginAssumption, OrchestratorAssumption
  DEF RouteInv, RouteTypes, PluginTypeOK, TypeOK, ConnectedNodes

\* No accept of an answered call is under way any more.
LEMMA AnsweredIsSettled ==
    ASSUME KnownInv, PlaceInv, NEW r \in Requests,
           handlers[r].method = "start", CallOf(r) # Undefined,
           calls[CallOf(r)].answerSdp # Undefined
    PROVE  Stage(r) = "ok"
<1>1. handlers[r].response = "ok"
  BY DEF KnownInv, StartResponseAgrees, StartedCall, CallOf
<1> QED
  BY <1>1 DEF PlaceInv, CommandAccounted

LEMMA AnsweredIsAccepted ==
    ASSUME KnownInv, PlaceInv, NEW n \in Nodes, NEW c \in CallIds,
           calls[c].answerSdp # Undefined
    PROVE  peer[n][c].accept # "gathering"
<1> SUFFICES ASSUME peer[n][c].accept = "gathering"
             PROVE  FALSE
  OBVIOUS
<1>1. PICK r \in Requests : RunsAccept(r, n, c)
  BY DEF PlaceInv, PeerAccounted
<1>2. CallOf(r) = c /\ c # Undefined
  BY <1>1, OrchestratorAssumption DEF RunsAccept
<1> QED
  BY <1>1, <1>2, AnsweredIsSettled DEF RunsAccept

\* So a hang-up that takes what it finds leaves nothing open.
LEMMA TakenIsGone ==
    ASSUME NEW p, SoundPeer(p), p.accept # "gathering"
    PROVE  PM!Taken(p).pc \in {"none", "closed"} \/ PM!Taken(p).closing
  BY DEF SoundPeer, PM!Taken, PM!PeerRecord

-----------------------------------------------------------------------------
(* What a step does to one connection *)

Begun(p)    == [p EXCEPT !.accept = "gathering", !.pc = "open"]
Returned(p) == [p EXCEPT !.accept = "returned", !.stored = TRUE]
Refused(p)  == [p EXCEPT !.accept = "failed", !.pc = "closed", !.notice = FALSE]
Failing(p)  == [p EXCEPT !.pc = "failed", !.notice = TRUE]
Noticed(p)  == [PM!Taken(p) EXCEPT !.notice = FALSE]

AcceptBegins(n, c) ==
    /\ \E r \in Requests : /\ DeliverAccept(r) /\ Target(r) = n /\ CallOf(r) = c
    /\ peer[n][c].accept = "none"
    /\ peer'[n][c] = Begun(peer[n][c])

AcceptEnds(n, c) ==
    /\ \E r \in Requests : RunsAccept(r, n, c) /\ CommandEnds(r)
    /\ peer[n][c].accept = "gathering"
    /\ peer'[n][c] \in {Returned(peer[n][c]), Refused(peer[n][c])}

HangupTakes(n, c) ==
    /\ \E r \in Requests : /\ DeliverHangup(r) /\ Target(r) = n /\ CallOf(r) = c
    /\ peer'[n][c] = PM!Taken(peer[n][c])

OnItsOwn(n, c) ==
    /\ UNCHANGED <<calls, handlers, connected, invoke>>
    /\ \/ peer[n][c].closing /\ peer'[n][c] = PM!Closed(peer[n][c])
       \/ peer[n][c].pc = "open" /\ peer'[n][c] = Failing(peer[n][c])
       \/ peer[n][c].notice /\ peer'[n][c] = Noticed(peer[n][c])

PeerMove(n, c) ==
    \/ peer'[n][c] = peer[n][c]
    \/ AcceptBegins(n, c) \/ AcceptEnds(n, c) \/ HangupTakes(n, c) \/ OnItsOwn(n, c)
    \/ NodeExit(n) /\ peer'[n][c] = PM!NoPeer

\* A record that is written where (n, c) is.
LEMMA WrittenThere ==
    ASSUME RouteInv, NEW m, NEW d, NEW q, peer' = [peer EXCEPT ![m][d] = q],
           NEW n \in Nodes, NEW c \in CallIds, peer'[n][c] # peer[n][c]
    PROVE  m = n /\ d = c /\ peer'[n][c] = q
  BY SystemTypes

LEMMA StepMovesPeer ==
    ASSUME RouteInv, [SystemNext]_systemVars, NEW n \in Nodes, NEW c \in CallIds
    PROVE  PeerMove(n, c)
<1>0. peer \in [Nodes -> [CallIds -> PM!PeerRecord]]
  BY SystemTypes
<1> SUFFICES ASSUME peer'[n][c] # peer[n][c]
             PROVE  PeerMove(n, c)
  BY DEF PeerMove
<1>1. ASSUME NEW r \in Requests, DeliverAccept(r)
      PROVE  AcceptBegins(n, c)
  <2>1. /\ peer[Target(r)][CallOf(r)].accept = "none"
        /\ peer' = [peer EXCEPT ![Target(r)][CallOf(r)].accept = "gathering",
                                ![Target(r)][CallOf(r)].pc = "open"]
    BY <1>1 DEF DeliverAccept, PM!AcceptCall
  <2>2. peer' = [peer EXCEPT ![Target(r)][CallOf(r)] = Begun(peer[Target(r)][CallOf(r)])]
    BY <1>0, <2>1 DEF Begun
  <2>3. Target(r) = n /\ CallOf(r) = c /\ peer'[n][c] = Begun(peer[Target(r)][CallOf(r)])
    BY <2>2, WrittenThere
  <2> QED
    BY <1>1, <2>1, <2>3 DEF AcceptBegins
<1>2. ASSUME NEW r \in Requests, DeliverHangup(r)
      PROVE  HangupTakes(n, c)
  <2>1. peer' = [peer EXCEPT ![Target(r)][CallOf(r)] = PM!Taken(peer[Target(r)][CallOf(r)])]
    BY <1>0, <1>2 DEF DeliverHangup, PM!ClosePeer
  <2>2. Target(r) = n /\ CallOf(r) = c
        /\ peer'[n][c] = PM!Taken(peer[Target(r)][CallOf(r)])
    BY <2>1, WrittenThere
  <2> QED
    BY <1>2, <2>2 DEF HangupTakes
<1>3. ASSUME NEW r \in Requests, CommandEnds(r)
      PROVE  AcceptEnds(n, c)
  <2> DEFINE p == peer[Target(r)][CallOf(r)]
  <2>1. /\ Stage(r) = "running" /\ handlers[r].method = "start"
        /\ PM!AcceptReturn(Target(r), CallOf(r)) \/ PM!AcceptError(Target(r), CallOf(r))
    BY <1>3 DEF CommandEnds
  <2>2. p.accept = "gathering"
    BY <2>1 DEF PM!AcceptReturn, PM!AcceptError
  <2>3. \E q \in {Returned(p), Refused(p)} :
           peer' = [peer EXCEPT ![Target(r)][CallOf(r)] = q]
    <3>1. CASE PM!AcceptReturn(Target(r), CallOf(r))
      BY <1>0, <3>1 DEF PM!AcceptReturn, Returned
    <3>2. CASE PM!AcceptError(Target(r), CallOf(r))
      BY <1>0, <3>2 DEF PM!AcceptError, Refused
    <3> QED
      BY <2>1, <3>1, <3>2
  <2>4. Target(r) = n /\ CallOf(r) = c /\ peer'[n][c] \in {Returned(p), Refused(p)}
    BY <2>3, WrittenThere
  <2> QED
    BY <1>3, <2>1, <2>2, <2>4 DEF AcceptEnds, RunsAccept
<1>4. ASSUME NEW m \in Nodes, NEW d \in CallIds, PeerStep(m, d)
      PROVE  OnItsOwn(n, c)
  <2> DEFINE p == peer[m][d]
             q == peer'[n][c]
  <2>1. UNCHANGED <<calls, handlers, connected, invoke>>
    BY <1>4 DEF PeerStep
  <2>2. CASE PM!ClosePeerEnd(m, d)
    <3>1. p.closing /\ peer' = [peer EXCEPT ![m][d] = PM!Closed(p)]
      BY <1>0, <2>2 DEF PM!ClosePeerEnd
    <3>2. m = n /\ d = c /\ q = PM!Closed(p)
      BY <3>1, WrittenThere
    <3> QED
      BY <2>1, <3>1, <3>2 DEF OnItsOwn
  <2>3. CASE PM!PcFails(m, d)
    <3>1. p.pc = "open" /\ peer' = [peer EXCEPT ![m][d] = Failing(p)]
      BY <1>0, <2>3 DEF PM!PcFails, Failing
    <3>2. m = n /\ d = c /\ q = Failing(p)
      BY <3>1, WrittenThere
    <3> QED
      BY <2>1, <3>1, <3>2 DEF OnItsOwn
  <2>4. CASE PM!FailedCallback(m, d)
    <3>1. p.notice /\ peer' = [peer EXCEPT ![m][d] = Noticed(p)]
      BY <1>0, <2>4 DEF PM!FailedCallback, Noticed
    <3>2. m = n /\ d = c /\ q = Noticed(p)
      BY <3>1, WrittenThere
    <3> QED
      BY <2>1, <3>1, <3>2 DEF OnItsOwn
  <2> QED
    BY <1>4, <2>2, <2>3, <2>4 DEF PeerStep
<1>5. ASSUME NEW m \in Nodes, NodeExit(m)
      PROVE  NodeExit(n) /\ peer'[n][c] = PM!NoPeer
  <2>1. peer' = [peer EXCEPT ![m] = [d \in CallIds |-> PM!NoPeer]]
    BY <1>5 DEF NodeExit
  <2>2. m = n
    BY <1>0, <2>1
  <2> QED
    BY <1>0, <1>5, <2>1, <2>2
<1>6. ~ UNCHANGED peer
  OBVIOUS
<1> QED
  BY <1>1, <1>2, <1>3, <1>4, <1>5, <1>6
  DEF SystemNext, RequestStep, NodeStep, SystemArrive, SystemResume, DeliverCandidate,
      NodeStart, NodeLost, SystemStop, systemVars, PeerMove

-----------------------------------------------------------------------------
(* What a step does to one request and its command *)

\* A request that arrives has a call if it is sent to a node, and is not told
\* anything yet that depends on the node.
LEMMA ArriveTold ==
    ASSUME RouteInv, NEW r \in Requests, Arrive(r)
    PROVE  /\ handlers[r] = NoRequest
           /\ handlers'[r].call = Undefined => handlers'[r].node = Undefined
           /\ handlers'[r].method = "start" => handlers'[r].response # "ok"
           /\ handlers'[r].outcome # "answer"
<1>0. handlers \in [Requests -> HandlerRecord] /\ Undefined \notin CallIds
  BY SystemTypes
<1> DEFINE Goal == /\ handlers'[r].call = Undefined => handlers'[r].node = Undefined
                   /\ handlers'[r].method = "start" => handlers'[r].response # "ok"
                   /\ handlers'[r].outcome # "answer"
<1>1. ASSUME NEW method, NEW c \in CallIds, Await(r, method, c)
      PROVE  Goal
  BY <1>0, <1>1 DEF Await
<1>2. ASSUME NEW method, NEW c, NEW response, Respond(r, method, c, response),
             method = "start" => response # "ok"
      PROVE  Goal
  BY <1>0, <1>2 DEF Respond
<1>3. ASSUME NEW c \in CallIds, NEW method \in {"ice", "hangup"}, NEW registry \in BOOLEAN,
             Forward(r, method, c, registry)
      PROVE  Goal
  BY <1>1, <1>2, <1>3 DEF Forward
<1>4. handlers[r] = NoRequest
  BY DEF Arrive, StartAccepted, StartRefused, IceRequest, HangupRequest, RequestRefused, Fresh
<1> HIDE DEF Goal
<1>5. Goal
  BY <1>1, <1>2, <1>3
  DEF Arrive, StartAccepted, StartRefused, IceRequest, HangupRequest, RequestRefused
<1> QED
  BY <1>4, <1>5 DEF Goal

\* The await of r ends, and what the node made of the command is what r is told.
Settles(r) ==
    /\ Awaiting(r)
    /\ handlers'[r].method = handlers[r].method
    /\ handlers'[r].call = handlers[r].call
    /\ handlers'[r].node = Undefined
    /\ handlers'[r].outcome # "pending"
    /\ (handlers[r].method = "start" /\ handlers'[r].response = "ok") => Stage(r) = "ok"
    /\ (handlers[r].method = "hangup" /\ handlers'[r].outcome = "answer")
          => Stage(r) = "ok" /\ handlers[r].node # Undefined
    /\ UNCHANGED invoke

LEMMA ResumeSettles ==
    ASSUME RouteInv, NEW r \in Requests, SystemResume(r)
    PROVE  Settles(r)
<1>0. handlers \in [Requests -> HandlerRecord] /\ handlers[r] \in HandlerRecord
  BY SystemTypes
<1>1. ASSUME NEW outcome, NEW response, Finish(r, outcome, response)
      PROVE  /\ handlers'[r].method = handlers[r].method
             /\ handlers'[r].call = handlers[r].call
             /\ handlers'[r].node = Undefined
             /\ handlers'[r].outcome = outcome
             /\ handlers'[r].response = response
  BY <1>0, <1>1 DEF Finish, Settled, HandlerRecord
<1>2. UNCHANGED invoke
  BY DEF SystemResume
<1>3. ASSUME Stage(r) = "ok", NEW sdp \in Sdps, StartAnswered(r, sdp)
      PROVE  Settles(r)
  <2>1. /\ Awaiting(r) /\ handlers[r].method = "start"
        /\ \E response : Finish(r, "answer", response)
    BY <1>3 DEF StartAnswered
  <2> QED
    BY <1>1, <1>2, <1>3, <2>1 DEF Settles
<1>4. ASSUME StartUnanswered(r)
      PROVE  Settles(r)
  <2>1. /\ Awaiting(r) /\ handlers[r].method = "start"
        /\ Finish(r, "null", "error")
    BY <1>4 DEF StartUnanswered
  <2> QED
    BY <1>1, <1>2, <2>1 DEF Settles
<1>5. ASSUME NEW outcome \in {"answer", "null"}, ForwardReturned(r, outcome),
             outcome = "answer" => Stage(r) = "ok"
      PROVE  Settles(r)
  <2>1. /\ Awaiting(r) /\ handlers[r].method # "start"
        /\ outcome = "answer" => handlers[r].node # Undefined
        /\ Finish(r, outcome, "ok")
    BY <1>5 DEF ForwardReturned
  <2>2. handlers'[r].outcome = "answer" => Stage(r) = "ok" /\ handlers[r].node # Undefined
    BY <1>1, <1>5, <2>1
  <2> QED
    BY <1>1, <1>2, <1>5, <2>1, <2>2 DEF Settles
<1>6. ASSUME InvokeTimeout(r)
      PROVE  Settles(r)
  <2>1. Awaiting(r) /\ Finish(r, "reject", "error")
    BY <1>6 DEF InvokeTimeout
  <2> QED
    BY <1>1, <1>2, <2>1 DEF Settles
<1> QED
  BY <1>3, <1>4, <1>5, <1>6 DEF SystemResume

LEMMA StepMovesHandler ==
    ASSUME RouteInv, [SystemNext]_systemVars, NEW r \in Requests
    PROVE  SystemArrive(r) \/ handlers'[r] = handlers[r] \/ Settles(r)
<1>0. PluginTypeOK /\ handlers \in [Requests -> HandlerRecord]
  BY SystemTypes
<1>1. ASSUME NEW q \in Requests, SystemArrive(q) \/ SystemResume(q)
      PROVE  SystemArrive(r) \/ handlers'[r] = handlers[r] \/ Settles(r)
  <2>1. Arrive(q) \/ Resume(q)
    BY <1>1 DEF SystemArrive, SystemResume, Resume
  <2>2. CASE q # r
    BY <1>0, <2>1, <2>2, OthersUnchanged
  <2> QED
    BY <1>1, <2>2, ResumeSettles
<1>2. ASSUME NEW n \in Nodes, NodeLost(n)
      PROVE  handlers'[r] = handlers[r] \/ Settles(r)
  <2> SUFFICES ASSUME handlers'[r] # handlers[r]
               PROVE  Settles(r)
    OBVIOUS
  <2>1. /\ Awaiting(r)
        /\ handlers'[r] = Settled(handlers[r], "reject", "error")
        /\ UNCHANGED invoke
    BY <1>2 DEF NodeLost, NodeDisconnect
  <2> QED
    BY <1>0, <2>1 DEF Settles, Settled, HandlerRecord
<1> QED
  BY <1>1, <1>2
  DEF SystemNext, RequestStep, NodeStep, DeliverAccept, DeliverCandidate, DeliverHangup,
      Delivered, CommandEnds, PeerStep, NodeStart, NodeConnect, NodeExit, SystemStop,
      ServiceStop, systemVars

\* The command of r moves on, is answered, or is lost with its process.
Moves(r) ==
    /\ invoke'[r].node = invoke[r].node
    /\ \/ /\ DeliverAccept(r)
          /\ invoke'[r].stage = "running"
       \/ /\ DeliverCandidate(r)
          /\ invoke'[r].stage \in {"ok", "error"}
       \/ /\ DeliverHangup(r)
          /\ invoke'[r].stage \in {"running", "ok"}
       \/ /\ CommandEnds(r)
          /\ invoke'[r].stage \in {"ok", "error"}
       \/ /\ InHand(r)
          /\ invoke'[r].stage = "lost"
          /\ NodeExit(Target(r)) \/ NodeStart(Target(r))

LEMMA NowMoves ==
    ASSUME RouteInv, NEW q \in Requests, NEW stage, Now(q, stage), NEW r \in Requests
    PROVE  \/ q # r /\ invoke'[r] = invoke[r]
           \/ q = r /\ invoke'[r].stage = stage /\ invoke'[r].node = invoke[r].node
<1>1. invoke \in [Requests -> InvokeRecord]
  BY SystemTypes
<1>2. invoke' = [invoke EXCEPT ![q] = [invoke[q] EXCEPT !.stage = stage]]
  BY <1>1 DEF Now
<1>3. [invoke[q] EXCEPT !.stage = stage].stage = stage
      /\ [invoke[q] EXCEPT !.stage = stage].node = invoke[q].node
  BY <1>1 DEF InvokeRecord
<1> QED
  BY <1>1, <1>2, <1>3

LEMMA StepMovesCommand ==
    ASSUME RouteInv, [SystemNext]_systemVars, NEW r \in Requests
    PROVE  SystemArrive(r) \/ invoke'[r] = invoke[r] \/ Moves(r)
<1>0. invoke \in [Requests -> InvokeRecord] /\ invoke[r] \in InvokeRecord
  BY SystemTypes
<1>1. ASSUME NEW q \in Requests, SystemArrive(q)
      PROVE  SystemArrive(r) \/ invoke'[r] = invoke[r]
  BY <1>0, <1>1 DEF SystemArrive
<1>2. ASSUME NEW q \in Requests, DeliverAccept(q)
      PROVE  invoke'[r] = invoke[r] \/ Moves(r)
  BY <1>2, NowMoves DEF DeliverAccept, Moves
<1>3. ASSUME NEW q \in Requests, DeliverCandidate(q)
      PROVE  invoke'[r] = invoke[r] \/ Moves(r)
  <2>1. Now(q, "ok") \/ Now(q, "error")
    BY <1>3 DEF DeliverCandidate
  <2> QED
    BY <1>3, <2>1, NowMoves DEF Moves
<1>4. ASSUME NEW q \in Requests, DeliverHangup(q)
      PROVE  invoke'[r] = invoke[r] \/ Moves(r)
  <2>1. Now(q, "running") \/ Now(q, "ok")
    BY <1>4 DEF DeliverHangup
  <2> QED
    BY <1>4, <2>1, NowMoves DEF Moves
<1>5. ASSUME NEW q \in Requests, CommandEnds(q)
      PROVE  invoke'[r] = invoke[r] \/ Moves(r)
  <2>1. Now(q, "ok") \/ Now(q, "error")
    BY <1>5 DEF CommandEnds
  <2> QED
    BY <1>5, <2>1, NowMoves DEF Moves
<1>6. ASSUME NEW n \in Nodes, NodeExit(n) \/ NodeStart(n)
      PROVE  invoke'[r] = invoke[r] \/ Moves(r)
  <2> SUFFICES ASSUME invoke'[r] # invoke[r]
               PROVE  Moves(r)
    OBVIOUS
  <2>1. /\ Target(r) = n /\ InHand(r)
        /\ invoke'[r] = [invoke[r] EXCEPT !.stage = "lost"]
    BY <1>6 DEF NodeExit, NodeStart, LoseCommands, InHand
  <2>2. invoke'[r].stage = "lost" /\ invoke'[r].node = invoke[r].node
    BY <1>0, <2>1 DEF InvokeRecord
  <2> QED
    BY <1>6, <2>1, <2>2 DEF Moves
<1> QED
  BY <1>1, <1>2, <1>3, <1>4, <1>5, <1>6
  DEF SystemNext, RequestStep, NodeStep, SystemResume, PeerStep, NodeLost, SystemStop, systemVars

-----------------------------------------------------------------------------
(* The invariant is kept *)

\* A request that is not arriving keeps its call, and its command its node.
LEMMA StepKeepsRequest ==
    ASSUME RouteInv, [SystemNext]_systemVars, NEW r \in Requests, ~SystemArrive(r)
    PROVE  /\ handlers'[r].method = handlers[r].method
           /\ handlers'[r].call = handlers[r].call
           /\ invoke'[r].node = invoke[r].node
           /\ CallOf(r)' = CallOf(r) /\ Target(r)' = Target(r)
  BY StepMovesHandler, StepMovesCommand DEF Settles, Moves, CallOf, Target

LEMMA ArriveIsFresh ==
    ASSUME RouteInv, NEW r \in Requests, SystemArrive(r)
    PROVE  handlers[r] = NoRequest /\ CallOf(r) = Undefined
  BY ArriveTold DEF SystemArrive, CallOf, NoRequest

LEMMA StepIsClassStep ==
    ASSUME RouteInv, [SystemNext]_systemVars
    PROVE  [Next]_orchVars /\ TypeOK
<1>1. [PluginNext]_pluginVars
  BY SystemStepIsPluginStep DEF systemVars, pluginVars
<1> QED
  BY <1>1, SystemTypes, PluginStepUsesClass

\* Nothing is answered after its end.
LEMMA TerminalAnswer ==
    ASSUME RouteInv, [SystemNext]_systemVars, NEW c \in CallIds, Terminal(c)
    PROVE  Terminal(c)' /\ calls'[c].answerSdp = calls[c].answerSdp
<1>1. TypeOK /\ [Next]_orchVars /\ calls[c] \in RtcCallRecord
  BY StepIsClassStep DEF TypeOK
<1>2. CASE RecordsStep
  <2>1. RecordStep(calls[c], calls'[c])
    BY <1>2 DEF RecordsStep
  <2> QED
    BY <1>1, <2>1, TerminalStays
    DEF RecordStep, Answered, Activated, EntryAdded, Finished, LiveStates,
        TERMINAL_STATES, RtcCallRecord, Terminal
<1>3. ASSUME NEW d \in CallIds, NEW s \in SessionKeys, startCall(d, s)
      PROVE  calls'[c].answerSdp = calls[c].answerSdp
  BY <1>1, <1>3 DEF startCall, Known, TypeOK, Terminal, TERMINAL_STATES
<1> QED
  BY <1>1, <1>2, <1>3, TerminalStays, StepShape, StepRecords

LEMMA SoundSteps ==
    ASSUME NEW p, SoundPeer(p)
    PROVE  /\ p.accept = "none" => SoundPeer(Begun(p))
           /\ p.accept = "gathering" => SoundPeer(Returned(p)) /\ SoundPeer(Refused(p))
           /\ SoundPeer(PM!Taken(p))
           /\ p.closing => SoundPeer(PM!Closed(p))
           /\ p.pc = "open" => SoundPeer(Failing(p))
           /\ p.notice => SoundPeer(Noticed(p))
<1>1. p.accept = "none" => SoundPeer(Begun(p))
  BY DEF SoundPeer, PM!PeerRecord, Begun
<1>2. p.accept = "gathering" => SoundPeer(Returned(p)) /\ SoundPeer(Refused(p))
  BY DEF SoundPeer, PM!PeerRecord, Returned, Refused
<1>3. SoundPeer(PM!Taken(p))
  BY DEF SoundPeer, PM!PeerRecord, PM!Taken
<1>4. p.closing => SoundPeer(PM!Closed(p))
  BY DEF SoundPeer, PM!PeerRecord, PM!Closed
<1>5. p.pc = "open" => SoundPeer(Failing(p))
  BY DEF SoundPeer, PM!PeerRecord, Failing
<1>6. p.notice => SoundPeer(Noticed(p))
  BY DEF SoundPeer, PM!PeerRecord, PM!Taken, Noticed
<1> QED
  BY <1>1, <1>2, <1>3, <1>4, <1>5, <1>6

LEMMA SoundNoPeer == SoundPeer(PM!NoPeer) /\ PM!NoPeer.pc = "none" /\ PM!NoPeer.accept = "none"
  BY DEF SoundPeer, PM!PeerRecord, PM!NoPeer

\* What the moves of a connection leave alone.
LEMMA MovesKeep ==
    ASSUME NEW p \in PM!PeerRecord
    PROVE  /\ PM!Taken(p).accept = p.accept /\ PM!Taken(p).pc = p.pc
           /\ p.closing => PM!Taken(p).closing
           /\ PM!Closed(p).accept = p.accept /\ PM!Closed(p).pc = "closed"
           /\ Failing(p).accept = p.accept /\ Failing(p).pc = "failed"
           /\ Failing(p).closing = p.closing
           /\ Noticed(p).accept = p.accept /\ Noticed(p).pc = p.pc
           /\ p.closing => Noticed(p).closing
           /\ Begun(p).accept = "gathering" /\ Begun(p).closing = p.closing
           /\ Returned(p).accept = "returned" /\ Returned(p).closing = p.closing
           /\ Returned(p).pc = p.pc
           /\ Refused(p).accept = "failed" /\ Refused(p).pc = "closed"
<1>1. PM!Taken(p) \in PM!PeerRecord
  BY DEF PM!PeerRecord, PM!Taken
<1>2. /\ PM!Taken(p).accept = p.accept /\ PM!Taken(p).pc = p.pc
      /\ p.closing => PM!Taken(p).closing
  BY DEF PM!PeerRecord, PM!Taken
<1>3. /\ Noticed(p).accept = PM!Taken(p).accept /\ Noticed(p).pc = PM!Taken(p).pc
      /\ Noticed(p).closing = PM!Taken(p).closing
  BY <1>1 DEF PM!PeerRecord, Noticed
<1> QED
  BY <1>2, <1>3 DEF PM!PeerRecord, PM!Closed, Failing, Begun, Returned, Refused

\* An accept goes on unless its connection leaves "gathering" with it.
LEMMA AcceptGoesOn ==
    ASSUME KnownInv, PlaceInv, [SystemNext]_systemVars, NEW n \in Nodes, NEW c \in CallIds,
           NEW r \in Requests, RunsAccept(r, n, c), peer[n][c].accept = "gathering",
           peer'[n][c].accept = "gathering"
    PROVE  RunsAccept(r, n, c)'
<1>0. RouteInv /\ peer[n][c] \in PM!PeerRecord
  BY SystemTypes DEF KnownInv
<1>1. ~SystemArrive(r)
  BY <1>0, ArriveIsFresh, OrchestratorAssumption DEF RunsAccept
<1>2. /\ handlers'[r].method = "start"
      /\ CallOf(r)' = c /\ Target(r)' = n
  BY <1>0, <1>1, StepKeepsRequest DEF RunsAccept
<1>3. ~Moves(r)
  <2>1. ~DeliverAccept(r) /\ ~DeliverCandidate(r) /\ ~DeliverHangup(r)
    BY DEF RunsAccept, DeliverAccept, DeliverCandidate, DeliverHangup, Delivered
  <2>2. ASSUME CommandEnds(r)
        PROVE  FALSE
    <3>1. PM!AcceptReturn(n, c) \/ PM!AcceptError(n, c)
      BY <2>2 DEF CommandEnds, RunsAccept
    <3>2. peer'[n][c] = Returned(peer[n][c]) \/ peer'[n][c] = Refused(peer[n][c])
      BY <1>0, <3>1, SystemTypes DEF PM!AcceptReturn, PM!AcceptError, Returned, Refused
    <3> QED
      BY <1>0, <3>2, MovesKeep
  <2>3. ASSUME NodeExit(n)
        PROVE  FALSE
    BY <1>0, <2>3, SystemTypes, SoundNoPeer DEF NodeExit
  <2>4. ASSUME NodeStart(n)
        PROVE  FALSE
    BY <1>0, <2>4, SoundNoPeer DEF NodeStart, RouteInv, OnHead
  <2> QED
    BY <2>1, <2>2, <2>3, <2>4 DEF Moves, RunsAccept
<1>4. invoke'[r] = invoke[r]
  BY <1>0, <1>1, <1>3, StepMovesCommand
<1> QED
  BY <1>2, <1>4 DEF RunsAccept, Stage

LEMMA StepPeerAccounted ==
    ASSUME KnownInv, PlaceInv, [SystemNext]_systemVars, NEW n \in Nodes, NEW c \in CallIds
    PROVE  PeerAccounted(n, c)'
<1> DEFINE p == peer[n][c]
           q == peer'[n][c]
<1>0. /\ RouteInv
      /\ PeerAccounted(n, c) /\ SoundPeer(p)
      /\ p \in PM!PeerRecord
      /\ PeerMove(n, c)
  BY SystemTypes, StepMovesPeer DEF KnownInv, PlaceInv, PeerAccounted
<1>1. SoundPeer(q)
  BY <1>0, SoundSteps, SoundNoPeer
  DEF PeerMove, AcceptBegins, AcceptEnds, HangupTakes, OnItsOwn
<1>2. ASSUME q.accept = "gathering"
      PROVE  \E r \in Requests : RunsAccept(r, n, c)'
  <2>1. CASE p.accept = "gathering"
    <3>1. PICK r \in Requests : RunsAccept(r, n, c)
      BY <1>0, <2>1 DEF PeerAccounted
    <3> QED
      BY <1>2, <2>1, <3>1, AcceptGoesOn
  <2>2. CASE p.accept # "gathering"
    <3>1. AcceptBegins(n, c)
      BY <1>0, <1>2, <2>2, MovesKeep, SoundNoPeer
      DEF PeerMove, AcceptEnds, HangupTakes, OnItsOwn
    <3>2. PICK r \in Requests : DeliverAccept(r) /\ Target(r) = n /\ CallOf(r) = c
      BY <3>1 DEF AcceptBegins
    <3>3. UNCHANGED handlers /\ handlers[r].method = "start" /\ Now(r, "running")
      BY <3>2 DEF DeliverAccept, Delivered
    <3>4. invoke'[r].stage = "running" /\ invoke'[r].node = invoke[r].node
      BY <1>0, <3>3, NowMoves
    <3>5. RunsAccept(r, n, c)'
      BY <3>2, <3>3, <3>4 DEF RunsAccept, Stage, Target, CallOf
    <3> QED
      BY <3>5
  <2> QED
    BY <2>1, <2>2
<1>3. ASSUME q.closing, q.pc = "open"
      PROVE  Terminal(c)'
  <2>1. CASE HangupTakes(n, c)
    <3>1. PICK r \in Requests : DeliverHangup(r) /\ CallOf(r) = c
      BY <2>1 DEF HangupTakes
    <3>2. Terminal(c)
      BY <3>1, OrchestratorAssumption
      DEF DeliverHangup, Delivered, KnownInv, HangupTakesEffect, CallOf
    <3> QED
      BY <1>0, <3>2, TerminalAnswer
  <2>2. CASE ~HangupTakes(n, c)
    <3>1. q = p \/ AcceptBegins(n, c) \/ AcceptEnds(n, c) \/ OnItsOwn(n, c)
      BY <1>0, <1>3, <2>2, SoundNoPeer DEF PeerMove
    <3>2. ~AcceptBegins(n, c) /\ ~AcceptEnds(n, c) /\ ~OnItsOwn(n, c)
      <4>1. p.accept \in {"none", "gathering"} => ~p.closing
        BY <1>0 DEF SoundPeer
      <4>2. p.notice => p.pc # "open"
        BY <1>0 DEF SoundPeer
      <4> QED
        BY <1>0, <1>3, <4>1, <4>2, MovesKeep DEF AcceptBegins, AcceptEnds, OnItsOwn
    <3>3. Terminal(c)
      BY <1>0, <1>3, <3>1, <3>2 DEF PeerAccounted
    <3> QED
      BY <1>0, <3>3, TerminalAnswer
  <2> QED
    BY <2>1, <2>2
<1> QED
  BY <1>1, <1>2, <1>3 DEF PeerAccounted

LEMMA ArriveAccounted ==
    ASSUME KnownInv, NEW r \in Requests, SystemArrive(r)
    PROVE  CommandAccounted(r)' /\ ~Reached(r)'
<1>0. RouteInv /\ invoke \in [Requests -> InvokeRecord]
  BY SystemTypes DEF KnownInv
<1>1. invoke'[r] = SentBy(handlers'[r])
  BY <1>0 DEF SystemArrive
<1>2. /\ handlers'[r].call = Undefined => handlers'[r].node = Undefined
      /\ handlers'[r].method = "start" => handlers'[r].response # "ok"
      /\ handlers'[r].outcome # "answer"
  BY <1>0, ArriveTold DEF SystemArrive
<1>3. \/ /\ handlers'[r].node = Undefined
         /\ invoke'[r].stage = "none" /\ invoke'[r].node = Undefined
      \/ /\ handlers'[r].node # Undefined
         /\ invoke'[r].stage = "sent" /\ invoke'[r].node = handlers'[r].node
  BY <1>1 DEF SentBy, NoInvoke
<1>4. CommandAccounted(r)'
  BY <1>2, <1>3 DEF CommandAccounted, Stage, Target, CallOf, HungUp
<1> QED
  BY <1>3, <1>4 DEF Reached, Stage

\* One start per call: an accept that ends is the one its connection waited for.
LEMMA RunningAccept ==
    ASSUME KnownInv, PlaceInv, [SystemNext]_systemVars, NEW r \in Requests,
           ~SystemArrive(r), invoke'[r].stage = "running", handlers[r].method = "start"
    PROVE  peer'[Target(r)][CallOf(r)].accept = "gathering"
<1> DEFINE n == Target(r)
           c == CallOf(r)
           p == peer[n][c]
<1>0. /\ RouteInv /\ CommandAccounted(r)
      /\ peer \in [Nodes -> [CallIds -> PM!PeerRecord]]
      /\ invoke[r] \in InvokeRecord /\ handlers[r] \in HandlerRecord
      /\ Undefined \notin CallIds
  BY SystemTypes DEF KnownInv, PlaceInv
<1>1. Stage(r) \in {"sent", "running"}
  <2>1. invoke'[r] = invoke[r] \/ Moves(r)
    BY <1>0, StepMovesCommand
  <2> QED
    BY <2>1 DEF Moves, InHand, Stage, DeliverAccept, DeliverCandidate, DeliverHangup,
       Delivered, CommandEnds
<1>2. n \in Nodes /\ c \in CallIds
  BY <1>0, <1>1 DEF CommandAccounted, InvokeRecord, HandlerRecord, Stage, Target, CallOf
<1>3. p \in PM!PeerRecord /\ PeerMove(n, c)
  BY <1>0, <1>2, StepMovesPeer
<1> HIDE DEF n, c
<1>4. CASE Stage(r) = "sent"
  <2>1. Moves(r)
    BY <1>0, <1>4, StepMovesCommand DEF Stage
  <2>2. DeliverAccept(r)
    BY <1>4, <2>1 DEF Moves, DeliverHangup, Delivered, CommandEnds, DeliverCandidate
  <2>3. peer' = [peer EXCEPT ![n][c].accept = "gathering", ![n][c].pc = "open"]
    BY <2>2 DEF DeliverAccept, PM!AcceptCall, n, c
  <2>4. peer' = [peer EXCEPT ![n][c] = Begun(p)]
    BY <1>0, <2>3 DEF Begun
  <2> QED
    BY <1>0, <1>2, <1>3, <2>4, MovesKeep DEF n, c
<1>5. CASE Stage(r) = "running"
  <2>1. p.accept = "gathering"
    BY <1>0, <1>5 DEF CommandAccounted, n, c
  <2>2. ~AcceptEnds(n, c)
    <3> SUFFICES ASSUME NEW q \in Requests, RunsAccept(q, n, c), CommandEnds(q)
                 PROVE  FALSE
      BY DEF AcceptEnds
    <3>1. StartedCall(q) = c /\ StartedCall(r) = c
      BY DEF RunsAccept, StartedCall, CallOf, c
    <3>2. q = r
      BY <1>0, <1>2, <3>1 DEF KnownInv, StartResponseAgrees
    <3>3. Now(r, "ok") \/ Now(r, "error")
      BY <3>2 DEF CommandEnds
    <3> QED
      BY <1>0, <3>3, NowMoves
  <2>3. ~NodeExit(n)
    <3> SUFFICES ASSUME NodeExit(n)
                 PROVE  FALSE
      OBVIOUS
    <3>1. ~InHand(r)'
      BY <1>0, <1>2, LoseStage DEF NodeExit, RouteInv, n
    <3> QED
      BY <3>1 DEF InHand, Stage
  <2>4. ~AcceptBegins(n, c)
    BY <2>1 DEF AcceptBegins
  <2>5. peer'[n][c].accept = "gathering"
    BY <1>3, <2>1, <2>2, <2>3, <2>4, MovesKeep DEF PeerMove, HangupTakes, OnItsOwn
  <2> QED
    BY <2>5 DEF n, c
<1> QED
  BY <1>1, <1>4, <1>5

LEMMA StepCommandAccounted ==
    ASSUME KnownInv, PlaceInv, [SystemNext]_systemVars, NEW r \in Requests
    PROVE  CommandAccounted(r)'
<1>1. CASE SystemArrive(r)
  BY <1>1, ArriveAccounted
<1>2. CASE ~SystemArrive(r)
  <2>0. /\ RouteInv /\ CommandAccounted(r)
        /\ invoke[r] \in InvokeRecord
    BY SystemTypes DEF KnownInv, PlaceInv
  <2>1. /\ handlers'[r].method = handlers[r].method
        /\ handlers'[r].call = handlers[r].call
        /\ invoke'[r].node = invoke[r].node
        /\ CallOf(r)' = CallOf(r) /\ Target(r)' = Target(r)
    BY <1>2, <2>0, StepKeepsRequest
  <2>2. invoke'[r] = invoke[r] \/ Moves(r)
    BY <1>2, <2>0, StepMovesCommand
  <2>3. handlers'[r] = handlers[r] \/ Settles(r)
    BY <1>2, <2>0, StepMovesHandler
  <2>4. Moves(r) => InHand(r) /\ invoke'[r].stage # "none"
    BY DEF Moves, InHand, DeliverAccept, DeliverCandidate, DeliverHangup, Delivered, CommandEnds
  <2>5. invoke'[r].stage = "none" <=> Stage(r) = "none"
    BY <2>2, <2>4 DEF Stage, InHand
  <2>6. invoke'[r].stage = "none" <=> invoke'[r].node = Undefined
    BY <2>0, <2>1, <2>5 DEF CommandAccounted, Target
  <2>7. invoke'[r].stage # "none" => CallOf(r)' # Undefined
    BY <2>0, <2>1, <2>5 DEF CommandAccounted
  <2>8. handlers'[r].node # Undefined => Target(r)' = handlers'[r].node
    BY <2>0, <2>1, <2>3 DEF CommandAccounted, Settles
  <2>9. (invoke'[r].stage = "running" /\ handlers'[r].method = "start")
           => peer'[Target(r)][CallOf(r)].accept = "gathering"
    BY <1>2, <2>1, RunningAccept
  <2>10. Stage(r) = "ok" => invoke'[r].stage = "ok"
    BY <2>2, <2>4 DEF Stage, InHand
  <2>11. (handlers'[r].method = "start" /\ handlers'[r].response = "ok")
            => invoke'[r].stage = "ok"
    BY <2>0, <2>1, <2>3, <2>10 DEF CommandAccounted, Settles
  <2>12. (handlers'[r].method = "hangup" /\ handlers'[r].outcome = "answer")
            => invoke'[r].stage = "ok"
    BY <2>0, <2>1, <2>3, <2>10 DEF CommandAccounted, Settles, HungUp
  <2> QED
    BY <2>1, <2>6, <2>7, <2>8, <2>9, <2>11, <2>12
    DEF CommandAccounted, Stage, Target, CallOf, HungUp
<1> QED
  BY <1>1, <1>2

\* What is gone of an answered call stays gone.
LEMMA GoneStays ==
    ASSUME KnownInv, PlaceInv, [SystemNext]_systemVars, NEW n \in Nodes, NEW c \in CallIds,
           calls[c].answerSdp # Undefined, ConnectionGone(n, c)
    PROVE  ConnectionGone(n, c)'
<1> DEFINE p == peer[n][c]
<1>0. RouteInv /\ p \in PM!PeerRecord /\ PeerMove(n, c)
  BY SystemTypes, StepMovesPeer DEF KnownInv
<1>1. ~AcceptBegins(n, c)
  <2> SUFFICES ASSUME NEW r \in Requests, DeliverAccept(r), CallOf(r) = c
               PROVE  FALSE
    BY DEF AcceptBegins
  <2>1. handlers[r].method = "start" /\ Stage(r) = "sent"
    BY DEF DeliverAccept, Delivered
  <2> QED
    BY <2>1, AnsweredIsSettled, OrchestratorAssumption
<1>2. ~AcceptEnds(n, c)
  BY AnsweredIsAccepted DEF AcceptEnds
<1> QED
  BY <1>0, <1>1, <1>2, MovesKeep, SoundNoPeer
  DEF PeerMove, HangupTakes, OnItsOwn, ConnectionGone

\* A hang-up the node takes up leaves nothing open of an answered call.
LEMMA HangupLeavesNothing ==
    ASSUME KnownInv, PlaceInv, NEW r \in Requests, DeliverHangup(r),
           NEW c \in CallIds, CallOf(r) = c, calls[c].answerSdp # Undefined,
           Awaiting(r), handlers[r].node # Undefined,
           NEW n \in ConnectedNodes
    PROVE  ConnectionGone(n, c)'
<1>0. /\ RouteInv /\ n \in Nodes
      /\ peer \in [Nodes -> [CallIds -> PM!PeerRecord]]
      /\ SoundPeer(peer[n][c])
      /\ Target(r) = handlers[r].node /\ handlers[r].node = findRtcNode
  BY SystemTypes DEF KnownInv, PlaceInv, PeerAccounted, CommandAccounted, RouteInv, OnHead
<1>1. peer' = [peer EXCEPT ![Target(r)][c] = PM!Taken(peer[Target(r)][c])]
  BY <1>0 DEF DeliverHangup, PM!ClosePeer
<1>2. CASE n = Target(r)
  <2>1. peer'[n][c] = PM!Taken(peer[n][c])
    BY <1>0, <1>1, <1>2
  <2>2. peer[n][c].accept # "gathering"
    BY <1>0, AnsweredIsAccepted
  <2> QED
    BY <1>0, <2>1, <2>2, TakenIsGone DEF ConnectionGone
<1>3. CASE n # Target(r)
  <2>1. peer[n][c] = PM!NoPeer
    BY <1>0, <1>3 DEF RouteInv, OnHead
  <2>2. peer'[n][c] = peer[n][c]
    BY <1>0, <1>1, <1>3
  <2> QED
    BY <2>1, <2>2, SoundNoPeer DEF ConnectionGone
<1> QED
  BY <1>2, <1>3

\* A node that has just been listed has no calls.
LEMMA ListedStep ==
    ASSUME RouteInv, [SystemNext]_systemVars, NEW n \in ConnectedNodes'
    PROVE  n \in ConnectedNodes \/ \A c \in CallIds : peer'[n][c] = PM!NoPeer
<1>0. connected \in Seq(Nodes) /\ PluginTypeOK
  BY SystemTypes
<1>1. ASSUME NEW m \in Nodes, NodeStart(m)
      PROVE  n \in ConnectedNodes \/ \A c \in CallIds : peer'[n][c] = PM!NoPeer
  <2>1. ConnectedNodes' = ConnectedNodes \cup {m}
    BY <1>0, <1>1 DEF NodeStart, NodeConnect, ConnectedNodes
  <2>2. \A c \in CallIds : peer'[m][c] = PM!NoPeer
    BY <1>1 DEF NodeStart, RouteInv, OnHead
  <2> QED
    BY <2>1, <2>2
<1>2. ASSUME NEW m \in Nodes, NodeLost(m)
      PROVE  n \in ConnectedNodes
  <2>1. PICK i \in 1..Len(connected) : connected' = Without(connected, i)
    BY <1>2 DEF NodeLost, NodeDisconnect, Without
  <2>2. Removed(connected, i, connected')
    BY <1>0, <2>1, Removal DEF RouteInv, OnHead
  <2> QED
    BY <2>2 DEF Removed, ConnectedNodes
<1>3. ASSUME UNCHANGED connected
      PROVE  n \in ConnectedNodes
  BY <1>3 DEF ConnectedNodes
<1>4. ASSUME NEW q \in Requests, SystemArrive(q) \/ SystemResume(q)
      PROVE  UNCHANGED connected
  <2>1. Arrive(q) \/ Resume(q)
    BY <1>4 DEF SystemArrive, SystemResume, Resume
  <2> QED
    BY <1>0, <2>1, ArriveHandlers, ResumeHandlers
<1> QED
  BY <1>1, <1>2, <1>3, <1>4
  DEF SystemNext, RequestStep, NodeStep, DeliverAccept, DeliverCandidate, DeliverHangup,
      Delivered, CommandEnds, PeerStep, NodeExit, SystemStop, ServiceStop, systemVars

LEMMA StepReachedCloses ==
    ASSUME KnownInv, PlaceInv, [SystemNext]_systemVars, NEW r \in Requests
    PROVE  ReachedCloses(r)'
<1>0. RouteInv /\ CommandAccounted(r) /\ handlers[r] \in HandlerRecord /\ Undefined \notin CallIds
  BY SystemTypes DEF KnownInv, PlaceInv
<1>1. CASE SystemArrive(r)
  BY <1>1, ArriveAccounted DEF ReachedCloses
<1>2. CASE ~SystemArrive(r)
  <2> SUFFICES ASSUME Reached(r)', calls'[CallOf(r)'].answerSdp # Undefined,
                      NEW n \in ConnectedNodes'
               PROVE  \/ peer'[n][CallOf(r)'].pc \in {"none", "closed"}
                      \/ peer'[n][CallOf(r)'].closing
    BY DEF ReachedCloses, ConnectionGone
  <2> DEFINE c == CallOf(r)
  <2>1. /\ handlers'[r].method = handlers[r].method
        /\ CallOf(r)' = c /\ Target(r)' = Target(r)
    BY <1>0, <1>2, StepKeepsRequest
  <2>2. handlers'[r] = handlers[r] \/ Settles(r)
    BY <1>0, <1>2, StepMovesHandler
  <2>3. invoke'[r] = invoke[r] \/ Moves(r)
    BY <1>0, <1>2, StepMovesCommand
  <2>4. /\ handlers[r].method = "hangup" /\ invoke'[r].stage \in {"running", "ok"}
        /\ HungUp(r) \/ (Awaiting(r) /\ handlers[r].node # Undefined)
    BY <2>1, <2>2 DEF Reached, HungUp, Awaiting, Settles, Stage
  <2>5. Reached(r) \/ DeliverHangup(r)
    <3>1. CASE invoke'[r] = invoke[r]
      BY <2>4, <3>1 DEF Reached, Stage
    <3>2. CASE Moves(r)
      BY <2>4, <3>2 DEF Moves, Reached, DeliverAccept, DeliverCandidate, Delivered,
         CommandEnds
    <3> QED
      BY <2>3, <3>1, <3>2
  <2>6. Stage(r) # "none"
    BY <2>5 DEF Reached, DeliverHangup, Delivered
  <2>7. c \in CallIds
    BY <1>0, <2>6 DEF CommandAccounted, HandlerRecord, CallOf
  <2>8. Terminal(c)
    BY <1>0, <2>4, <2>7 DEF KnownInv, HangupTakesEffect, CallOf
  <2>9. calls[c].answerSdp # Undefined
    BY <1>0, <2>1, <2>7, <2>8, TerminalAnswer
  <2>10. PICK d \in CallIds : d = c
    BY <2>7
  <2> SUFFICES peer'[n][d].pc \in {"none", "closed"} \/ peer'[n][d].closing
    BY <2>1, <2>10
  <2> HIDE DEF c
  <2>11. CASE n \notin ConnectedNodes
    BY <1>0, <2>11, ListedStep, SoundNoPeer
  <2>12. CASE n \in ConnectedNodes /\ Reached(r)
    <3>1. ConnectionGone(n, d) /\ n \in Nodes
      BY <1>0, <2>9, <2>10, <2>12, SystemTypes DEF PlaceInv, ReachedCloses, c
    <3> QED
      BY <2>9, <2>10, <3>1, GoneStays DEF ConnectionGone
  <2>13. CASE n \in ConnectedNodes /\ ~Reached(r)
    <3>1. DeliverHangup(r) /\ Stage(r) = "sent"
      BY <2>5, <2>13 DEF DeliverHangup, Delivered
    <3>2. Awaiting(r) /\ handlers[r].node # Undefined
      BY <1>0, <2>4, <3>1 DEF CommandAccounted
    <3>3. CallOf(r) = d /\ calls[d].answerSdp # Undefined
      BY <2>9, <2>10 DEF c
    <3>4. ConnectionGone(n, d)'
      BY <2>13, <3>1, <3>2, <3>3, HangupLeavesNothing
    <3> QED
      BY <3>4 DEF ConnectionGone
  <2> QED
    BY <2>11, <2>12, <2>13
<1> QED
  BY <1>1, <1>2

LEMMA StepPlaceInv ==
    ASSUME KnownInv, PlaceInv, [SystemNext]_systemVars
    PROVE  PlaceInv'
<1>1. \A n \in Nodes, c \in CallIds : PeerAccounted(n, c)'
  BY StepPeerAccounted
<1>2. \A r \in Requests : CommandAccounted(r)' /\ ReachedCloses(r)'
  BY StepCommandAccounted, StepReachedCloses
<1> QED
  BY <1>1, <1>2 DEF PlaceInv

LEMMA InitPlaceInv == SystemInit => PlaceInv
<1> SUFFICES ASSUME SystemInit
             PROVE  PlaceInv
  OBVIOUS
<1>1. \A n \in Nodes, c \in CallIds : peer[n][c] = PM!NoPeer
  BY DEF SystemInit, PM!Init
<1>2. \A n \in Nodes, c \in CallIds : PeerAccounted(n, c)
  BY <1>1, SoundNoPeer DEF PeerAccounted, PM!NoPeer
<1>3. \A r \in Requests : invoke[r] = NoInvoke /\ handlers[r] = NoRequest
  BY DEF SystemInit, PluginInit
<1>4. \A r \in Requests : CommandAccounted(r) /\ ReachedCloses(r)
  BY <1>3 DEF CommandAccounted, ReachedCloses, Reached, NoInvoke, NoRequest, Stage, Target,
     HungUp
<1> QED
  BY <1>2, <1>4 DEF PlaceInv

\* Connections, commands and records agree.
THEOREM PlacesAgree == SystemSpec => [](KnownInv /\ PlaceInv)
<1>1. SystemSpec => []KnownInv
  BY OneNodePerCall, SystemKeepsPromises, PTL DEF KnownInv
<1>2. KnownInv /\ PlaceInv /\ [SystemNext]_systemVars => PlaceInv'
  BY StepPlaceInv
<1> QED
  BY <1>1, <1>2, InitPlaceInv, PTL DEF SystemSpec

\* What a goroutine of the node runs agrees with the connection it runs on.
THEOREM SystemTypeCorrect == SystemSpec => []SystemTypeOK
<1>1. KnownInv /\ PlaceInv => SystemTypeOK
  <2> SUFFICES ASSUME KnownInv, PlaceInv
               PROVE  SystemTypeOK
    OBVIOUS
  <2>1. /\ peer \in [Nodes -> [CallIds -> PM!PeerRecord]]
        /\ serving \in [Nodes -> BOOLEAN]
        /\ invoke \in [Requests -> InvokeRecord]
    BY DEF KnownInv, RouteInv, RouteTypes
  <2>2. PM!TypeOK
    BY <2>1 DEF PM!TypeOK, PlaceInv, PeerAccounted, SoundPeer
  <2>3. ASSUME NEW r \in Requests
        PROVE  /\ Stage(r) = "none" <=> Target(r) = Undefined
               /\ Stage(r) # "none" => CallOf(r) # Undefined
               /\ Stage(r) \in {"sent", "running"} => Target(r) \in Nodes
               /\ (Stage(r) = "running" /\ handlers[r].method = "start")
                     => peer[Target(r)][CallOf(r)].accept = "gathering"
    BY <2>1 DEF PlaceInv, CommandAccounted, InvokeRecord, Target
  <2> QED
    BY <2>1, <2>2, <2>3 DEF SystemTypeOK
<1> QED
  BY <1>1, PlacesAgree, PTL

\* A hang-up of an answered call that has come back from the node leaves no
\* connection of the call behind, however it raced failures, other hang-ups and
\* nodes that come and go.
THEOREM HangupReleasesAnswered == SystemSpec => []HangupClosesAnswered
<1>1. KnownInv /\ PlaceInv => HangupClosesAnswered
  <2> SUFFICES ASSUME KnownInv, PlaceInv, NEW r \in Requests, NEW n \in ConnectedNodes,
                      HungUp(r), calls[CallOf(r)].answerSdp # Undefined
               PROVE  ConnectionGone(n, CallOf(r))
    BY DEF HangupClosesAnswered
  <2>1. Reached(r)
    BY DEF PlaceInv, CommandAccounted, Reached, HungUp
  <2> QED
    BY <2>1 DEF PlaceInv, ReachedCloses
<1> QED
  BY <1>1, PlacesAgree, PTL

\* No candidate, late command or command for another call closes a connection
\* that works: its call has ended at the gateway.
THEOREM OnlyEndedCallsAreClosed == SystemSpec => ClosedOnlyWhenOver
<1> DEFINE Over == \A n \in Nodes, c \in CallIds :
                      (peer[n][c].pc = "open" /\ peer[n][c].accept = "returned"
                          /\ peer'[n][c].pc = "closed") => Terminal(c)
<1>1. ASSUME KnownInv, PlaceInv, [SystemNext]_systemVars
      PROVE  Over
  <2> SUFFICES ASSUME NEW n \in Nodes, NEW c \in CallIds,
                      peer[n][c].pc = "open", peer[n][c].accept = "returned",
                      peer'[n][c].pc = "closed"
               PROVE  Terminal(c)
    OBVIOUS
  <2>1. PeerMove(n, c) /\ PeerAccounted(n, c) /\ peer[n][c] \in PM!PeerRecord
    BY <1>1, StepMovesPeer, SystemTypes DEF KnownInv, PlaceInv
  <2>2. peer[n][c].closing
    BY <2>1, MovesKeep, SoundNoPeer
    DEF PeerMove, AcceptBegins, AcceptEnds, HangupTakes, OnItsOwn
  <2> QED
    BY <2>1, <2>2 DEF PeerAccounted
<1> HIDE DEF Over
<1>2. KnownInv /\ PlaceInv /\ [SystemNext]_systemVars => [Over]_systemVars
  BY <1>1
<1>3. SystemSpec => [][Over]_systemVars
  BY <1>2, PlacesAgree, PTL DEF SystemSpec
<1> QED
  BY <1>3 DEF ClosedOnlyWhenOver, Over

-----------------------------------------------------------------------------
(* One place for a call: the process that was sent its accept.  RouteInv says  *)
(* it of connected nodes; a process the gateway has lost may still be running. *)

Placed(n, c) ==
    peer[n][c].accept # "none" =>
        \E r \in Requests : /\ StartedCall(r) = c /\ Target(r) = n
                            /\ Stage(r) \in {"running", "ok", "error"}

OnePlace == \A n \in Nodes, c \in CallIds : Placed(n, c)

\* A command that a process has taken up is lost only with the process.
LEMMA LostWithProcess ==
    ASSUME RouteInv, PlaceInv, [SystemNext]_systemVars, NEW r \in Requests,
           StartedCall(r) # Undefined,
           Stage(r) \in {"running", "ok", "error"},
           Target(r) \in Nodes, NEW c \in CallIds, peer'[Target(r)][c].accept # "none"
    PROVE  /\ StartedCall(r)' = StartedCall(r) /\ Target(r)' = Target(r)
           /\ Stage(r)' \in {"running", "ok", "error"}
<1>1. ~SystemArrive(r)
  BY ArriveIsFresh DEF StartedCall, NoRequest
<1>2. StartedCall(r)' = StartedCall(r) /\ Target(r)' = Target(r)
  BY <1>1, StepKeepsRequest DEF StartedCall
<1>3. ASSUME invoke'[r].stage = "lost", NodeExit(Target(r)) \/ NodeStart(Target(r))
      PROVE  FALSE
  <2>1. peer'[Target(r)][c] = PM!NoPeer
    <3>1. peer \in [Nodes -> [CallIds -> PM!PeerRecord]]
      BY SystemTypes
    <3>2. CASE NodeExit(Target(r))
      BY <3>1, <3>2 DEF NodeExit
    <3>3. CASE NodeStart(Target(r))
      BY <3>3 DEF NodeStart, RouteInv, OnHead
    <3> QED
      BY <1>3, <3>2, <3>3
  <2> QED
    BY <2>1, SoundNoPeer
<1>4. Stage(r)' \in {"running", "ok", "error"}
  BY <1>1, <1>3, StepMovesCommand DEF Moves, Stage
<1> QED
  BY <1>2, <1>4

LEMMA StepOnePlace ==
    ASSUME KnownInv, PlaceInv, OnePlace, [SystemNext]_systemVars
    PROVE  OnePlace'
<1> SUFFICES ASSUME NEW n \in Nodes, NEW c \in CallIds, peer'[n][c].accept # "none"
             PROVE  \E r \in Requests : /\ StartedCall(r)' = c /\ Target(r)' = n
                                        /\ Stage(r)' \in {"running", "ok", "error"}
  BY DEF OnePlace, Placed
<1>0. RouteInv /\ Undefined \notin CallIds /\ peer[n][c] \in PM!PeerRecord
  BY SystemTypes DEF KnownInv
<1>1. CASE AcceptBegins(n, c)
  <2>1. PICK r \in Requests : DeliverAccept(r) /\ Target(r) = n /\ CallOf(r) = c
    BY <1>1 DEF AcceptBegins
  <2>2. handlers[r].method = "start" /\ UNCHANGED handlers /\ Now(r, "running")
    BY <2>1 DEF DeliverAccept, Delivered
  <2>3. Stage(r)' = "running" /\ Target(r)' = n
    BY <1>0, <2>1, <2>2, NowMoves DEF Stage, Target
  <2> QED
    BY <2>1, <2>2, <2>3 DEF StartedCall, CallOf
<1>2. CASE peer[n][c].accept # "none"
  <2>1. PICK r \in Requests : /\ StartedCall(r) = c /\ Target(r) = n
                              /\ Stage(r) \in {"running", "ok", "error"}
    BY <1>2 DEF OnePlace, Placed
  <2> QED
    BY <1>0, <2>1, LostWithProcess
<1>3. CASE peer[n][c].accept = "none" /\ ~AcceptBegins(n, c)
  <2>1. PeerMove(n, c) /\ SoundPeer(peer[n][c])
    BY <1>0, StepMovesPeer DEF PlaceInv, PeerAccounted
  <2>2. peer'[n][c].accept = "none"
    BY <1>0, <1>3, <2>1, MovesKeep, SoundNoPeer
    DEF PeerMove, AcceptEnds, HangupTakes, OnItsOwn, SoundPeer
  <2> QED
    BY <2>2
<1> QED
  BY <1>1, <1>2, <1>3

\* A call is only ever on the node that was sent its accept.
THEOREM CallsHaveOnePlace == SystemSpec => []OnePlace
<1>1. SystemInit => OnePlace
  BY SoundNoPeer DEF SystemInit, PM!Init, OnePlace, Placed
<1>2. KnownInv /\ PlaceInv /\ OnePlace /\ [SystemNext]_systemVars => OnePlace'
  BY StepOnePlace
<1> QED
  BY <1>1, <1>2, PlacesAgree, PTL DEF SystemSpec

-----------------------------------------------------------------------------
(* The gateway and its nodes implement CallService *)

askedBar   == [c \in CallIds |-> Asked(c)]
runningBar == {n \in Nodes : serving[n]}
mediaBar   == [n \in Nodes |-> [c \in CallIds |-> Media(peer[n][c])]]

AskedAs(stage) == IF stage = "running" THEN "asked"
                  ELSE IF stage = "ok" THEN "answered"
                  ELSE IF stage \in {"error", "lost"} THEN "failed"
                  ELSE "no"

\* A call has one rtc.call.start, and its command is what the call was asked for.
LEMMA AskedByStart ==
    ASSUME StartResponseAgrees, NEW r \in Requests, NEW c \in CallIds, StartedCall(r) = c
    PROVE  Asked(c) = AskedAs(Stage(r))
<1>1. \A q \in Requests : StartedCall(q) = c => q = r
  BY OrchestratorAssumption DEF StartResponseAgrees
<1>2. \A S : AcceptIs(c, S) <=> Stage(r) \in S
  BY <1>1 DEF AcceptIs
<1> QED
  BY <1>2 DEF Asked, AskedAs

LEMMA AskedByStartNext ==
    ASSUME StartResponseAgrees', NEW r \in Requests, NEW c \in CallIds, StartedCall(r)' = c
    PROVE  Asked(c)' = AskedAs(Stage(r)')
<1>1. \A q \in Requests : StartedCall(q)' = c => q = r
  BY OrchestratorAssumption DEF StartResponseAgrees
<1>2. \A S : AcceptIs(c, S)' <=> Stage(r)' \in S
  BY <1>1 DEF AcceptIs
<1> QED
  BY <1>2 DEF Asked, AskedAs

\* Nothing has become of a call whose accept no node has heard of.
LEMMA AskedSame ==
    ASSUME NEW c \in CallIds,
           \A r \in Requests :
              \/ StartedCall(r)' = StartedCall(r) /\ Stage(r)' = Stage(r)
              \/ StartedCall(r) # c /\ StartedCall(r)' # c
              \/ Stage(r) \in {"none", "sent"} /\ Stage(r)' \in {"none", "sent"}
    PROVE  Asked(c)' = Asked(c)
<1>1. ASSUME NEW S \in SUBSET {"running", "ok", "error", "lost"}
      PROVE  AcceptIs(c, S)' <=> AcceptIs(c, S)
  BY DEF AcceptIs
<1>2. /\ AcceptIs(c, {"running"})' <=> AcceptIs(c, {"running"})
      /\ AcceptIs(c, {"ok"})' <=> AcceptIs(c, {"ok"})
      /\ AcceptIs(c, {"error", "lost"})' <=> AcceptIs(c, {"error", "lost"})
  BY <1>1
<1> QED
  BY <1>2 DEF Asked

\* The connection as the service sees it.
LEMMA MediaMoves ==
    ASSUME NEW p, SoundPeer(p)
    PROVE  /\ p.accept = "none" => Media(p) = "none" /\ Media(Begun(p)) = "preparing"
           /\ Media(p) # "none" => p.accept # "none"
           /\ p.accept = "gathering" =>
                 /\ Media(p) \in {"preparing", "broken"}
                 /\ Media(Returned(p)) = IF Media(p) = "preparing" THEN "up" ELSE Media(p)
                 /\ Media(Refused(p)) = "closed"
           /\ Media(PM!Taken(p)) = Media(p)
           /\ Media(Noticed(p)) = Media(p)
           /\ p.pc = "open" => Media(p) \in {"preparing", "up"} /\ Media(Failing(p)) = "broken"
           /\ p.closing =>
                 /\ Media(PM!Closed(p)) = "closed"
                 /\ p.accept = "returned"
                 /\ \/ Media(p) = "up" /\ p.pc = "open"
                    \/ Media(p) = "broken"
                    \/ Media(p) = "closed"
<1>1. p \in PM!PeerRecord
  BY DEF SoundPeer
<1>2. p.pc \in {"none", "open", "failed", "closed"}
  BY <1>1 DEF PM!PeerRecord
<1>3. Media(p) = IF p.pc = "failed" THEN "broken"
                 ELSE IF p.pc # "open" THEN p.pc
                 ELSE IF p.accept = "gathering" THEN "preparing" ELSE "up"
  BY DEF Media
<1>4. p.accept = "none" => Media(Begun(p)) = "preparing"
  BY <1>1 DEF Begun, Media, PM!PeerRecord
<1>5. p.accept = "gathering" =>
         /\ Media(Returned(p)) = IF Media(p) = "preparing" THEN "up" ELSE Media(p)
         /\ Media(Refused(p)) = "closed"
  <2> SUFFICES ASSUME p.accept = "gathering"
               PROVE  /\ Media(Returned(p)) = IF Media(p) = "preparing" THEN "up" ELSE Media(p)
                      /\ Media(Refused(p)) = "closed"
    OBVIOUS
  <2>1. p.pc \in {"open", "failed"}
    BY DEF SoundPeer
  <2>2. Returned(p).pc = p.pc /\ Returned(p).accept = "returned" /\ Refused(p).pc = "closed"
    BY <1>1, MovesKeep
  <2> QED
    BY <1>3, <2>1, <2>2 DEF Media
<1>6. Media(PM!Taken(p)) = Media(p) /\ Media(Noticed(p)) = Media(p)
  BY <1>1, MovesKeep DEF Media
<1>7. Media(Failing(p)) = "broken"
  BY <1>1, MovesKeep DEF Media
<1>8. p.closing => Media(PM!Closed(p)) = "closed" /\ p.accept = "returned"
  <2>1. Media(PM!Closed(p)) = "closed"
    BY <1>1, MovesKeep DEF Media
  <2>2. p.closing => p.accept = "returned"
    BY <1>1 DEF SoundPeer, PM!PeerRecord
  <2> QED
    BY <2>1, <2>2
<1>9. p.closing => p.pc # "none"
  BY <1>8 DEF SoundPeer
<1> QED
  BY <1>2, <1>3, <1>4, <1>5, <1>6, <1>7, <1>8, <1>9 DEF SoundPeer

LEMMA NoMedia == Media(PM!NoPeer) = "none"
  BY DEF Media, PM!NoPeer

\* What a step changes of the records, when it changes nothing else.
EndsCalls ==
    \A c \in CallIds : \/ calls'[c].state = calls[c].state
                       \/ IsLive(c) /\ calls'[c].state \in TERMINAL_STATES

RestOfBar == <<askedBar, runningBar, mediaBar>>

LEMMA EndsRefine ==
    ASSUME TypeOK, EndsCalls, UNCHANGED RestOfBar
    PROVE  Service!Next
<1> DEFINE C == {c \in CallIds : calls'[c].state # calls[c].state}
<1>1. phaseBar' = [c \in CallIds |-> IF c \in C THEN "ended" ELSE phaseBar[c]]
  BY DEF EndsCalls, phaseBar, PhaseOf, LiveStates, TERMINAL_STATES
<1>2. \A c \in C : phaseBar[c] \notin {"unborn", "ended"}
  BY DEF EndsCalls, phaseBar, PhaseOf, IsLive, LiveStates
<1>3. Service!End(C)
  BY <1>1, <1>2 DEF Service!End, phaseBar, RestOfBar, askedBar, runningBar, mediaBar
<1> HIDE DEF C
<1>4. C \in SUBSET CallIds
  BY DEF C
<1> QED
  BY <1>3, <1>4 DEF Service!Next

LEMMA PlaceRefines ==
    ASSUME TypeOK, NEW c \in CallIds, NEW s, startCall(c, s), UNCHANGED RestOfBar
    PROVE  Service!Next
<1>1. calls' = [calls EXCEPT ![c] = Record("initiating", s)]
  BY DEF startCall
<1>2. phaseBar[c] = "unborn"
  BY PhaseOfAbsent DEF startCall, Known, phaseBar
<1>3. phaseBar' = [phaseBar EXCEPT ![c] = "initiating"]
  BY <1>1 DEF phaseBar, TypeOK, Record, PhaseOf, LiveStates
<1>4. Service!Place(c)
  BY <1>2, <1>3 DEF Service!Place, phaseBar, RestOfBar, askedBar, runningBar, mediaBar
<1> QED
  BY <1>4 DEF Service!Next

LEMMA AnswerRefines ==
    ASSUME TypeOK, NEW c \in CallIds, NEW sdp, handleAnswer(c, sdp), Asked(c) = "answered",
           UNCHANGED RestOfBar
    PROVE  Service!Next
<1>1. phaseBar[c] = "initiating"
  BY DEF handleAnswer, phaseBar, PhaseOf, LiveStates
<1>2. phaseBar' = [phaseBar EXCEPT ![c] = "connecting"]
  BY DEF handleAnswer, phaseBar, TypeOK, RtcCallRecord, PhaseOf, LiveStates
<1>3. askedBar[c] = "answered"
  BY DEF askedBar
<1>4. Service!TakeAnswer(c)
  BY <1>1, <1>2, <1>3 DEF Service!TakeAnswer, phaseBar, RestOfBar, askedBar, runningBar, mediaBar
<1> QED
  BY <1>4 DEF Service!Next

LEMMA EndCallEnds ==
    ASSUME TypeOK, NEW c \in CallIds, NEW state \in TERMINAL_STATES, NEW reason,
           EndCall(c, state, reason)
    PROVE  EndsCalls
<1>1. \A d \in CallIds : calls[d] \in RtcCallRecord
  BY DEF TypeOK
<1>2. Ended(calls[c], state, reason).state = state
  BY <1>1 DEF Ended, RtcCallRecord
<1>3. Terminal(c) \/ IsLive(c)
  BY <1>1 DEF EndCall, Known, Terminal, IsLive, RtcCallRecord, RtcCallState
<1> QED
  BY <1>1, <1>2, <1>3 DEF EndCall, EndsCalls, TypeOK

\* A request arrives: a call is placed or hung up.
LEMMA ArriveRefines ==
    ASSUME KnownInv, PlaceInv, NEW r \in Requests, SystemArrive(r)
    PROVE  [Service!Next]_(Service!vars)
<1>0. RouteInv /\ TypeOK /\ PluginTypeOK /\ Arrive(r) /\ UNCHANGED <<peer, serving>>
      /\ handlers \in [Requests -> HandlerRecord] /\ invoke \in [Requests -> InvokeRecord]
  BY SystemTypes DEF KnownInv, SystemArrive
<1>1. ASSUME NEW c \in CallIds
      PROVE  Asked(c)' = Asked(c)
  <2> SUFFICES ASSUME NEW q \in Requests
               PROVE  \/ StartedCall(q)' = StartedCall(q) /\ Stage(q)' = Stage(q)
                      \/ StartedCall(q) # c /\ StartedCall(q)' # c
                      \/ Stage(q) \in {"none", "sent"} /\ Stage(q)' \in {"none", "sent"}
    BY AskedSame
  <2>1. CASE q # r
    <3>1. handlers'[q] = handlers[q]
      BY <1>0, <2>1, OthersUnchanged
    <3>2. invoke'[q] = invoke[q]
      BY <1>0, <2>1 DEF SystemArrive
    <3> QED
      BY <3>1, <3>2 DEF StartedCall, Stage
  <2>2. CASE q = r
    <3>1. Stage(r)' \in {"none", "sent"}
      BY <1>0 DEF SystemArrive, SentBy, NoInvoke, Stage
    <3>2. StartedCall(r) # c
      BY <1>0, ArriveIsFresh, OrchestratorAssumption DEF StartedCall, NoRequest
    <3>3. CASE StartedCall(r)' # c
      BY <2>2, <3>2, <3>3
    <3>4. Stage(r) = "none"
      BY <1>0, ArriveIsFresh DEF PlaceInv, CommandAccounted
    <3> QED
      BY <2>2, <3>1, <3>4
  <2> QED
    BY <2>1, <2>2
<1>2. UNCHANGED RestOfBar
  BY <1>0, <1>1 DEF RestOfBar, askedBar, runningBar, mediaBar
<1>3. CASE \E c \in CallIds, t \in SessionKeys : StartAccepted(r, c, t)
  BY <1>0, <1>2, <1>3, PlaceRefines DEF StartAccepted
<1>4. ASSUME NEW c \in CallIds, NEW registry \in BOOLEAN, IceRequest(r, c, registry)
      PROVE  EndsCalls
  <2>1. handleIceCandidate(c, "remote")
    BY <1>4 DEF IceRequest
  <2>2. \A d \in CallIds : calls'[d].state = calls[d].state
    BY <1>0, <2>1 DEF handleIceCandidate, TypeOK, RtcCallRecord
  <2> QED
    BY <2>2 DEF EndsCalls
<1>5. ASSUME NEW c \in CallIds, NEW reason \in Reasons, NEW registry \in BOOLEAN,
             HangupRequest(r, c, reason, registry)
      PROVE  EndsCalls
  <2>1. EndCall(c, HangupState(reason), reason)
    BY <1>5 DEF HangupRequest, hangup
  <2>2. HangupState(reason) \in TERMINAL_STATES
    BY DEF HangupState, TERMINAL_STATES
  <2> QED
    BY <1>0, <2>1, <2>2, EndCallEnds
<1>6. ASSUME UNCHANGED calls
      PROVE  EndsCalls
  BY <1>6 DEF EndsCalls
<1>7. EndsCalls \/ \E c \in CallIds, t \in SessionKeys : StartAccepted(r, c, t)
  BY <1>0, <1>4, <1>5, <1>6 DEF Arrive, StartRefused, RequestRefused, orchVars, EndsCalls
<1> QED
  BY <1>0, <1>2, <1>3, <1>7, EndsRefine

\* A handler goes on: the answer is taken, or the call ends, or nothing changes.
LEMMA ResumeRefines ==
    ASSUME KnownInv, PlaceInv, NEW r \in Requests, SystemResume(r)
    PROVE  [Service!Next]_(Service!vars)
<1>0. RouteInv /\ TypeOK /\ PluginTypeOK /\ UNCHANGED <<peer, serving, invoke>>
      /\ handlers \in [Requests -> HandlerRecord]
  BY SystemTypes DEF KnownInv, SystemResume
<1>1. Settles(r) /\ Resume(r)
  BY <1>0, ResumeSettles DEF SystemResume, Resume
<1>2. \A q \in Requests : StartedCall(q)' = StartedCall(q) /\ Stage(q)' = Stage(q)
  BY <1>0, <1>1, OthersUnchanged DEF Settles, StartedCall, Stage
<1>3. \A c \in CallIds : Asked(c)' = Asked(c)
  BY <1>2, AskedSame
<1>4. UNCHANGED RestOfBar
  BY <1>0, <1>3 DEF RestOfBar, askedBar, runningBar, mediaBar
<1>5. Awaiting(r) /\ handlers[r].call \in CallIds
  BY <1>0, <1>1 DEF Settles, PluginTypeOK, HandlerRecord
<1>6. ASSUME Stage(r) = "ok", NEW sdp \in Sdps, StartAnswered(r, sdp)
      PROVE  [Service!Next]_(Service!vars)
  <2>1. CASE UNCHANGED orchVars
    <3>1. EndsCalls
      BY <2>1 DEF orchVars, EndsCalls
    <3> QED
      BY <1>0, <1>4, <3>1, EndsRefine
  <2>2. CASE handleAnswer(handlers[r].call, sdp)
    <3>1. StartedCall(r) = handlers[r].call
      BY <1>6 DEF StartAnswered, StartedCall
    <3>2. Asked(handlers[r].call) = "answered"
      BY <1>5, <1>6, <3>1, AskedByStart DEF KnownInv, AskedAs
    <3> QED
      BY <1>0, <1>4, <1>5, <2>2, <3>2, AnswerRefines
  <2> QED
    BY <1>6, <2>1, <2>2 DEF StartAnswered
<1>7. ASSUME StartUnanswered(r)
      PROVE  EndsCalls
  <2>1. EndCall(handlers[r].call, "error", InvokeFailed)
    BY <1>7 DEF StartUnanswered, setError
  <2>2. "error" \in TERMINAL_STATES
    BY DEF TERMINAL_STATES
  <2> QED
    BY <1>0, <1>5, <2>1, <2>2, EndCallEnds
<1>8. ASSUME UNCHANGED calls
      PROVE  EndsCalls
  BY <1>8 DEF EndsCalls
<1>9. EndsCalls \/ \E sdp \in Sdps : Stage(r) = "ok" /\ StartAnswered(r, sdp)
  BY <1>7, <1>8 DEF SystemResume, ForwardReturned, InvokeTimeout, orchVars
<1> QED
  BY <1>0, <1>4, <1>6, <1>9, EndsRefine

\* The service stops.
LEMMA StopRefines ==
    ASSUME KnownInv, SystemStop
    PROVE  Service!Next
<1>1. TypeOK /\ UNCHANGED <<handlers, peer, serving, invoke>> /\ stopService
  BY SystemTypes DEF KnownInv, SystemStop, ServiceStop
<1>2. UNCHANGED RestOfBar
  <2>1. \A c \in CallIds : Asked(c)' = Asked(c)
    BY <1>1 DEF Asked, AcceptIs, StartedCall, Stage
  <2> QED
    BY <1>1, <2>1 DEF RestOfBar, askedBar, runningBar, mediaBar
<1>3. EndsCalls
  <2>1. HangupState("gateway-shutdown") \in TERMINAL_STATES
    BY DEF HangupState, TERMINAL_STATES
  <2>2. \A c \in CallIds : calls[c] \in RtcCallRecord
    BY <1>1 DEF TypeOK
  <2> QED
    BY <1>1, <2>1, <2>2 DEF stopService, EndsCalls, Ended, RtcCallRecord
<1> QED
  BY <1>1, <1>2, <1>3, EndsRefine

-----------------------------------------------------------------------------
(* The nodes *)

\* A process takes up an accept.
LEMMA AcceptRefines ==
    ASSUME KnownInv, PlaceInv, KnownInv', NEW r \in Requests, DeliverAccept(r),
           NEW n \in Nodes, NEW c \in CallIds, Target(r) = n, CallOf(r) = c
    PROVE  Service!Next
<1>0. RouteInv /\ SystemNext /\ PluginTypeOK
      /\ handlers \in [Requests -> HandlerRecord]
      /\ peer \in [Nodes -> [CallIds -> PM!PeerRecord]]
      /\ invoke \in [Requests -> InvokeRecord]
  BY SystemTypes DEF KnownInv, SystemNext, RequestStep
<1>1. /\ Stage(r) = "sent" /\ serving[n] /\ handlers[r].method = "start"
      /\ UNCHANGED <<calls, handlers, serving>>
      /\ peer[n][c].accept = "none"
      /\ Now(r, "running")
  BY DEF DeliverAccept, Delivered, PM!AcceptCall
<1>2. n \in Nodes /\ c \in CallIds
  OBVIOUS
<1>3. StartedCall(r) = c /\ StartedCall(r)' = c
  BY <1>1 DEF StartedCall, CallOf
<1>4. peer' = [peer EXCEPT ![n][c] = Begun(peer[n][c])]
  BY <1>0, <1>2 DEF DeliverAccept, PM!AcceptCall, Begun
<1>5. Media(peer[n][c]) = "none" /\ Media(Begun(peer[n][c])) = "preparing"
  BY <1>1, <1>2, MediaMoves DEF PlaceInv, PeerAccounted
<1>6. mediaBar' = [mediaBar EXCEPT ![n][c] = "preparing"] /\ mediaBar[n][c] = "none"
  BY <1>0, <1>2, <1>4, <1>5 DEF mediaBar
<1>7. Stage(r)' = "running" /\ \A q \in Requests : q # r => Stage(q)' = Stage(q)
  BY <1>0, <1>1, NowMoves DEF Stage
<1>8. Asked(c) = "no" /\ Asked(c)' = "asked"
  <2>1. Asked(c) = AskedAs("sent")
    BY <1>1, <1>2, <1>3, AskedByStart DEF KnownInv
  <2>2. Asked(c)' = AskedAs("running")
    BY <1>2, <1>3, <1>7, AskedByStartNext DEF KnownInv
  <2> QED
    BY <2>1, <2>2 DEF AskedAs
<1>9. \A d \in CallIds : d # c => Asked(d)' = Asked(d)
  BY <1>1, <1>3, <1>7, AskedSame DEF StartedCall
<1>10. askedBar' = [askedBar EXCEPT ![c] = "asked"] /\ askedBar[c] = "no"
  BY <1>2, <1>8, <1>9 DEF askedBar
<1>11. n \in runningBar /\ runningBar' = runningBar /\ phaseBar' = phaseBar
  BY <1>1, <1>2 DEF runningBar, phaseBar
<1>12. phaseBar[c] # "unborn"
  <2>1. c # Undefined /\ TypeOK /\ handlers[r].call = c
    BY <1>0, SystemTypes DEF CallOf
  <2>2. Known(c)
    BY <1>0, <2>1 DEF PluginTypeOK
  <2> QED
    BY <2>1, <2>2 DEF phaseBar, Known, PhaseOf, LiveStates, TypeOK, RtcCallRecord, RtcCallState
<1>13. Service!Prepare(n, c)
  BY <1>6, <1>10, <1>11, <1>12 DEF Service!Prepare, phaseBar, askedBar, runningBar, mediaBar
<1> QED
  BY <1>2, <1>13 DEF Service!Next

\* Commands that set up no connection change nothing the service shows.
LEMMA UnseenRefines ==
    ASSUME KnownInv, UNCHANGED <<calls, handlers, serving>>,
           \A r \in Requests : handlers[r].method # "start" \/ Stage(r)' = Stage(r),
           \A n \in Nodes, c \in CallIds : Media(peer'[n][c]) = Media(peer[n][c])
    PROVE  UNCHANGED Service!vars
<1>1. \A r \in Requests, c \in CallIds :
         \/ StartedCall(r)' = StartedCall(r) /\ Stage(r)' = Stage(r)
         \/ StartedCall(r) # c /\ StartedCall(r)' # c
  BY OrchestratorAssumption DEF StartedCall
<1>2. \A c \in CallIds : Asked(c)' = Asked(c)
  BY <1>1, AskedSame
<1>3. UNCHANGED <<phaseBar, askedBar, runningBar, mediaBar>>
  BY <1>2 DEF phaseBar, askedBar, runningBar, mediaBar
<1> QED
  BY <1>3 DEF Service!vars, phaseBar, askedBar, runningBar, mediaBar

LEMMA CandidateRefines ==
    ASSUME KnownInv, NEW r \in Requests, DeliverCandidate(r)
    PROVE  UNCHANGED Service!vars
<1>1. UNCHANGED <<calls, handlers, serving, peer>> /\ handlers[r].method = "ice" /\ RouteInv
  BY DEF DeliverCandidate, Delivered, KnownInv
<1>2. \A q \in Requests : q # r => Stage(q)' = Stage(q)
  BY <1>1, NowMoves DEF DeliverCandidate, Stage
<1> QED
  BY <1>1, <1>2, UnseenRefines

LEMMA HangupRefines ==
    ASSUME KnownInv, PlaceInv, NEW r \in Requests, DeliverHangup(r)
    PROVE  UNCHANGED Service!vars
<1>1. UNCHANGED <<calls, handlers, serving>> /\ handlers[r].method = "hangup" /\ RouteInv
      /\ peer \in [Nodes -> [CallIds -> PM!PeerRecord]]
  BY SystemTypes DEF DeliverHangup, Delivered, KnownInv
<1>2. \A q \in Requests : q # r => Stage(q)' = Stage(q)
  <2>1. \E stage : Now(r, stage)
    BY DEF DeliverHangup
  <2> QED
    BY <1>1, <2>1, NowMoves DEF Stage
<1>3. ASSUME NEW n \in Nodes, NEW c \in CallIds
      PROVE  Media(peer'[n][c]) = Media(peer[n][c])
  <2>1. peer'[n][c] \in {peer[n][c], PM!Taken(peer[n][c])}
    BY <1>1 DEF DeliverHangup, PM!ClosePeer
  <2>2. Media(PM!Taken(peer[n][c])) = Media(peer[n][c])
    BY MediaMoves DEF PlaceInv, PeerAccounted
  <2> QED
    BY <2>1, <2>2
<1> QED
  BY <1>1, <1>2, <1>3, UnseenRefines

\* The goroutine of a command ends.
LEMMA CommandEndRefines ==
    ASSUME KnownInv, PlaceInv, KnownInv', NEW r \in Requests, CommandEnds(r),
           NEW n \in Nodes, NEW c \in CallIds, Target(r) = n, CallOf(r) = c,
           NEW p, p = peer[n][c]
    PROVE  [Service!Next]_(Service!vars)
<1>0. RouteInv /\ handlers \in [Requests -> HandlerRecord]
      /\ peer \in [Nodes -> [CallIds -> PM!PeerRecord]]
      /\ invoke \in [Requests -> InvokeRecord]
  BY SystemTypes DEF KnownInv
<1>1. Stage(r) = "running" /\ UNCHANGED <<calls, handlers, serving>>
  BY DEF CommandEnds
<1>2. n \in Nodes /\ c \in CallIds
  OBVIOUS
<1>3. ASSUME handlers[r].method = "start",
             NEW stage \in {"ok", "error"}, Now(r, stage),
             NEW q \in {Returned(p), Refused(p)},
             peer' = [peer EXCEPT ![n][c] = q],
             q = IF stage = "ok" THEN Returned(p) ELSE Refused(p),
             p.accept = "gathering"
      PROVE  Service!Next
  <2>1. StartedCall(r) = c /\ StartedCall(r)' = c
    BY <1>1, <1>3 DEF StartedCall, CallOf
  <2>2. Stage(r)' = stage /\ \A t \in Requests : t # r => Stage(t)' = Stage(t)
    BY <1>0, <1>3, NowMoves DEF Stage
  <2>3. Asked(c) = "asked" /\ Asked(c)' = IF stage = "ok" THEN "answered" ELSE "failed"
    <3>1. Asked(c) = AskedAs("running")
      BY <1>1, <1>2, <2>1, AskedByStart DEF KnownInv
    <3>2. Asked(c)' = AskedAs(stage)
      BY <1>2, <2>1, <2>2, AskedByStartNext DEF KnownInv
    <3> QED
      BY <1>3, <3>1, <3>2 DEF AskedAs
  <2>4. \A d \in CallIds : d # c => Asked(d)' = Asked(d)
    BY <1>1, <2>1, <2>2, AskedSame DEF StartedCall
  <2>5. /\ askedBar' = [askedBar EXCEPT ![c] = IF stage = "ok" THEN "answered" ELSE "failed"]
        /\ askedBar[c] = "asked"
    BY <1>2, <2>3, <2>4 DEF askedBar
  <2>6. /\ Media(p) \in {"preparing", "broken"}
        /\ Media(Returned(p)) = IF Media(p) = "preparing" THEN "up" ELSE Media(p)
        /\ Media(Refused(p)) = "closed"
    BY <1>2, <1>3, MediaMoves DEF PlaceInv, PeerAccounted
  <2>7. mediaBar' = [mediaBar EXCEPT ![n][c] = Media(q)] /\ mediaBar[n][c] = Media(p)
    BY <1>0, <1>2, <1>3 DEF mediaBar
  <2>8. runningBar' = runningBar /\ phaseBar' = phaseBar
    BY <1>1 DEF runningBar, phaseBar
  <2>9. CASE stage = "ok"
    <3>1. mediaBar' = [mediaBar EXCEPT ![n][c] = IF @ = "preparing" THEN "up" ELSE @]
      BY <1>3, <2>6, <2>7, <2>9
    <3>2. Service!Ready(n, c)
      BY <2>5, <2>6, <2>7, <2>8, <2>9, <3>1
      DEF Service!Ready, phaseBar, askedBar, runningBar, mediaBar
    <3> QED
      BY <1>2, <3>2 DEF Service!Next
  <2>10. CASE stage = "error"
    <3>1. mediaBar' = [mediaBar EXCEPT ![n][c] = "closed"]
      BY <1>3, <2>6, <2>7, <2>10
    <3>2. Service!Refuse(n, c)
      BY <2>5, <2>6, <2>7, <2>8, <2>10, <3>1
      DEF Service!Refuse, phaseBar, askedBar, runningBar, mediaBar
    <3> QED
      BY <1>2, <3>2 DEF Service!Next
  <2> QED
    BY <1>3, <2>9, <2>10
<1>4. ASSUME PM!AcceptReturn(n, c)
      PROVE  p.accept = "gathering" /\ peer' = [peer EXCEPT ![n][c] = Returned(p)]
  BY <1>0, <1>2, <1>4 DEF PM!AcceptReturn, Returned
<1>5. ASSUME PM!AcceptError(n, c)
      PROVE  p.accept = "gathering" /\ peer' = [peer EXCEPT ![n][c] = Refused(p)]
  BY <1>0, <1>2, <1>5 DEF PM!AcceptError, Refused
<1>6. ASSUME handlers[r].method = "hangup", UNCHANGED peer, Now(r, "ok")
      PROVE  UNCHANGED Service!vars
  <2>1. \A t \in Requests : t # r => Stage(t)' = Stage(t)
    BY <1>0, <1>6, NowMoves DEF Stage
  <2> QED
    BY <1>1, <1>6, <2>1, UnseenRefines
<1>7. \/ handlers[r].method = "start" /\ PM!AcceptReturn(n, c) /\ Now(r, "ok")
      \/ handlers[r].method = "start" /\ PM!AcceptError(n, c) /\ Now(r, "error")
      \/ handlers[r].method = "hangup" /\ UNCHANGED peer /\ Now(r, "ok")
  BY DEF CommandEnds
<1> QED
  BY <1>3, <1>4, <1>5, <1>6, <1>7

\* A connection fails, or somebody who took its entry has closed it.
LEMMA BreakRefines ==
    ASSUME KnownInv, PlaceInv, NEW n \in Nodes, NEW c \in CallIds, NEW media,
           UNCHANGED <<phaseBar, askedBar, runningBar>>,
           mediaBar' = [mediaBar EXCEPT ![n][c] = media],
           \/ mediaBar[n][c] \in {"preparing", "up"} /\ media = "broken"
           \/ media = "closed" /\ \/ mediaBar[n][c] = "up" /\ phaseBar[c] = "ended"
                                  \/ mediaBar[n][c] = "broken" /\ askedBar[c] # "asked"
    PROVE  Service!Next
<1>1. Service!Break(n, c) \/ Service!Release(n, c)
  BY DEF Service!Break, Service!Release, phaseBar, askedBar, runningBar, mediaBar
<1> QED
  BY <1>1 DEF Service!Next

\* Who closes a connection finds its accept returned.
LEMMA ClosingIsAsked ==
    ASSUME KnownInv, PlaceInv, OnePlace, NEW n \in Nodes, NEW c \in CallIds,
           peer[n][c].accept = "returned"
    PROVE  Asked(c) # "asked"
<1>1. PICK r \in Requests : /\ StartedCall(r) = c /\ Target(r) = n
                            /\ Stage(r) \in {"running", "ok", "error"}
  BY DEF OnePlace, Placed
<1>2. handlers[r].method = "start" /\ CallOf(r) = c
  BY <1>1, OrchestratorAssumption DEF StartedCall, CallOf
<1>3. Stage(r) # "running"
  BY <1>1, <1>2 DEF PlaceInv, CommandAccounted
<1> QED
  BY <1>1, <1>3, AskedByStart DEF KnownInv, AskedAs

LEMMA PeerStepRefines ==
    ASSUME KnownInv, PlaceInv, OnePlace, NEW n \in Nodes, NEW c \in CallIds, PeerStep(n, c)
    PROVE  [Service!Next]_(Service!vars)
<1>0. RouteInv /\ TypeOK /\ UNCHANGED <<calls, handlers, serving, invoke>>
      /\ peer \in [Nodes -> [CallIds -> PM!PeerRecord]]
  BY SystemTypes DEF KnownInv, PeerStep
<1>1. PICK p : p = peer[n][c]
  OBVIOUS
<1>2. SoundPeer(p) /\ p \in PM!PeerRecord
  BY <1>1 DEF PlaceInv, PeerAccounted, SoundPeer
<1>3. \A d \in CallIds : Asked(d)' = Asked(d)
  BY <1>0 DEF Asked, AcceptIs, StartedCall, Stage
<1>4. UNCHANGED <<phaseBar, askedBar, runningBar>>
  BY <1>0, <1>3 DEF phaseBar, askedBar, runningBar
<1>5. mediaBar[n][c] = Media(p)
  BY <1>1 DEF mediaBar
<1>6. ASSUME NEW q, peer' = [peer EXCEPT ![n][c] = q]
      PROVE  mediaBar' = [mediaBar EXCEPT ![n][c] = Media(q)]
  BY <1>0, <1>6 DEF mediaBar
<1>7. ASSUME NEW q, peer' = [peer EXCEPT ![n][c] = q], Media(q) = Media(p)
      PROVE  UNCHANGED Service!vars
  <2>1. mediaBar' = mediaBar
    BY <1>5, <1>6, <1>7 DEF mediaBar
  <2> QED
    BY <1>4, <2>1 DEF Service!vars, phaseBar, askedBar, runningBar, mediaBar
<1>8. ASSUME PM!ClosePeerEnd(n, c)
      PROVE  [Service!Next]_(Service!vars)
  <2>1. p.closing /\ peer' = [peer EXCEPT ![n][c] = PM!Closed(p)]
    BY <1>0, <1>1, <1>8 DEF PM!ClosePeerEnd
  <2>2. /\ Media(PM!Closed(p)) = "closed"
        /\ p.accept = "returned"
        /\ \/ Media(p) = "up" /\ p.pc = "open"
           \/ Media(p) = "broken"
           \/ Media(p) = "closed"
    BY <1>2, <2>1, MediaMoves
  <2>3. mediaBar' = [mediaBar EXCEPT ![n][c] = "closed"]
    BY <1>6, <2>1, <2>2
  <2>4. CASE Media(p) = "up" /\ p.pc = "open"
    <3>1. Terminal(c)
      BY <1>1, <2>1, <2>4 DEF PlaceInv, PeerAccounted
    <3>2. phaseBar[c] = "ended"
      BY <3>1 DEF phaseBar, Terminal, PhaseOf, LiveStates, TERMINAL_STATES
    <3> QED
      BY <1>4, <1>5, <2>3, <2>4, <3>2, BreakRefines
  <2>5. CASE Media(p) = "broken"
    <3>1. askedBar[c] # "asked"
      BY <1>1, <2>2, ClosingIsAsked DEF askedBar
    <3> QED
      BY <1>4, <1>5, <2>3, <2>5, <3>1, BreakRefines
  <2>6. CASE Media(p) = "closed"
    BY <1>7, <2>1, <2>2, <2>6
  <2> QED
    BY <2>2, <2>4, <2>5, <2>6
<1>9. ASSUME PM!PcFails(n, c)
      PROVE  [Service!Next]_(Service!vars)
  <2>1. p.pc = "open" /\ peer' = [peer EXCEPT ![n][c] = Failing(p)]
    BY <1>0, <1>1, <1>9 DEF PM!PcFails, Failing
  <2>2. Media(p) \in {"preparing", "up"} /\ Media(Failing(p)) = "broken"
    BY <1>2, <2>1, MediaMoves
  <2>3. mediaBar' = [mediaBar EXCEPT ![n][c] = "broken"]
    BY <1>6, <2>1, <2>2
  <2> QED
    BY <1>4, <1>5, <2>2, <2>3, BreakRefines
<1>10. ASSUME PM!FailedCallback(n, c)
       PROVE  UNCHANGED Service!vars
  <2>1. peer' = [peer EXCEPT ![n][c] = Noticed(p)]
    BY <1>0, <1>1, <1>10 DEF PM!FailedCallback, Noticed
  <2>2. Media(Noticed(p)) = Media(p)
    BY <1>2, MediaMoves
  <2> QED
    BY <1>7, <2>1, <2>2
<1> QED
  BY <1>8, <1>9, <1>10 DEF PeerStep

-----------------------------------------------------------------------------
(* Processes *)

\* The calls whose accept is at a stage with process n.
AcceptsOf(n, stage) ==
    {c \in CallIds : \E r \in Requests : StartedCall(r) = c /\ Target(r) = n /\ Stage(r) = stage}

\* What process n had, or had coming, becomes nothing.
LEMMA LoseAsked ==
    ASSUME KnownInv, KnownInv', NEW n \in Nodes, LoseCommands(n), UNCHANGED handlers,
           NEW c \in CallIds
    PROVE  Asked(c)' = IF c \in AcceptsOf(n, "sent") \cup AcceptsOf(n, "running")
                       THEN "failed" ELSE Asked(c)
<1>0. invoke \in [Requests -> InvokeRecord]
  BY SystemTypes DEF KnownInv
<1>1. ASSUME c \in AcceptsOf(n, "sent") \cup AcceptsOf(n, "running")
      PROVE  Asked(c)' = "failed"
  <2>1. PICK r \in Requests : /\ StartedCall(r) = c /\ Target(r) = n
                              /\ Stage(r) \in {"sent", "running"}
    BY <1>1 DEF AcceptsOf
  <2>2. Stage(r)' = "lost" /\ StartedCall(r)' = c
    BY <1>0, <2>1 DEF LoseCommands, Stage, Target, StartedCall, InvokeRecord
  <2> QED
    BY <2>2, AskedByStartNext DEF KnownInv, AskedAs
<1>2. ASSUME c \notin AcceptsOf(n, "sent") \cup AcceptsOf(n, "running")
      PROVE  Asked(c)' = Asked(c)
  <2>1. ASSUME NEW r \in Requests, StartedCall(r) = c
        PROVE  Stage(r)' = Stage(r)
    BY <1>2, <2>1 DEF AcceptsOf, LoseCommands, Stage, Target
  <2>2. \A r \in Requests : StartedCall(r)' = StartedCall(r)
    BY DEF StartedCall
  <2> QED
    BY <2>1, <2>2, AskedSame
<1> QED
  BY <1>1, <1>2

\* An accept on its way is nothing yet, of a call that was placed.
LEMMA SentAccept ==
    ASSUME KnownInv, NEW n \in Nodes, NEW c \in AcceptsOf(n, "sent")
    PROVE  phaseBar[c] # "unborn" /\ askedBar[c] = "no"
<1>1. c \in CallIds
  BY DEF AcceptsOf
<1>2. PICK r \in Requests : StartedCall(r) = c /\ Stage(r) = "sent"
  BY DEF AcceptsOf
<1>3. askedBar[c] = "no"
  BY <1>1, <1>2, AskedByStart DEF KnownInv, AskedAs, askedBar
<1>4. RouteInv /\ PluginTypeOK /\ TypeOK /\ c # Undefined /\ handlers[r].call = c
  BY <1>1, <1>2, SystemTypes, OrchestratorAssumption DEF KnownInv, StartedCall
<1>5. Known(c)
  BY <1>4 DEF PluginTypeOK
<1>6. phaseBar[c] # "unborn"
  BY <1>1, <1>4, <1>5 DEF phaseBar, Known, PhaseOf, LiveStates, TypeOK, RtcCallRecord, RtcCallState
<1> QED
  BY <1>3, <1>6

\* What is being prepared on n is what n runs an accept for.
LEMMA PreparingIsRunning ==
    ASSUME KnownInv, PlaceInv, OnePlace, NEW n \in Nodes, NEW c \in CallIds
    PROVE  c \in AcceptsOf(n, "running") <=> askedBar[c] = "asked" /\ mediaBar[n][c] # "none"
<1>1. ASSUME c \in AcceptsOf(n, "running")
      PROVE  askedBar[c] = "asked" /\ mediaBar[n][c] # "none"
  <2>1. PICK r \in Requests : StartedCall(r) = c /\ Target(r) = n /\ Stage(r) = "running"
    BY <1>1 DEF AcceptsOf
  <2>2. handlers[r].method = "start" /\ CallOf(r) = c
    BY <2>1, OrchestratorAssumption DEF StartedCall, CallOf
  <2>3. peer[n][c].accept = "gathering" /\ SoundPeer(peer[n][c])
    BY <2>1, <2>2 DEF PlaceInv, CommandAccounted, PeerAccounted
  <2>4. Media(peer[n][c]) # "none"
    BY <2>3, MediaMoves
  <2> QED
    BY <2>1, <2>4, AskedByStart DEF KnownInv, AskedAs, askedBar, mediaBar
<1>2. ASSUME askedBar[c] = "asked", mediaBar[n][c] # "none"
      PROVE  c \in AcceptsOf(n, "running")
  <2>1. SoundPeer(peer[n][c]) /\ Media(peer[n][c]) # "none"
    BY <1>2 DEF PlaceInv, PeerAccounted, mediaBar
  <2>2. peer[n][c].accept # "none"
    BY <2>1, MediaMoves
  <2>3. PICK r \in Requests : StartedCall(r) = c /\ Target(r) = n
    BY <2>2 DEF OnePlace, Placed
  <2>4. AskedAs(Stage(r)) = "asked"
    BY <1>2, <2>3, AskedByStart DEF KnownInv, askedBar
  <2>5. Stage(r) = "running"
    BY <2>4 DEF AskedAs
  <2> QED
    BY <2>3, <2>5 DEF AcceptsOf
<1> QED
  BY <1>1, <1>2

LEMMA NodeStartRefines ==
    ASSUME KnownInv, PlaceInv, KnownInv', OnePlace, NEW n \in Nodes, NodeStart(n)
    PROVE  Service!Next
<1>a. PICK C : C = AcceptsOf(n, "sent")
  OBVIOUS
<1>0. /\ RouteInv /\ ~serving[n] /\ LoseCommands(n)
      /\ UNCHANGED <<calls, handlers, peer>>
      /\ serving' = [serving EXCEPT ![n] = TRUE] /\ serving \in [Nodes -> BOOLEAN]
  BY DEF NodeStart, NodeConnect, orchVars, KnownInv, RouteInv, RouteTypes
<1>1. \A c \in CallIds : mediaBar[n][c] = "none"
  BY <1>0, NoMedia DEF RouteInv, OnHead, mediaBar
<1>2. AcceptsOf(n, "running") = {}
  BY <1>1, PreparingIsRunning DEF AcceptsOf
<1>3. \A c \in CallIds : Asked(c)' = IF c \in C THEN "failed" ELSE Asked(c)
  BY <1>a, <1>0, <1>2, LoseAsked
<1>4. askedBar' = [c \in CallIds |-> IF c \in C THEN "failed" ELSE askedBar[c]]
  BY <1>3 DEF askedBar
<1>5. n \notin runningBar /\ runningBar' = runningBar \cup {n}
  BY <1>0 DEF runningBar
<1>6. \A c \in C : phaseBar[c] # "unborn" /\ askedBar[c] = "no"
  BY <1>a, SentAccept
<1>7. UNCHANGED <<phaseBar, mediaBar>>
  BY <1>0 DEF phaseBar, mediaBar
<1>8. C \in SUBSET CallIds
  BY <1>a DEF AcceptsOf
<1>9. Service!Boot(n, C)
  BY <1>4, <1>5, <1>6, <1>7 DEF Service!Boot, phaseBar, askedBar, runningBar, mediaBar
<1> QED
  BY <1>8, <1>9 DEF Service!Next

LEMMA NodeExitRefines ==
    ASSUME KnownInv, PlaceInv, KnownInv', OnePlace, NEW n \in Nodes, NodeExit(n)
    PROVE  Service!Next
<1>a. PICK C : C = AcceptsOf(n, "sent")
  OBVIOUS
<1>0. /\ RouteInv /\ serving[n] /\ LoseCommands(n)
      /\ UNCHANGED <<calls, handlers>>
      /\ serving' = [serving EXCEPT ![n] = FALSE] /\ serving \in [Nodes -> BOOLEAN]
      /\ peer' = [peer EXCEPT ![n] = [c \in CallIds |-> PM!NoPeer]]
      /\ peer \in [Nodes -> [CallIds -> PM!PeerRecord]]
  BY DEF NodeExit, KnownInv, RouteInv, RouteTypes
<1>1. mediaBar' = [mediaBar EXCEPT ![n] = [c \in CallIds |-> "none"]]
  <2>1. \A c \in CallIds : Media(peer'[n][c]) = "none"
    BY <1>0, NoMedia
  <2>2. \A m \in Nodes : m # n => peer'[m] = peer[m]
    BY <1>0
  <2> QED
    BY <2>1, <2>2 DEF mediaBar
<1>2. AcceptsOf(n, "running")
         = {c \in CallIds : askedBar[c] = "asked" /\ mediaBar[n][c] # "none"}
  BY PreparingIsRunning DEF AcceptsOf
<1>3. AcceptsOf(n, "running") = Service!Preparing(n)
  BY <1>2 DEF Service!Preparing, askedBar, mediaBar
<1>4. \A c \in CallIds : Asked(c)' = IF c \in C \cup Service!Preparing(n)
                                     THEN "failed" ELSE Asked(c)
  BY <1>a, <1>0, <1>3, LoseAsked
<1>5. askedBar' = [c \in CallIds |-> IF c \in C \cup Service!Preparing(n)
                                     THEN "failed" ELSE askedBar[c]]
  BY <1>4 DEF askedBar
<1>6. n \in runningBar /\ runningBar' = runningBar \ {n}
  BY <1>0 DEF runningBar
<1>7. \A c \in C : phaseBar[c] # "unborn" /\ askedBar[c] = "no"
  BY <1>a, SentAccept
<1>8. phaseBar' = phaseBar
  BY <1>0 DEF phaseBar
<1>9. C \in SUBSET CallIds
  BY <1>a DEF AcceptsOf
<1>10. Service!Crash(n, C)
  BY <1>1, <1>5, <1>6, <1>7, <1>8 DEF Service!Crash, phaseBar, askedBar, runningBar, mediaBar
<1> QED
  BY <1>9, <1>10 DEF Service!Next

LEMMA NodeLostRefines ==
    ASSUME KnownInv, NEW n \in Nodes, NodeLost(n)
    PROVE  UNCHANGED Service!vars
<1>0. RouteInv /\ handlers \in [Requests -> HandlerRecord]
      /\ UNCHANGED <<calls, peer, serving, invoke>>
  BY SystemTypes DEF KnownInv, NodeLost, NodeDisconnect, orchVars
<1>1. \A r \in Requests : StartedCall(r)' = StartedCall(r) /\ Stage(r)' = Stage(r)
  <2> SUFFICES ASSUME NEW r \in Requests
               PROVE  /\ handlers'[r].method = handlers[r].method
                      /\ handlers'[r].call = handlers[r].call
    BY <1>0 DEF StartedCall, Stage
  <2>1. handlers'[r] \in {handlers[r], Settled(handlers[r], "reject", "error")}
    BY DEF NodeLost, NodeDisconnect
  <2> QED
    BY <1>0, <2>1 DEF Settled, HandlerRecord
<1>2. \A c \in CallIds : Asked(c)' = Asked(c)
  BY <1>1, AskedSame
<1>3. UNCHANGED <<phaseBar, askedBar, runningBar, mediaBar>>
  BY <1>0, <1>2 DEF phaseBar, askedBar, runningBar, mediaBar
<1> QED
  BY <1>3 DEF Service!vars, phaseBar, askedBar, runningBar, mediaBar

LEMMA InitRefinesService == SystemInit => Service!Init
<1> SUFFICES ASSUME SystemInit
             PROVE  Service!Init
  OBVIOUS
<1>1. phaseBar = [c \in CallIds |-> "unborn"]
  BY PhaseOfAbsent DEF SystemInit, PluginInit, Init, NoRecord, Record, phaseBar
<1>2. askedBar = [c \in CallIds |-> "no"]
  BY DEF SystemInit, NoInvoke, askedBar, Asked, AcceptIs, Stage
<1>3. runningBar = {}
  BY DEF SystemInit, runningBar
<1>4. mediaBar = [n \in Nodes |-> [c \in CallIds |-> "none"]]
  BY NoMedia DEF SystemInit, PM!Init, mediaBar
<1> QED
  BY <1>1, <1>2, <1>3, <1>4 DEF Service!Init, phaseBar, askedBar, runningBar, mediaBar

LEMMA StepRefinesService ==
    ASSUME KnownInv, PlaceInv, OnePlace, KnownInv', [SystemNext]_systemVars
    PROVE  [Service!Next]_(Service!vars)
<1>0. RouteInv /\ handlers \in [Requests -> HandlerRecord]
      /\ invoke \in [Requests -> InvokeRecord]
  BY SystemTypes DEF KnownInv
<1>1. ASSUME NEW r \in Requests, Stage(r) \in {"sent", "running"}
      PROVE  Target(r) \in Nodes /\ CallOf(r) \in CallIds
  BY <1>0, <1>1 DEF PlaceInv, CommandAccounted, InvokeRecord, Stage, Target, HandlerRecord, CallOf
<1>2. ASSUME NEW r \in Requests, RequestStep(r)
      PROVE  [Service!Next]_(Service!vars)
  <2>1. DeliverAccept(r) \/ CommandEnds(r) => Stage(r) \in {"sent", "running"}
    BY DEF DeliverAccept, Delivered, CommandEnds
  <2> QED
    BY <1>1, <1>2, <2>1, ResumeRefines, AcceptRefines, CandidateRefines, HangupRefines,
       CommandEndRefines DEF RequestStep
<1>3. ASSUME NEW n \in Nodes, NodeStep(n)
      PROVE  [Service!Next]_(Service!vars)
  BY <1>3, NodeStartRefines, NodeExitRefines, NodeLostRefines, PeerStepRefines DEF NodeStep
<1>4. CASE UNCHANGED systemVars
  <2>1. \A c \in CallIds : Asked(c)' = Asked(c)
    BY <1>4 DEF systemVars, Asked, AcceptIs, StartedCall, Stage
  <2>2. UNCHANGED <<phaseBar, askedBar, runningBar, mediaBar>>
    BY <1>4, <2>1 DEF systemVars, phaseBar, askedBar, runningBar, mediaBar
  <2> QED
    BY <2>2 DEF Service!vars, phaseBar, askedBar, runningBar, mediaBar
<1> QED
  BY <1>2, <1>3, <1>4, ArriveRefines, StopRefines DEF SystemNext

\* The gateway and its nodes keep what the service promises of a call: one
\* connection is asked for and at most once, an answer is taken only from a node
\* that gave it, and a working connection is closed only under an ended call or
\* with its process.
THEOREM ServiceImplemented == SystemSpec => ImplementsService
<1>1. KnownInv /\ PlaceInv /\ OnePlace /\ KnownInv' /\ [SystemNext]_systemVars
         => [Service!Next]_(Service!vars)
  BY StepRefinesService
<1> QED
  BY <1>1, InitRefinesService, PlacesAgree, CallsHaveOnePlace, PTL
  DEF SystemSpec, ImplementsService, Service!Spec

-----------------------------------------------------------------------------
(* The parts in the whole *)

\* A connection that is being closed, or may be, is not closed yet, and it is
\* either in the map or with the one who took it.
OneCloser(p) == /\ p.closing => ~p.stored /\ p.pc # "closed"
                /\ p.stored => p.pc # "closed"

LEMMA OneCloserSteps ==
    ASSUME NEW p, SoundPeer(p), OneCloser(p)
    PROVE  /\ p.accept = "none" => OneCloser(Begun(p))
           /\ p.accept = "gathering" => OneCloser(Returned(p)) /\ OneCloser(Refused(p))
           /\ OneCloser(PM!Taken(p)) /\ OneCloser(Noticed(p))
           /\ p.closing => OneCloser(PM!Closed(p))
           /\ p.pc = "open" => OneCloser(Failing(p))
<1>1. p \in PM!PeerRecord
  BY DEF SoundPeer
<1>2. p.accept = "none" => OneCloser(Begun(p))
  BY <1>1 DEF SoundPeer, OneCloser, Begun, PM!PeerRecord
<1>3. p.accept = "gathering" => OneCloser(Returned(p)) /\ OneCloser(Refused(p))
  BY <1>1 DEF SoundPeer, OneCloser, Returned, Refused, PM!PeerRecord
<1>4. OneCloser(PM!Taken(p)) /\ PM!Taken(p) \in PM!PeerRecord
  BY <1>1 DEF OneCloser, PM!Taken, PM!PeerRecord
<1>5. OneCloser(Noticed(p))
  BY <1>4 DEF OneCloser, Noticed, PM!PeerRecord
<1>6. p.closing => OneCloser(PM!Closed(p))
  BY <1>1 DEF OneCloser, PM!Closed, PM!PeerRecord
<1>7. p.pc = "open" => OneCloser(Failing(p))
  BY <1>1 DEF OneCloser, Failing, PM!PeerRecord
<1> QED
  BY <1>2, <1>3, <1>4, <1>5, <1>6, <1>7

LEMMA StepCloserAlone ==
    ASSUME KnownInv, PlaceInv, PM!CloserAlone, [SystemNext]_systemVars
    PROVE  PM!CloserAlone'
<1> SUFFICES ASSUME NEW n \in Nodes, NEW c \in CallIds
             PROVE  OneCloser(peer'[n][c])
  BY DEF PM!CloserAlone, OneCloser
<1>1. OneCloser(peer[n][c]) /\ SoundPeer(peer[n][c]) /\ RouteInv
  BY DEF PM!CloserAlone, OneCloser, PlaceInv, PeerAccounted, KnownInv
<1>2. PeerMove(n, c)
  BY <1>1, StepMovesPeer
<1>3. OneCloser(PM!NoPeer)
  BY DEF OneCloser, PM!NoPeer
<1> QED
  BY <1>1, <1>2, <1>3, OneCloserSteps
  DEF PeerMove, AcceptBegins, AcceptEnds, HangupTakes, OnItsOwn

\* What PeerManager keeps of a process that lives for ever holds of processes that
\* come and go under the gateway's commands: a connection that is not closed can
\* still be closed, and by one goroutine only (peer.go, ClosePeer).
THEOREM NodesKeepConnections == SystemSpec => [](PM!PcReachable /\ PM!CloserAlone)
<1>1. SystemInit => PM!CloserAlone
  BY DEF SystemInit, PM!Init, PM!CloserAlone, PM!NoPeer
<1>2. KnownInv /\ PlaceInv /\ PM!CloserAlone /\ [SystemNext]_systemVars => PM!CloserAlone'
  BY StepCloserAlone
<1>3. PlaceInv => PM!PcReachable
  <2> SUFFICES ASSUME PlaceInv, NEW n \in Nodes, NEW c \in CallIds,
                      peer[n][c].pc \in {"open", "failed"}
               PROVE  \/ peer[n][c].accept = "gathering"
                      \/ peer[n][c].stored \/ peer[n][c].closing
    BY DEF PM!PcReachable
  <2>1. SoundPeer(peer[n][c])
    BY DEF PlaceInv, PeerAccounted
  <2> QED
    BY <2>1 DEF SoundPeer, PM!PeerRecord
<1> QED
  BY <1>1, <1>2, <1>3, PlacesAgree, PTL DEF SystemSpec

\* The class's limits hold of the records however many nodes come and go, and
\* whatever becomes of the commands; only a rejected invoke leaves one initiating.
THEOREM SystemKeepsLimits ==
    SystemSpec => [](CapacityBound /\ MapFindsLiveCall /\ InitiatingExplained)
  BY SystemUsesPlugin, PluginKeepsLimits, OnlyRejectsStrand, PTL

\* The records of calls follow CallLifecycle with real nodes behind the plugin too.
THEOREM SystemImplementsLifecycle == SystemSpec => ImplementsLifecycle
  BY SystemUsesPlugin, PluginUsesClass, LifecycleImplemented, PTL
=============================================================================
