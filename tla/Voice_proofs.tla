---------------------------- MODULE Voice_proofs ----------------------------
(***************************************************************************)
(* Safety of VolcClient for any number of sockets.  SessionAgrees is not   *)
(* inductive: that a close event cannot clear the fields of another socket *)
(* needs that, while no connect overtook one, only one socket is unclosed. *)
(*                                                                         *)
(* The accumulator of AudioPipeline against chunkPcm, for any frame size   *)
(* and any amount of audio.                                                *)
(*                                                                         *)
(* The two resamplers against their references, for every buffer of 16-bit *)
(* samples, of any length, with and without half a sample behind them.     *)
(***************************************************************************)
EXTENDS MCVoice, SequenceTheorems, TLAPS

\* The promise of connect is pending exactly until the socket opens or fails.
Promised ==
    \A s \in Sockets : /\ sock[s] = "connecting" => promise[s] = "pending"
                       /\ promise[s] = "pending" => sock[s] \in {"connecting", "closing"}

\* At most the socket this.ws names, or one the owner left, is not closed.
OneSocket ==
    /\ ws # None => sock[ws] # "closed"
    /\ \A s, t \in Sockets : sock[s] # "closed" /\ sock[t] # "closed" => s = t
    /\ \A s \in Sockets : sock[s] \in {"connecting", "open"} => ws = s

\* The flag describes the session of the socket this.ws names.
SessionOfWs ==
    /\ stray = {}
    /\ sessionActive => /\ ws # None
                        /\ sock[ws] \in {"open", "closing"}
                        /\ phase[ws] = "started"
    /\ \A s \in Sockets : ws = s /\ sock[s] = "open" /\ phase[s] = "started" => sessionActive
    /\ \A s \in Sockets : sock[s] = "connecting" => phase[s] = "none"

IInv == VolcTypeOK /\ Promised /\ (~raced => OneSocket /\ SessionOfWs)

-----------------------------------------------------------------------------
LEMMA VolcStart == VolcInit => IInv
  BY VolcAssumption DEF VolcInit, IInv, VolcTypeOK, Promised, OneSocket, SessionOfWs

LEMMA ConnectStep ==
    ASSUME NEW s \in Sockets, IInv, connect(s)
    PROVE  IInv'
<1>1. VolcTypeOK'
  <2>1. raced' \in BOOLEAN
    BY DEF connect
  <2> QED
    BY <2>1 DEF IInv, VolcTypeOK, connect
<1>2. Promised'
  BY DEF IInv, VolcTypeOK, Promised, connect
<1>3. ASSUME ~raced'
      PROVE  OneSocket' /\ SessionOfWs'
  <2>1. ~raced /\ (\A t \in Sockets : sock[t] = "closed")
    BY <1>3 DEF connect, Unclosed
  <2>2. ws = None /\ sessionActive = FALSE /\ stray = {}
    BY <2>1 DEF IInv, VolcTypeOK, OneSocket, SessionOfWs
  <2>3. OneSocket'
    BY <2>1, VolcAssumption DEF IInv, VolcTypeOK, OneSocket, connect
  <2>4. SessionOfWs'
    BY <2>1, <2>2, VolcAssumption DEF IInv, VolcTypeOK, SessionOfWs, connect
  <2> QED
    BY <2>3, <2>4
<1> QED
  BY <1>1, <1>2, <1>3 DEF IInv

\* The methods on the session leave the sockets alone.
LEMMA StartStep ==
    ASSUME NEW s \in Sockets, IInv, startSession(s)
    PROVE  IInv'
<1>1. VolcTypeOK' /\ Promised'
  BY DEF IInv, VolcTypeOK, Promised, startSession
<1>2. ASSUME ~raced'
      PROVE  OneSocket' /\ SessionOfWs'
  <2>1. ~raced
    BY <1>2 DEF startSession
  <2> QED
    BY <2>1, VolcAssumption
    DEF IInv, VolcTypeOK, OneSocket, SessionOfWs, startSession, isConnected
<1> QED
  BY <1>1, <1>2 DEF IInv

LEMMA AudioStep ==
    ASSUME NEW s \in Sockets, IInv, sendAudio(s)
    PROVE  IInv'
<1>1. VolcTypeOK' /\ Promised'
  BY DEF IInv, VolcTypeOK, Promised, sendAudio, Strays
<1>2. ASSUME ~raced'
      PROVE  OneSocket' /\ SessionOfWs'
  <2>1. ~raced
    BY <1>2 DEF sendAudio
  <2>2. Strays(s) = {}
    BY <2>1 DEF IInv, SessionOfWs, sendAudio, Strays
  <2> QED
    BY <2>1, <2>2 DEF IInv, OneSocket, SessionOfWs, sendAudio
<1> QED
  BY <1>1, <1>2 DEF IInv

LEMMA FinishStep ==
    ASSUME NEW s \in Sockets, IInv, finishSession(s)
    PROVE  IInv'
<1>1. VolcTypeOK'
  <2>1. sessionActive' \in BOOLEAN
    BY DEF finishSession
  <2> QED
    BY <2>1 DEF IInv, VolcTypeOK, finishSession, Strays
<1>2. Promised'
  BY DEF IInv, Promised, finishSession
<1>3. ASSUME ~raced'
      PROVE  OneSocket' /\ SessionOfWs'
  <2>1. ~raced
    BY <1>3 DEF finishSession
  <2>2. Strays(s) = {} /\ sock[s] \in {"open", "closing"}
    BY <2>1 DEF IInv, SessionOfWs, finishSession, Strays
  <2>3. ~sessionActive'
    BY <2>2 DEF finishSession
  <2>4. OneSocket'
    BY <2>1 DEF IInv, OneSocket, finishSession
  <2>5. stray' = {}
    BY <2>1, <2>2 DEF IInv, SessionOfWs, finishSession
  <2>6. \A t \in Sockets : ~(ws' = t /\ sock'[t] = "open" /\ phase'[t] = "started")
    BY <2>2 DEF IInv, VolcTypeOK, finishSession
  <2>7. \A t \in Sockets : sock'[t] = "connecting" => phase'[t] = "none"
    BY <2>1, <2>2 DEF IInv, VolcTypeOK, SessionOfWs, finishSession
  <2> QED
    BY <2>3, <2>4, <2>5, <2>6, <2>7 DEF SessionOfWs
<1> QED
  BY <1>1, <1>2, <1>3 DEF IInv

LEMMA DisconnectStep ==
    ASSUME NEW s \in Sockets, IInv, disconnect(s)
    PROVE  IInv'
<1>1. VolcTypeOK' /\ Promised'
  BY DEF IInv, VolcTypeOK, Promised, disconnect
<1>2. ASSUME ~raced'
      PROVE  OneSocket' /\ SessionOfWs'
  <2>1. ~raced
    BY <1>2 DEF disconnect
  <2>2. OneSocket'
    BY <2>1, VolcAssumption DEF IInv, VolcTypeOK, OneSocket, disconnect
  <2>3. SessionOfWs'
    BY <2>1, VolcAssumption DEF IInv, VolcTypeOK, SessionOfWs, disconnect
  <2> QED
    BY <2>2, <2>3
<1> QED
  BY <1>1, <1>2 DEF IInv

-----------------------------------------------------------------------------
LEMMA OpenedStep ==
    ASSUME NEW s \in Sockets, IInv, Opened(s)
    PROVE  IInv'
<1>1. VolcTypeOK' /\ Promised'
  BY DEF IInv, VolcTypeOK, Promised, Opened
<1>2. ASSUME ~raced'
      PROVE  OneSocket' /\ SessionOfWs'
  <2>1. ~raced
    BY <1>2 DEF Opened
  <2>2. OneSocket'
    BY <2>1 DEF IInv, VolcTypeOK, OneSocket, Opened
  <2>3. SessionOfWs'
    BY <2>1 DEF IInv, VolcTypeOK, SessionOfWs, Opened
  <2> QED
    BY <2>2, <2>3
<1> QED
  BY <1>1, <1>2 DEF IInv

LEMMA ErrorStep ==
    ASSUME NEW s \in Sockets, IInv, ConnectError(s)
    PROVE  IInv'
<1>1. VolcTypeOK' /\ Promised'
  BY DEF IInv, VolcTypeOK, Promised, ConnectError
<1>2. ASSUME ~raced'
      PROVE  OneSocket' /\ SessionOfWs'
  <2>1. ~raced
    BY <1>2 DEF ConnectError
  <2>2. OneSocket'
    BY <2>1 DEF IInv, VolcTypeOK, Promised, OneSocket, ConnectError
  <2>3. SessionOfWs'
    BY <2>1 DEF IInv, VolcTypeOK, SessionOfWs, ConnectError
  <2> QED
    BY <2>2, <2>3
<1> QED
  BY <1>1, <1>2 DEF IInv

LEMMA RemoteStep ==
    ASSUME NEW s \in Sockets, IInv, RemoteCloses(s)
    PROVE  IInv'
<1>1. VolcTypeOK' /\ Promised'
  BY DEF IInv, VolcTypeOK, Promised, RemoteCloses
<1>2. ASSUME ~raced'
      PROVE  OneSocket' /\ SessionOfWs'
  <2>1. ~raced
    BY <1>2 DEF RemoteCloses
  <2>2. OneSocket'
    BY <2>1 DEF IInv, VolcTypeOK, OneSocket, RemoteCloses
  <2>3. SessionOfWs'
    BY <2>1 DEF IInv, VolcTypeOK, SessionOfWs, RemoteCloses
  <2> QED
    BY <2>2, <2>3
<1> QED
  BY <1>1, <1>2 DEF IInv

\* The closing socket is the only unclosed one: no other loses its fields.
LEMMA ClosedStep ==
    ASSUME NEW s \in Sockets, IInv, Closed(s)
    PROVE  IInv'
<1>1. VolcTypeOK' /\ Promised'
  BY DEF IInv, VolcTypeOK, Promised, Closed
<1>2. ASSUME ~raced'
      PROVE  OneSocket' /\ SessionOfWs'
  <2>1. ~raced
    BY <1>2 DEF Closed
  <2>2. \A t \in Sockets : sock'[t] = "closed"
    BY <2>1 DEF IInv, VolcTypeOK, OneSocket, Closed
  <2>3. ws' = None /\ ~sessionActive' /\ stray' = {}
    BY <2>1 DEF IInv, SessionOfWs, Closed
  <2> QED
    BY <2>2, <2>3, VolcAssumption DEF OneSocket, SessionOfWs
<1> QED
  BY <1>1, <1>2 DEF IInv

LEMMA StutterStep == IInv /\ UNCHANGED volcVars => IInv'
<1> SUFFICES ASSUME IInv, UNCHANGED volcVars PROVE IInv'
  OBVIOUS
<1> USE DEF volcVars
<1>1. VolcTypeOK'
  BY DEF IInv, VolcTypeOK
<1>2. Promised'
  BY DEF IInv, Promised
<1>3. ~raced' => OneSocket' /\ SessionOfWs'
  BY DEF IInv, OneSocket, SessionOfWs
<1> QED
  BY <1>1, <1>2, <1>3 DEF IInv

\* The inductive invariant of the client.
THEOREM VolcInvariant == VolcSpec => []IInv
<1>1. IInv /\ [VolcNext]_volcVars => IInv'
  BY ConnectStep, StartStep, AudioStep, FinishStep, DisconnectStep, OpenedStep,
     ErrorStep, RemoteStep, ClosedStep, StutterStep DEF VolcNext
<1> QED
  BY <1>1, VolcStart, PTL DEF VolcSpec

\* The flag agrees with the session on the open socket, and no frame strays, unless
\* a connect overtook a close event.
THEOREM SessionAgreement == VolcSpec => []SessionAgrees
<1>1. IInv => SessionAgrees
  <2> SUFFICES ASSUME IInv, ~raced
               PROVE  /\ stray = {}
                      /\ sessionActive => ws # None /\ sock[ws] \in {"open", "closing"}
                      /\ isConnected => (sessionActive <=> phase[ws] = "started")
    BY DEF SessionAgrees
  <2>1. stray = {} /\ (sessionActive => ws # None /\ sock[ws] \in {"open", "closing"})
    BY DEF IInv, SessionOfWs
  <2>2. ASSUME isConnected
        PROVE  sessionActive <=> phase[ws] = "started"
    BY <2>2 DEF IInv, VolcTypeOK, SessionOfWs, isConnected
  <2> QED
    BY <2>1, <2>2
<1> QED
  BY <1>1, VolcInvariant, PTL

\* On the same condition no opening or open socket is out of the owner's reach.
THEOREM NoOrphanSocket == VolcSpec => []NoOrphan
<1>1. IInv => NoOrphan
  BY DEF IInv, OneSocket, NoOrphan
<1> QED
  BY <1>1, VolcInvariant, PTL

-----------------------------------------------------------------------------
(* Sequences and whole numbers *)

\* A function on 1..n is a sequence of length n.
LEMMA FunctionIsSeq ==
    ASSUME NEW S, NEW n \in Nat, NEW f \in [1..n -> S]
    PROVE  f \in Seq(S) /\ Len(f) = n
  OBVIOUS

\* Whole division, as FrameCount and chunkPcm use it.
LEMMA Division ==
    ASSUME NEW x \in Nat, NEW d \in Nat \ {0}
    PROVE  /\ x \div d \in Nat
           /\ (x \div d) * d <= x
           /\ x < (x \div d) * d + d
  OBVIOUS

\* It is the only quotient with that property.
LEMMA DivisionUnique ==
    ASSUME NEW x \in Nat, NEW d \in Nat \ {0}, NEW q \in Nat,
           q * d <= x, x < q * d + d
    PROVE  x \div d = q
  OBVIOUS

\* The frames before the n-th.
LEMMA Before ==
    ASSUME NEW k \in Nat, NEW n \in Nat, NEW d \in Nat, k <= n
    PROVE  k * d \in Nat /\ n * d \in Nat /\ k * d <= n * d
  OBVIOUS

\* Products with a sum or a difference.
LEMMA Product ==
    ASSUME NEW k \in Int, NEW n \in Int, NEW d \in Int
    PROVE  /\ (k + n) * d = k * d + n * d
           /\ (k - n) * d = k * d - n * d
           /\ (k - 1) * d = k * d - d
           /\ k * d \in Int
  OBVIOUS

-----------------------------------------------------------------------------
(* Cutting a sequence of bytes into frames *)

\* fs are the first frames of all, and rest is what is left.
Cut(fs, rest, all) ==
    /\ all \in Seq(Nat) /\ rest \in Seq(Nat) /\ fs \in Seq(Seq(Nat))
    /\ Len(all) = Len(fs) * FrameSize + Len(rest)
    /\ \A k \in 1..Len(fs) :
          /\ Len(fs[k]) = FrameSize
          /\ \A j \in 1..FrameSize : fs[k][j] = all[(k - 1) * FrameSize + j]
    /\ \A j \in 1..Len(rest) : rest[j] = all[Len(fs) * FrameSize + j]

AudioInv == Cut(frames, buffer, given) /\ Len(buffer) < FrameSize

\* A piece of a sequence.
LEMMA Piece ==
    ASSUME NEW S, NEW s \in Seq(S), NEW a \in Nat, NEW b \in Nat, a <= b, b <= Len(s)
    PROVE  /\ SubSeq(s, a + 1, b) \in Seq(S)
           /\ Len(SubSeq(s, a + 1, b)) = b - a
           /\ \A i \in 1..(b - a) : SubSeq(s, a + 1, b)[i] = s[a + i]
<1>1. \A i \in (a + 1)..b : s[i] \in S
  BY ElementOfSeq
<1> DEFINE p == SubSeq(s, a + 1, b)
<1>2. /\ p \in Seq(S)
      /\ Len(p) = IF a + 1 <= b THEN b - (a + 1) + 1 ELSE 0
      /\ \A i \in 1..(b - (a + 1) + 1) : p[i] = s[(a + 1) + i - 1]
  BY <1>1, SubSeqProperties
<1> HIDE DEF p
<1>3. Len(p) = b - a /\ \A i \in 1..(b - a) : p[i] = s[a + i]
  <2>1. b - (a + 1) + 1 = b - a /\ \A i \in Int : (a + 1) + i - 1 = a + i
    OBVIOUS
  <2> QED
    BY <1>2, <2>1
<1> QED
  BY <1>2, <1>3 DEF p

\* The pieces a push cuts off.
LEMMA WholeCut ==
    ASSUME NEW bytes \in Seq(Nat), NEW n \in Nat, n * FrameSize <= Len(bytes)
    PROVE  Cut(Whole(bytes, n), Rest(bytes, n), bytes)
<1> DEFINE F == FrameSize
           fs == Whole(bytes, n)
<1>1. F \in Nat \ {0} /\ Len(bytes) \in Nat /\ n * F \in Nat
  BY AudioAssumption
<1>2. ASSUME NEW k \in 1..n
      PROVE  /\ fs[k] \in Seq(Nat)
             /\ Len(fs[k]) = F
             /\ \A j \in 1..F : fs[k][j] = bytes[(k - 1) * F + j]
  <2>1. k - 1 \in Nat /\ k \in Nat /\ k <= n
    OBVIOUS
  <2>2. (k - 1) * F \in Nat /\ k * F \in Nat /\ k * F <= n * F /\ (k - 1) * F = k * F - F
    BY <1>1, <2>1, Before, Product
  <2>3. fs[k] = SubSeq(bytes, (k - 1) * F + 1, k * F)
    BY DEF Whole
  <2>4. (k - 1) * F <= k * F /\ k * F <= Len(bytes) /\ k * F - (k - 1) * F = F
    BY <1>1, <2>2
  <2> QED
    <3> DEFINE a == (k - 1) * F
               b == k * F
    <3>1. a \in Nat /\ b \in Nat /\ a <= b /\ b <= Len(bytes) /\ b - a = F
      BY <2>2, <2>4
    <3>2. fs[k] = SubSeq(bytes, a + 1, b)
      BY <2>3
    <3> HIDE DEF a, b, fs
    <3>3. /\ fs[k] \in Seq(Nat)
          /\ Len(fs[k]) = F
          /\ \A j \in 1..F : fs[k][j] = bytes[a + j]
      BY <3>1, <3>2, Piece
    <3> QED
      BY <3>3 DEF a
<1>3. fs \in Seq(Seq(Nat)) /\ Len(fs) = n
  <2>1. fs \in [1..n -> Seq(Nat)]
    BY <1>2 DEF Whole
  <2> HIDE DEF fs
  <2> QED
    BY <2>1, FunctionIsSeq
<1>4. /\ Rest(bytes, n) \in Seq(Nat)
      /\ Len(Rest(bytes, n)) = Len(bytes) - n * F
      /\ \A j \in 1..(Len(bytes) - n * F) : Rest(bytes, n)[j] = bytes[n * F + j]
  <2>1. Len(bytes) <= Len(bytes)
    BY <1>1
  <2> QED
    <3> DEFINE a == n * F
               b == Len(bytes)
               r == Rest(bytes, n)
    <3>1. a \in Nat /\ b \in Nat /\ a <= b /\ b <= Len(bytes)
      BY <1>1
    <3>2. r = SubSeq(bytes, a + 1, b)
      BY DEF Rest
    <3> HIDE DEF a, b, r
    <3>3. /\ r \in Seq(Nat)
          /\ Len(r) = b - a
          /\ \A j \in 1..(b - a) : r[j] = bytes[a + j]
      BY <3>1, <3>2, Piece
    <3> QED
      BY <3>3 DEF a, b, r
<1> HIDE DEF fs
<1>5. Cut(fs, Rest(bytes, n), bytes)
  BY <1>1, <1>2, <1>3, <1>4 DEF Cut
<1> QED
  BY <1>5 DEF fs

\* Frames are appended where the cut before them ends.
LEMMA CutFurther ==
    ASSUME NEW fs, NEW rest, NEW all, Cut(fs, rest, all),
           NEW data \in Seq(Nat),
           NEW gs, NEW left, Cut(gs, left, rest \o data)
    PROVE  Cut(fs \o gs, left, all \o data)
<1> DEFINE F == FrameSize
           n == Len(fs)
           m == Len(gs)
           N == n * F
           M == m * F
           bytes == rest \o data
           whole == all \o data
           both == fs \o gs
<1>1. /\ F \in Nat \ {0} /\ n \in Nat /\ m \in Nat /\ N \in Nat /\ M \in Nat
      /\ Len(rest) \in Nat /\ Len(data) \in Nat /\ Len(left) \in Nat /\ Len(all) \in Nat
  BY AudioAssumption DEF Cut
<1>2. /\ all \in Seq(Nat) /\ rest \in Seq(Nat) /\ left \in Seq(Nat)
      /\ fs \in Seq(Seq(Nat)) /\ gs \in Seq(Seq(Nat))
  BY DEF Cut
<1>3. /\ whole \in Seq(Nat)
      /\ Len(whole) = Len(all) + Len(data)
      /\ \A i \in 1..(Len(all) + Len(data)) :
            whole[i] = IF i <= Len(all) THEN all[i] ELSE data[i - Len(all)]
  BY <1>2, ConcatProperties
<1>4. /\ Len(bytes) = Len(rest) + Len(data)
      /\ \A i \in 1..(Len(rest) + Len(data)) :
            bytes[i] = IF i <= Len(rest) THEN rest[i] ELSE data[i - Len(rest)]
  BY <1>2, ConcatProperties
<1>5. /\ both \in Seq(Seq(Nat))
      /\ Len(both) = n + m
      /\ \A k \in 1..(n + m) : both[k] = IF k <= n THEN fs[k] ELSE gs[k - n]
  BY <1>2, ConcatProperties
<1>6. Len(all) = N + Len(rest) /\ Len(bytes) = M + Len(left)
  BY DEF Cut
<1>old. /\ \A i \in 1..Len(rest) : all[N + i] = rest[i]
        /\ \A k \in 1..n : /\ Len(fs[k]) = F
                           /\ \A j \in 1..F : fs[k][j] = all[(k - 1) * F + j]
  BY DEF Cut
<1>new. /\ \A i \in 1..Len(left) : bytes[M + i] = left[i]
        /\ \A k \in 1..m : /\ Len(gs[k]) = F
                           /\ \A j \in 1..F : gs[k][j] = bytes[(k - 1) * F + j]
  BY DEF Cut
<1>prod. /\ (n + m) * F = N + M
         /\ \A h \in Nat : /\ h * F \in Nat
                           /\ (n + h) * F = N + h * F
                           /\ (h + 1) * F = h * F + F
                           /\ h + 1 <= n => (h + 1) * F <= N
                           /\ h + 1 <= m => (h + 1) * F <= M
  <2>1. (n + m) * F = N + M
    BY <1>1, Product
  <2>2. ASSUME NEW h \in Nat
        PROVE  /\ h * F \in Nat
               /\ (n + h) * F = N + h * F
               /\ (h + 1) * F = h * F + F
               /\ h + 1 <= n => (h + 1) * F <= N
               /\ h + 1 <= m => (h + 1) * F <= M
    <3>1. h * F \in Nat /\ (n + h) * F = N + h * F
      BY <1>1, Before, Product
    <3>2. (h + 1) * F = h * F + F
      BY <1>1, Product
    <3>3. (h + 1 <= n => (h + 1) * F <= N) /\ (h + 1 <= m => (h + 1) * F <= M)
      <4>1. h + 1 \in Nat
        OBVIOUS
      <4> QED
        BY <1>1, <4>1, Before
    <3> QED
      BY <3>1, <3>2, <3>3
  <2> QED
    BY <2>1, <2>2
<1> HIDE DEF F, n, m, N, M, bytes, whole, both
\* What is behind the old frames is what is cut now.
<1>7. ASSUME NEW i \in 1..Len(bytes)
      PROVE  whole[N + i] = bytes[i]
  <2>1. N + i \in 1..(Len(all) + Len(data)) /\ i \in 1..(Len(rest) + Len(data))
    BY <1>1, <1>4, <1>6
  <2>2. CASE i <= Len(rest)
    <3>1. N + i <= Len(all) /\ i \in 1..Len(rest)
      BY <1>1, <1>4, <1>6, <2>1, <2>2
    <3>2. all[N + i] = rest[i]
      BY <3>1, <1>old
    <3>3. whole[N + i] = all[N + i] /\ bytes[i] = rest[i]
      BY <1>3, <1>4, <2>1, <2>2, <3>1
    <3> QED
      BY <3>2, <3>3
  <2>3. CASE ~(i <= Len(rest))
    <3>1. ~(N + i <= Len(all)) /\ (N + i) - Len(all) = i - Len(rest)
      BY <1>1, <1>4, <1>6, <2>1, <2>3
    <3>2. whole[N + i] = data[(N + i) - Len(all)] /\ bytes[i] = data[i - Len(rest)]
      BY <1>3, <1>4, <2>1, <2>3, <3>1
    <3> QED
      BY <3>1, <3>2
  <2> QED
    BY <2>2, <2>3
<1>8. Len(whole) = Len(both) * F + Len(left)
  <2>1. Len(whole) = N + M + Len(left)
    <3>1. Len(whole) = Len(all) + Len(data) /\ Len(rest) + Len(data) = M + Len(left)
      BY <1>3, <1>4, <1>6
    <3>2. Len(whole) = N + (Len(rest) + Len(data))
      <4>1. Len(whole) = (N + Len(rest)) + Len(data)
        BY <1>6, <3>1
      <4>2. N \in Nat /\ Len(rest) \in Nat /\ Len(data) \in Nat
        BY <1>1
      <4> QED
        BY <4>1, <4>2
    <3>3. N + (M + Len(left)) = N + M + Len(left)
      BY <1>1
    <3> QED
      BY <3>1, <3>2, <3>3
  <2>2. Len(both) * F = N + M
    BY <1>5, <1>prod
  <2> QED
    BY <2>1, <2>2
<1>9. ASSUME NEW k \in 1..(n + m), NEW j \in 1..F
      PROVE  Len(both[k]) = F /\ both[k][j] = whole[(k - 1) * F + j]
  <2>1. CASE k <= n
    <3>1. k \in 1..n /\ both[k] = fs[k]
      BY <1>1, <1>5, <2>1
    <3>2. PICK h \in Nat : h = k - 1
      BY <1>1
    <3>3. PICK H \in Nat : H = h * F /\ H + F <= N
      <4>1. h + 1 <= n
        BY <1>1, <2>1, <3>2
      <4> QED
        BY <1>prod, <4>1
    <3>4. Len(fs[k]) = F /\ fs[k][j] = all[H + j]
      BY <1>old, <3>1, <3>2, <3>3
    <3>5. H + j \in 1..(Len(all) + Len(data)) /\ H + j <= Len(all)
      BY <1>1, <1>6, <3>3
    <3>6. whole[H + j] = all[H + j]
      BY <1>3, <3>5
    <3> QED
      BY <3>1, <3>2, <3>3, <3>4, <3>6
  <2>2. CASE ~(k <= n)
    <3>1. k - n \in 1..m /\ both[k] = gs[k - n]
      BY <1>1, <1>5, <2>2
    <3>2. PICK h \in Nat : h = k - n - 1 /\ h + 1 <= m /\ k - 1 = n + h
      BY <1>1, <3>1
    <3>3. PICK H \in Nat : H = h * F /\ H + F <= M /\ (k - 1) * F = N + H
      BY <1>prod, <3>2
    <3>4. Len(gs[k - n]) = F /\ gs[k - n][j] = bytes[H + j]
      BY <1>new, <3>1, <3>2, <3>3
    <3>5. H + j \in 1..Len(bytes) /\ N + (H + j) = (N + H) + j
      BY <1>1, <1>6, <3>3
    <3>6. whole[(N + H) + j] = bytes[H + j]
      BY <1>7, <3>5
    <3> QED
      BY <3>1, <3>3, <3>4, <3>6
  <2> QED
    BY <2>1, <2>2
<1>10. ASSUME NEW k \in 1..(n + m)
       PROVE  Len(both[k]) = F
  <2>1. 1 \in 1..F
    BY <1>1
  <2> QED
    BY <1>9, <2>1
<1>11. ASSUME NEW j \in 1..Len(left)
       PROVE  left[j] = whole[Len(both) * F + j]
  <2>1. left[j] = bytes[M + j]
    BY <1>new
  <2>2. M + j \in 1..Len(bytes) /\ (N + M) + j = N + (M + j)
    BY <1>1, <1>6
  <2>3. whole[(N + M) + j] = bytes[M + j]
    BY <1>7, <2>2
  <2> QED
    BY <1>5, <1>prod, <2>1, <2>3
<1>12. /\ whole \in Seq(Nat) /\ left \in Seq(Nat) /\ both \in Seq(Seq(Nat))
       /\ Len(whole) = Len(both) * F + Len(left)
       /\ \A k \in 1..Len(both) : /\ Len(both[k]) = F
                                  /\ \A j \in 1..F : both[k][j] = whole[(k - 1) * F + j]
       /\ \A j \in 1..Len(left) : left[j] = whole[Len(both) * F + j]
  BY <1>2, <1>3, <1>5, <1>8, <1>9, <1>10, <1>11
<1> QED
  BY <1>12 DEF Cut, F, whole, both

-----------------------------------------------------------------------------
(* The accumulator *)

\* The empty accumulator has cut nothing.
LEMMA AudioStart == AudioInit => AudioInv
<1> SUFFICES ASSUME AudioInit
             PROVE  AudioInv
  OBVIOUS
<1>1. given = <<>> /\ buffer = <<>> /\ frames = <<>>
  BY DEF AudioInit
<1> QED
  BY <1>1, AudioAssumption DEF AudioInv, Cut

\* Any data of any length may be pushed.
LEMMA PushStep ==
    ASSUME NEW data \in Seq(Nat), AudioInv, push(data)
    PROVE  AudioInv'
<1> DEFINE bytes == buffer \o data
           n == FrameCount(bytes)
<1>1. bytes \in Seq(Nat) /\ Len(bytes) \in Nat
  BY ConcatProperties DEF AudioInv, Cut
<1>2. n \in Nat /\ n * FrameSize <= Len(bytes) /\ Len(bytes) < n * FrameSize + FrameSize
  BY <1>1, AudioAssumption, Division DEF FrameCount
<1>3. /\ frames' = frames \o Whole(bytes, n)
      /\ buffer' = Rest(bytes, n)
      /\ given' = given \o data
  BY DEF push
<1> HIDE DEF n
<1>4. Cut(Whole(bytes, n), Rest(bytes, n), bytes)
  BY <1>1, <1>2, WholeCut
<1>5. Cut(frames \o Whole(bytes, n), Rest(bytes, n), given \o data)
  BY <1>4, CutFurther DEF AudioInv
<1>6. Len(Rest(bytes, n)) < FrameSize
  <2>1. Len(bytes) = Len(Whole(bytes, n)) * FrameSize + Len(Rest(bytes, n))
    BY <1>4 DEF Cut
  <2>2. Len(Whole(bytes, n)) = n
    <3>1. Whole(bytes, n) \in Seq(Seq(Nat)) /\ DOMAIN Whole(bytes, n) = 1..n
      BY <1>4 DEF Cut, Whole
    <3> QED
      BY <1>2, <3>1, LenProperties
  <2>3. Len(Rest(bytes, n)) \in Nat /\ n * FrameSize \in Nat
    BY <1>2, <1>4, AudioAssumption DEF Cut
  <2> QED
    BY <1>1, <1>2, <2>1, <2>2, <2>3, AudioAssumption
<1> HIDE DEF bytes
<1> QED
  BY <1>3, <1>5, <1>6 DEF AudioInv, Cut

\* Pushes, flush and reset keep the invariant.
LEMMA AudioKept == AudioInv /\ [AudioNext]_audioVars => AudioInv'
<1> SUFFICES ASSUME AudioInv, [AudioNext]_audioVars
             PROVE  AudioInv'
  OBVIOUS
<1>1. ASSUME NEW n \in 0..(2 * FrameSize + 1), push([i \in 1..n |-> Len(given) + i])
      PROVE  AudioInv'
  <2>1. n \in Nat /\ Len(given) \in Nat
    BY AudioAssumption DEF AudioInv, Cut
  <2>2. [i \in 1..n |-> Len(given) + i] \in Seq(Nat)
    <3>1. [i \in 1..n |-> Len(given) + i] \in [1..n -> Nat]
      BY <2>1
    <3> QED
      BY <2>1, <3>1, FunctionIsSeq
  <2> QED
    BY <1>1, <2>2, PushStep
<1>2. CASE flush \/ reset
  <2>1. (given = <<>> /\ buffer = <<>> /\ frames = <<>>)'
    BY <1>2 DEF flush, reset
  <2> QED
    BY <2>1, AudioAssumption DEF AudioInv, Cut
<1>3. CASE UNCHANGED audioVars
  BY <1>3 DEF audioVars, AudioInv, Cut
<1> QED
  BY <1>1, <1>2, <1>3 DEF AudioNext

\* After any pushes the accumulator holds less than a frame, and the frames it
\* returned are what it was given, in order.
THEOREM AccumulatorInvariant == AudioSpec => []AudioInv
<1> QED
  BY AudioStart, AudioKept, PTL DEF AudioSpec

-----------------------------------------------------------------------------
(* The accumulator against chunkPcm *)

\* The number of chunks of n frames and r bytes.
LEMMA ChunkCount ==
    ASSUME NEW n \in Nat, NEW r \in Nat, NEW d \in Nat \ {0}, r < d
    PROVE  ((n * d + r) + d - 1) \div d = IF r = 0 THEN n ELSE n + 1
<1>1. n * d \in Nat /\ (n + 1) * d = n * d + d
  BY Before, Product
<1>2. CASE r = 0
  <2>1. (n * d + r) + d - 1 \in Nat /\ n * d <= (n * d + r) + d - 1
        /\ (n * d + r) + d - 1 < n * d + d
    BY <1>1, <1>2
  <2> QED
    BY <1>2, <2>1, DivisionUnique
<1>3. CASE r # 0
  <2>1. (n * d + r) + d - 1 \in Nat /\ (n + 1) * d <= (n * d + r) + d - 1
        /\ (n * d + r) + d - 1 < (n + 1) * d + d
    BY <1>1, <1>3
  <2>2. n + 1 \in Nat
    OBVIOUS
  <2> QED
    BY <1>3, <2>1, <2>2, DivisionUnique
<1> QED
  BY <1>2, <1>3

\* A whole frame is not padded; any other is a frame all the same.
LEMMA PaddedFrame ==
    ASSUME NEW p \in Seq(Nat), NEW d \in Nat
    PROVE  /\ Len(p) = d => Padded(p, d) = p
           /\ Padded(p, d) \in Seq(Nat)
<1> DEFINE f == [i \in 1..d |-> IF i <= Len(p) THEN p[i] ELSE 0]
<1>1. Padded(p, d) = f
  BY DEF Padded
<1>2. Len(p) \in Nat /\ p \in [1..Len(p) -> Nat]
  BY LenProperties
<1>3. f \in [1..d -> Nat]
  <2> SUFFICES ASSUME NEW i \in 1..d
               PROVE  (IF i <= Len(p) THEN p[i] ELSE 0) \in Nat
    OBVIOUS
  <2>1. CASE i <= Len(p)
    <3>1. i \in 1..Len(p)
      BY <1>2, <2>1
    <3> QED
      BY <1>2, <2>1, <3>1
  <2> QED
    BY <2>1
<1>4. ASSUME Len(p) = d
      PROVE  f = p
  <2>1. p \in [1..d -> Nat] /\ \A i \in 1..d : f[i] = p[i]
    BY <1>2, <1>4
  <2> QED
    BY <1>3, <2>1
<1> QED
  BY <1>1, <1>3, <1>4, FunctionIsSeq

\* What is cut off piece by piece is what chunkPcm cuts at once.
LEMMA CutIsChunked ==
    ASSUME NEW fs, NEW rest, NEW all, Cut(fs, rest, all), Len(rest) < FrameSize
    PROVE  fs \o (IF rest = <<>> THEN <<>> ELSE <<Padded(rest, FrameSize)>>)
             = chunkPcm(all, FrameSize)
<1> DEFINE F == FrameSize
           n == Len(fs)
           r == Len(rest)
           N == n * F
           last == Padded(rest, F)
           c == IF r = 0 THEN n ELSE n + 1
           Chunk(k) == Padded(SubSeq(all, (k - 1) * F + 1, MinOf(k * F, Len(all))), F)
<1>1. /\ F \in Nat \ {0} /\ n \in Nat /\ r \in Nat /\ N \in Nat
      /\ Len(all) = N + r
      /\ all \in Seq(Nat) /\ rest \in Seq(Nat) /\ fs \in Seq(Seq(Nat))
  BY AudioAssumption DEF Cut
<1>2. chunkPcm(all, F) = [k \in 1..c |-> Chunk(k)]
  <2>1. ((n * F + r) + F - 1) \div F = c
    <3>1. r < F
      OBVIOUS
    <3> HIDE DEF n, r, F
    <3> QED
      BY <1>1, <3>1, ChunkCount
  <2>2. (Len(all) + F - 1) \div F = c
    BY <1>1, <2>1
  <2> QED
    BY <2>2 DEF chunkPcm
<1>3. /\ \A j \in 1..r : rest[j] = all[N + j]
      /\ \A k \in 1..n : /\ Len(fs[k]) = F
                         /\ \A j \in 1..F : fs[k][j] = all[(k - 1) * F + j]
  BY DEF Cut
<1>4. r < F
  OBVIOUS
\* The chunks before the last are the frames ...
<1>5. ASSUME NEW k \in 1..n
      PROVE  Chunk(k) = fs[k] /\ fs[k] \in Seq(Nat)
  <2> DEFINE a == (k - 1) * F
             b == k * F
             piece == SubSeq(all, a + 1, b)
  <2>1. a \in Nat /\ b \in Nat /\ a <= b /\ b <= Len(all) /\ b - a = F
    <3>1. k \in Nat /\ k - 1 \in Nat /\ k <= n
      BY <1>1
    <3>2. a \in Nat /\ b \in Nat /\ b <= N
      <4> HIDE DEF n, r, F
      <4>1. a \in Nat
        BY <1>1, <3>1, Before
      <4>2. b \in Nat /\ b <= N
        BY <1>1, <3>1, Before
      <4> QED
        BY <4>1, <4>2
    <3>3. a = b - F
      BY <1>1, <3>1, Product
    <3> HIDE DEF a, b, N
    <3> QED
      BY <1>1, <3>2, <3>3
  <2>2. Chunk(k) = Padded(piece, F)
    <3>1. MinOf(b, Len(all)) = b
      <4> HIDE DEF a, b, N, n, r, F
      <4>1. b <= Len(all) /\ Len(all) \in Nat /\ b \in Nat
        BY <1>1, <2>1
      <4> QED
        BY <4>1 DEF MinOf
    <3> QED
      BY <3>1
  <2>3. fs[k] \in Seq(Nat) /\ Len(fs[k]) = F /\ \A j \in 1..F : fs[k][j] = all[a + j]
    BY <1>1, <1>3, ElementOfSeq
  <2> HIDE DEF a, b, piece, Chunk
  <2>4. piece \in Seq(Nat) /\ Len(piece) = F /\ \A j \in 1..F : piece[j] = all[a + j]
    <3>1. all \in Seq(Nat)
      BY <1>1
    <3>2. /\ piece \in Seq(Nat)
          /\ Len(piece) = b - a
          /\ \A j \in 1..(b - a) : piece[j] = all[a + j]
      BY <2>1, <3>1, Piece DEF piece
    <3> QED
      BY <2>1, <3>2
  <2>5. piece = fs[k]
    <3>1. Len(piece) = Len(fs[k]) /\ \A j \in 1..Len(piece) : piece[j] = fs[k][j]
      BY <2>3, <2>4
    <3> QED
      BY <2>3, <2>4, <3>1, SeqEqual
  <2>6. Padded(piece, F) = piece
    BY <1>1, <2>4, PaddedFrame
  <2> QED
    BY <2>2, <2>3, <2>5, <2>6
\* ... and the last one is what is left.
<1>6. ASSUME r # 0
      PROVE  Chunk(n + 1) = last
  <2> DEFINE piece == SubSeq(all, N + 1, Len(all))
  <2>1. (n + 1) - 1 = n /\ (n + 1) * F = N + F
    <3>1. (n + 1) * F = n * F + 1 * F
      BY <1>1, Product
    <3> QED
      BY <1>1, <3>1
  <2>2. MinOf((n + 1) * F, Len(all)) = Len(all)
    <3> HIDE DEF N
    <3> QED
      BY <1>1, <1>4, <2>1 DEF MinOf
  <2>3. Chunk(n + 1) = Padded(piece, F)
    BY <2>1, <2>2
  <2>4. piece \in Seq(Nat) /\ Len(piece) = r /\ \A j \in 1..r : piece[j] = all[N + j]
    <3> HIDE DEF N
    <3>1. N <= Len(all) /\ Len(all) <= Len(all) /\ Len(all) - N = r /\ Len(all) \in Nat
      BY <1>1
    <3> QED
      BY <1>1, <3>1, Piece
  <2> HIDE DEF piece, Chunk, N
  <2>5. piece = rest
    <3>1. rest \in Seq(Nat) /\ Len(piece) = Len(rest) /\ \A j \in 1..Len(piece) : piece[j] = rest[j]
      BY <1>1, <1>3, <2>4
    <3> QED
      BY <2>4, <3>1, SeqEqual
  <2> QED
    BY <2>3, <2>5
<1> HIDE DEF Chunk, N, n, r
<1>7. CASE r = 0
  <2>1. rest = <<>>
    BY <1>1, <1>7, EmptySeq DEF r
  <2>2. fs \o <<>> = fs
    BY <1>1, ConcatEmptySeq
  <2>3. fs = [k \in 1..n |-> fs[k]]
    BY <1>1, LenProperties DEF n
  <2>4. [k \in 1..n |-> fs[k]] = [k \in 1..n |-> Chunk(k)]
    BY <1>5
  <2> QED
    BY <1>2, <1>7, <2>1, <2>2, <2>3, <2>4
<1>8. CASE r # 0
  <2> DEFINE tail == <<last>>
             chunks == [k \in 1..(n + 1) |-> Chunk(k)]
  <2>1. rest # <<>>
    BY <1>8, EmptySeq DEF r
  <2>2. last \in Seq(Nat)
    BY <1>1, PaddedFrame
  <2> HIDE DEF last
  <2>3. tail \in Seq(Seq(Nat)) /\ Len(tail) = 1 /\ tail[1] = last
    BY <2>2
  <2>4. chunks \in [1..(n + 1) -> Seq(Nat)]
    <3> SUFFICES ASSUME NEW k \in 1..(n + 1)
                 PROVE  Chunk(k) \in Seq(Nat)
      OBVIOUS
    <3>1. k \in 1..n \/ k = n + 1
      BY <1>1
    <3> QED
      BY <1>5, <1>6, <1>8, <2>2, <3>1
  <2>5. n + 1 \in Nat
    BY <1>1
  <2>6. chunks \in Seq(Seq(Nat)) /\ Len(chunks) = n + 1
    <3> HIDE DEF chunks
    <3> QED
      BY <2>4, <2>5, FunctionIsSeq
  <2> HIDE DEF tail
  <2>7. /\ fs \o tail \in Seq(Seq(Nat))
        /\ Len(fs \o tail) = n + 1
        /\ \A k \in 1..(n + 1) : (fs \o tail)[k] = IF k <= n THEN fs[k] ELSE tail[k - n]
    <3>1. /\ fs \o tail \in Seq(Seq(Nat))
          /\ Len(fs \o tail) = Len(fs) + Len(tail)
          /\ \A k \in 1..(Len(fs) + Len(tail)) :
                (fs \o tail)[k] = IF k <= Len(fs) THEN fs[k] ELSE tail[k - Len(fs)]
      BY <1>1, <2>3, ConcatProperties
    <3> QED
      BY <2>3, <3>1 DEF n
  <2>8. ASSUME NEW k \in 1..(n + 1)
        PROVE  (fs \o tail)[k] = chunks[k]
    <3>1. chunks[k] = Chunk(k)
      OBVIOUS
    <3>2. CASE k <= n
      <4>1. k \in 1..n
        BY <1>1, <3>2
      <4> QED
        BY <1>5, <2>7, <3>1, <3>2, <4>1
    <3>3. CASE ~(k <= n)
      <4>1. k = n + 1 /\ k - n = 1
        BY <1>1, <3>3
      <4> QED
        BY <1>6, <1>8, <2>3, <2>7, <3>1, <3>3, <4>1
    <3> QED
      BY <3>2, <3>3
  <2> HIDE DEF chunks
  <2>9. fs \o tail = chunks
    BY <2>6, <2>7, <2>8, SeqEqual
  <2> QED
    BY <1>2, <1>8, <2>1, <2>9 DEF tail, last, chunks
<1> QED
  BY <1>7, <1>8

\* However the audio is cut into pushes, the frames of the accumulator, with the
\* one flush would return, are the chunks of the whole.
THEOREM AccumulatorIsChunkPcm == AudioSpec => []StreamIntact
<1>1. AudioInv => StreamIntact
  BY CutIsChunked DEF AudioInv, StreamIntact, Flushed
<1> QED
  BY <1>1, AccumulatorInvariant, PTL

-----------------------------------------------------------------------------
(* Samples and their bytes *)

Int16 == {v \in Int : -32768 <= v /\ v <= 32767}
Byte  == {b \in Nat : b <= 255}

\* A written sample is two bytes, and reads back as the sample.
LEMMA Int16Bytes ==
    ASSUME NEW v \in Int16
    PROVE  /\ Int16LE(v)[1] \in Byte /\ Int16LE(v)[2] \in Byte
           /\ LET u == Int16LE(v)[1] + 256 * Int16LE(v)[2]
              IN  v = IF u < 32768 THEN u ELSE u - 65536
<1>1. v \in Int /\ -32768 <= v /\ v <= 32767
  BY DEF Int16
<1>2. PICK u \in Int : u = v % 65536
  BY <1>1
<1>3. v >= 0 => u = v
  BY <1>1, <1>2
<1>4. v < 0 => u = v + 65536
  BY <1>1, <1>2
<1>5. 0 <= u /\ u <= 65535 /\ v = IF u < 32768 THEN u ELSE u - 65536
  BY <1>1, <1>3, <1>4
<1>6. Int16LE(v)[1] = u % 256 /\ Int16LE(v)[2] = u \div 256
  BY <1>2 DEF Int16LE
<1>7. PICK low \in Int, high \in Int :
         /\ low = u % 256 /\ high = u \div 256
         /\ low + 256 * high = u
  BY <1>5
<1>8. 0 <= low /\ low <= 255
  BY <1>5, <1>7
<1>9. 0 <= high /\ high <= 255
  BY <1>5, <1>7, <1>8
<1>10. low \in Byte /\ high \in Byte
  BY <1>8, <1>9 DEF Byte
<1> QED
  BY <1>5, <1>6, <1>7, <1>10

\* A buffer of whole samples, with or without half a sample behind them.
Buffered(input, values) ==
    /\ input \in Seq(Byte)
    /\ Len(input) \in {2 * Len(values), 2 * Len(values) + 1}
    /\ \A j \in 0..(Len(values) - 1) : readInt16LE(input, 2 * j) = values[j + 1]

\* The two places of a sample in a buffer.
LEMMA Places ==
    ASSUME NEW j \in Nat
    PROVE  /\ ((2 * j + 1) + 1) \div 2 = j + 1 /\ ((2 * j + 2) + 1) \div 2 = j + 1
           /\ ((2 * j + 1) - 1) % 2 = 0 /\ ((2 * j + 2) - 1) % 2 = 1
           /\ ((2 * j + 1) - 1) \div 2 = j /\ ((2 * j + 2) - 1) \div 2 = j
  OBVIOUS

\* What one byte of a buffer is.
LEMMA BytesOfSamples ==
    ASSUME NEW values \in Seq(Int16)
    PROVE  /\ Bytes(values) \in Seq(Byte)
           /\ Len(Bytes(values)) = 2 * Len(values)
           /\ \A j \in 0..(Len(values) - 1) :
                 /\ Bytes(values)[2 * j + 1] = Int16LE(values[j + 1])[1]
                 /\ Bytes(values)[2 * j + 2] = Int16LE(values[j + 1])[2]
<1> DEFINE n == Len(values)
           B(b) == Int16LE(values[(b + 1) \div 2])[1 + ((b - 1) % 2)]
           f == [b \in 1..(2 * n) |-> B(b)]
<1>1. n \in Nat /\ \A k \in 1..n : values[k] \in Int16
  BY LenProperties, ElementOfSeq
<1>2. Bytes(values) = f
  BY DEF Bytes
<1>3. ASSUME NEW b \in 1..(2 * n)
      PROVE  B(b) \in Byte
  <2> HIDE DEF n
  <2>1. (b + 1) \div 2 \in 1..n /\ (1 + ((b - 1) % 2)) \in {1, 2}
    BY <1>1
  <2>2. values[(b + 1) \div 2] \in Int16
    BY <1>1, <2>1
  <2> QED
    BY <2>1, <2>2, Int16Bytes
<1>4. ASSUME NEW j \in 0..(n - 1)
      PROVE  f[2 * j + 1] = Int16LE(values[j + 1])[1] /\ f[2 * j + 2] = Int16LE(values[j + 1])[2]
  <2> HIDE DEF n
  <2>1. (2 * j + 1) \in 1..(2 * n) /\ (2 * j + 2) \in 1..(2 * n) /\ j \in Nat
    BY <1>1
  <2> QED
    BY <2>1, Places
<1>5. f \in [1..(2 * n) -> Byte] /\ 2 * n \in Nat
  BY <1>1, <1>3
<1> HIDE DEF f, n
<1>6. f \in Seq(Byte) /\ Len(f) = 2 * n
  BY <1>5, FunctionIsSeq
<1> QED
  BY <1>2, <1>4, <1>6 DEF n

LEMMA BytesBuffered ==
    ASSUME NEW values \in Seq(Int16), NEW rest \in {<<>>, << 1 >>}
    PROVE  /\ Buffered(Bytes(values) \o rest, values)
           /\ Len(Bytes(values) \o rest) = 2 * Len(values) <=> rest = <<>>
<1> DEFINE n == Len(values)
           bytes == Bytes(values)
           input == bytes \o rest
<1>1. n \in Nat /\ \A k \in 1..n : values[k] \in Int16
  BY LenProperties, ElementOfSeq
<1>2. bytes \in Seq(Byte) /\ Len(bytes) = 2 * n
  BY BytesOfSamples
<1>3. rest \in Seq(Byte) /\ Len(rest) = IF rest = <<>> THEN 0 ELSE 1
  <2>1. CASE rest = <<>>
    BY <2>1
  <2>2. CASE rest = <<1>>
    <3>1. 1 \in Byte /\ <<1>> # <<>>
      BY DEF Byte
    <3>2. <<1>> \in Seq(Byte) /\ Len(<<1>>) = 1
      BY <3>1
    <3> QED
      BY <2>2, <3>1, <3>2
  <2> QED
    BY <2>1, <2>2
<1> HIDE DEF bytes, n
<1>4. /\ input \in Seq(Byte)
      /\ Len(input) = 2 * n + Len(rest)
      /\ \A i \in 1..(2 * n) : input[i] = bytes[i]
  <2>1. /\ Len(rest) \in Nat
        /\ bytes \o rest \in Seq(Byte)
        /\ Len(bytes \o rest) = Len(bytes) + Len(rest)
        /\ \A i \in 1..(Len(bytes) + Len(rest)) :
              (bytes \o rest)[i] = IF i <= Len(bytes) THEN bytes[i] ELSE rest[i - Len(bytes)]
    BY <1>2, <1>3, ConcatProperties
  <2> QED
    BY <1>1, <1>2, <2>1
<1> HIDE DEF input
<1>5. ASSUME NEW j \in 0..(n - 1)
      PROVE  readInt16LE(input, 2 * j) = values[j + 1]
  <2>1. (2 * j + 1) \in 1..(2 * n) /\ (2 * j + 2) \in 1..(2 * n) /\ j + 1 \in 1..n
    BY <1>1
  <2>2. input[2 * j + 1] = Int16LE(values[j + 1])[1] /\ input[2 * j + 2] = Int16LE(values[j + 1])[2]
    BY <1>4, <2>1, BytesOfSamples DEF bytes, n
  <2> QED
    BY <1>1, <2>1, <2>2, Int16Bytes DEF readInt16LE
<1>6. Len(input) \in {2 * n, 2 * n + 1} /\ (Len(input) = 2 * n <=> rest = <<>>)
  BY <1>1, <1>3, <1>4
<1> QED
  BY <1>4, <1>5, <1>6 DEF Buffered, input, bytes, n

-----------------------------------------------------------------------------
(* The resamplers *)

\* When every read of every output sample is inside of the buffer, the output is
\* the samples, written.
LEMMA Resampled ==
    ASSUME NEW input, NEW from, NEW to, NEW result \in Seq(Int16),
           (Len(input) * to) \div (2 * from) = Len(result),
           \A i \in 0..(Len(result) - 1) :
              /\ CanRead(input, FirstOffset(i, from, to))
              /\ CanRead(input, NextOffset(i, from, to, Len(input)))
              /\ Sample(input, i, from, to) = result[i + 1]
    PROVE  resamplePcm(input, from, to) = [threw |-> FALSE, output |-> Bytes(result)]
<1> DEFINE m == Len(result)
           Out(b) == Int16LE(Sample(input, (b - 1) \div 2, from, to))[1 + ((b - 1) % 2)]
           Ref(b) == Int16LE(result[(b + 1) \div 2])[1 + ((b - 1) % 2)]
<1>1. m \in Nat
  BY LenProperties
<1>2. ASSUME NEW b \in 1..(2 * m)
      PROVE  Out(b) = Ref(b)
  <2> HIDE DEF m
  <2>1. (b - 1) \div 2 \in Int /\ 0 <= (b - 1) \div 2 /\ (b - 1) \div 2 <= m - 1
        /\ (b - 1) \div 2 + 1 = (b + 1) \div 2
    BY <1>1
  <2>2. (b - 1) \div 2 \in 0..(m - 1)
    BY <1>1, <2>1
  <2> QED
    BY <2>1, <2>2 DEF m
<1>3. [b \in 1..(2 * m) |-> Out(b)] = [b \in 1..(2 * m) |-> Ref(b)]
  BY <1>2
<1>4. Bytes(result) = [b \in 1..(2 * m) |-> Ref(b)]
  BY DEF Bytes
<1>5. resamplePcm(input, from, to) = [threw |-> FALSE, output |-> [b \in 1..(2 * m) |-> Out(b)]]
  BY DEF resamplePcm
<1> QED
  BY <1>3, <1>4, <1>5

\* A sample is in the range clamp16 leaves alone.
LEMMA Clamped ==
    ASSUME NEW v \in Int16
    PROVE  v \in Int /\ -32768 <= v /\ v <= 32767 /\ clamp16(v) = v
<1>1. v \in Int /\ -32768 <= v /\ v <= 32767
  BY DEF Int16
<1> QED
  BY <1>1 DEF clamp16, MaxOf, MinOf

\* Any read inside of a buffer returns a number.
LEMMA ReadInt ==
    ASSUME NEW input \in Seq(Byte), NEW offset \in Nat, CanRead(input, offset)
    PROVE  readInt16LE(input, offset) \in Int
<1>1. offset + 1 \in 1..Len(input) /\ offset + 2 \in 1..Len(input)
  BY LenProperties DEF CanRead
<1>2. input[offset + 1] \in Byte /\ input[offset + 2] \in Byte
  BY <1>1, ElementOfSeq
<1>3. Byte \subseteq Int
  BY DEF Byte
<1>4. PICK low \in Int : low = input[offset + 1]
  BY <1>2, <1>3
<1>5. PICK high \in Int : high = input[offset + 2]
  BY <1>2, <1>3
<1>6. PICK u \in Int : u = input[offset + 1] + 256 * input[offset + 2]
  BY <1>4, <1>5
<1>7. readInt16LE(input, offset) \in {u, u - 65536}
  BY <1>6 DEF readInt16LE
<1> QED
  BY <1>7

\* Every third sample, of a buffer of any length.
LEMMA Downsampled ==
    ASSUME NEW values \in Seq(Int16), NEW input, Buffered(input, values)
    PROVE  downsample48to16(input) = [threw |-> FALSE, output |-> Bytes(EveryThird(values))]
<1> DEFINE n == Len(values)
           q == n \div 3
           len == Len(input)
           result == EveryThird(values)
<1>1. n \in Nat /\ len \in Nat /\ len >= 2 * n /\ len <= 2 * n + 1 /\ input \in Seq(Byte)
  BY LenProperties DEF Buffered
<1>2. q \in Nat /\ 3 * q <= n /\ n <= 3 * q + 2
  <2> HIDE DEF n
  <2> QED
    BY <1>1
<1>3. \A k \in 1..q : values[3 * k - 2] \in Int16
  <2> SUFFICES ASSUME NEW k \in 1..q
               PROVE  values[3 * k - 2] \in Int16
    OBVIOUS
  <2>1. (3 * k - 2) \in 1..n
    <3> HIDE DEF n, q
    <3> QED
      BY <1>1, <1>2
  <2> QED
    BY <2>1, ElementOfSeq
<1>4. result \in Seq(Int16) /\ Len(result) = q
  <2>1. result \in [1..q -> Int16]
    BY <1>3 DEF EveryThird
  <2> HIDE DEF result, q
  <2> QED
    BY <1>2, <2>1, FunctionIsSeq
<1>5. (len * 2) \div (2 * 6) = q
  <2> HIDE DEF n, q, len
  <2>1. 2 * 6 = 12 /\ len * 2 >= 12 * q /\ len * 2 < 12 * q + 12
    BY <1>1, <1>2
  <2> QED
    BY <1>1, <1>2, <2>1
<1>6. ASSUME NEW i \in 0..(q - 1)
      PROVE  /\ CanRead(input, FirstOffset(i, 6, 2))
             /\ CanRead(input, NextOffset(i, 6, 2, len))
             /\ Sample(input, i, 6, 2) = result[i + 1]
  <2>1. i \in Nat /\ 6 * i + 2 <= len /\ len - 2 >= 0 /\ 3 * i \in 0..(n - 1) /\ i + 1 \in 1..q
    <3> HIDE DEF n, q, len
    <3> QED
      BY <1>1, <1>2
  <2>2. FirstOffset(i, 6, 2) = 6 * i
    <3>1. (i * 6) \div 2 = 3 * i
      BY <2>1
    <3> QED
      BY <2>1, <3>1 DEF FirstOffset
  <2>3. /\ NextOffset(i, 6, 2, len) \in Nat
        /\ NextOffset(i, 6, 2, len) + 2 <= len
    <3> HIDE DEF len
    <3>1. NextOffset(i, 6, 2, len) = IF 6 * i + 2 < len - 2 THEN 6 * i + 2 ELSE len - 2
      BY <2>2 DEF NextOffset, MinOf
    <3> QED
      BY <1>1, <2>1, <3>1
  <2>4. CanRead(input, FirstOffset(i, 6, 2)) /\ CanRead(input, NextOffset(i, 6, 2, len))
    BY <2>1, <2>2, <2>3 DEF CanRead
  <2>5. readInt16LE(input, 6 * i) = values[3 * i + 1]
    <3>1. 2 * (3 * i) = 6 * i
      BY <2>1
    <3> QED
      BY <2>1, <3>1 DEF Buffered
  <2>6. values[3 * i + 1] \in Int16 /\ result[i + 1] = values[3 * i + 1]
    <3>1. (3 * i + 1) \in 1..n
      <4> HIDE DEF n
      <4> QED
        BY <1>1, <2>1
    <3>2. 3 * (i + 1) - 2 = 3 * i + 1
      BY <2>1
    <3>3. values[3 * i + 1] \in Int16
      BY <3>1, ElementOfSeq
    <3>4. result[i + 1] = values[3 * (i + 1) - 2]
      BY <2>1 DEF EveryThird
    <3> QED
      BY <3>2, <3>3, <3>4
  <2>7. Sample(input, i, 6, 2) = values[3 * i + 1]
    <3>1. PICK s0 \in Int16 : s0 = values[3 * i + 1]
      BY <2>6
    <3>2. PICK s1 \in Int : s1 = readInt16LE(input, NextOffset(i, 6, 2, len))
      BY <1>1, <2>3, <2>4, ReadInt
    <3>3. PICK frac : frac = (i * 6) % 2 /\ frac = 0
      BY <2>1
    <3>4. Sample(input, i, 6, 2) = clamp16((2 * (s0 * 2 + frac * (s1 - s0)) + 2) \div (2 * 2))
      BY <2>2, <2>5, <3>1, <3>2, <3>3 DEF Sample
    <3>5. s0 \in Int /\ clamp16(s0) = s0
      BY Clamped
    <3>6. (2 * (s0 * 2 + frac * (s1 - s0)) + 2) \div (2 * 2) = s0
      <4>1. 2 * (s0 * 2 + frac * (s1 - s0)) + 2 = 4 * s0 + 2 /\ 2 * 2 = 4
        BY <3>2, <3>3, <3>5
      <4>2. (4 * s0 + 2) \div 4 = s0
        BY <3>5
      <4> QED
        BY <4>1, <4>2
    <3> QED
      BY <3>1, <3>4, <3>5, <3>6
  <2> QED
    BY <2>4, <2>6, <2>7
<1> HIDE DEF result, q
<1>7. resamplePcm(input, 6, 2) = [threw |-> FALSE, output |-> Bytes(result)]
  BY <1>4, <1>5, <1>6, Resampled
<1> QED
  BY <1>7 DEF downsample48to16, result

\* The mean of two samples, rounded up, is a sample.
LEMMA MeanOfSamples ==
    ASSUME NEW s0 \in Int16, NEW s1 \in Int16
    PROVE  (s0 + s1 + 1) \div 2 \in Int16
<1>1. /\ s0 \in Int /\ -32768 <= s0 /\ s0 <= 32767
      /\ s1 \in Int /\ -32768 <= s1 /\ s1 <= 32767
  BY Clamped
<1>2. PICK mean \in Int : mean = (s0 + s1 + 1) \div 2
  BY <1>1
<1>3. 2 * mean <= s0 + s1 + 1 /\ s0 + s1 + 1 <= 2 * mean + 1
  BY <1>1, <1>2
<1>4. -32768 <= mean
  BY <1>1, <1>3
<1>5. mean <= 32767
  BY <1>1, <1>3
<1>6. mean \in Int16
  BY <1>4, <1>5 DEF Int16
<1> QED
  BY <1>2, <1>6

\* The samples and the means between them, of a buffer of whole samples.
LEMMA Upsampled ==
    ASSUME NEW values \in Seq(Int16), NEW input, Buffered(input, values),
           Len(input) = 2 * Len(values)
    PROVE  upsample24to48(input) = [threw |-> FALSE, output |-> Bytes(Doubled(values))]
<1> DEFINE n == Len(values)
           len == Len(input)
           result == Doubled(values)
           D(k) == LET here == (k + 1) \div 2
                   IN  IF k % 2 = 1 \/ here = n THEN values[here]
                       ELSE (values[here] + values[here + 1] + 1) \div 2
<1>1. n \in Nat /\ len = 2 * n /\ \A k \in 1..n : values[k] \in Int16
  BY LenProperties, ElementOfSeq
<1>2. result = [k \in 1..(2 * n) |-> D(k)]
  BY DEF Doubled
<1> HIDE DEF n, len
<1>3. ASSUME NEW k \in 1..(2 * n)
      PROVE  D(k) \in Int16
  <2>1. PICK here \in Int : here = (k + 1) \div 2 /\ here \in 1..n
    BY <1>1
  <2>2. values[here] \in Int16
    BY <1>1, <2>1
  <2>3. CASE k % 2 = 1 \/ here = n
    BY <2>1, <2>2, <2>3
  <2>4. CASE ~(k % 2 = 1 \/ here = n)
    <3>1. here + 1 \in 1..n
      BY <1>1, <2>1, <2>4
    <3>2. values[here + 1] \in Int16
      BY <1>1, <3>1
    <3> QED
      BY <2>1, <2>2, <2>4, <3>2, MeanOfSamples
  <2> QED
    BY <2>3, <2>4
<1>4. result \in Seq(Int16) /\ Len(result) = 2 * n
  <2>1. result \in [1..(2 * n) -> Int16] /\ 2 * n \in Nat
    BY <1>1, <1>2, <1>3
  <2> HIDE DEF result
  <2> QED
    BY <2>1, FunctionIsSeq
<1>5. (len * 6) \div (2 * 3) = 2 * n
  BY <1>1
<1>6. ASSUME NEW i \in 0..(2 * n - 1)
      PROVE  /\ CanRead(input, FirstOffset(i, 3, 6))
             /\ CanRead(input, NextOffset(i, 3, 6, len))
             /\ Sample(input, i, 3, 6) = result[i + 1]
  <2>1. PICK h \in Nat : (i = 2 * h \/ i = 2 * h + 1) /\ h + 1 <= n
    <3>1. i \div 2 \in Nat /\ (i = 2 * (i \div 2) \/ i = 2 * (i \div 2) + 1) /\ i \div 2 + 1 <= n
      BY <1>1
    <3> QED
      BY <3>1
  <2>2. FirstOffset(i, 3, 6) = 2 * h
    <3>1. (i * 3) \div 6 = h
      BY <2>1
    <3> QED
      BY <3>1 DEF FirstOffset
  <2>3. PICK g \in Nat : g = (IF h + 1 = n THEN h ELSE h + 1) /\ NextOffset(i, 3, 6, len) = 2 * g
    <3>1. NextOffset(i, 3, 6, len) = IF 2 * h + 2 < 2 * n - 2 THEN 2 * h + 2 ELSE 2 * n - 2
      BY <1>1, <2>2 DEF NextOffset, MinOf
    <3>2. CASE h + 1 = n
      BY <1>1, <3>1, <3>2
    <3>3. CASE h + 1 # n
      <4>1. h + 1 \in Nat /\ NextOffset(i, 3, 6, len) = 2 * (h + 1)
        BY <1>1, <2>1, <3>1, <3>3
      <4> QED
        BY <3>3, <4>1
    <3> QED
      BY <3>2, <3>3
  <2>4. h \in 0..(n - 1) /\ g \in 0..(n - 1) /\ h + 1 \in 1..n /\ g + 1 \in 1..n
    BY <1>1, <2>1, <2>3
  <2>5. CanRead(input, FirstOffset(i, 3, 6)) /\ CanRead(input, NextOffset(i, 3, 6, len))
    <3>1. 2 * h + 2 <= 2 * n /\ 2 * g + 2 <= 2 * n
      BY <1>1, <2>4
    <3>2. Len(input) = 2 * n
      BY DEF n
    <3> QED
      BY <2>2, <2>3, <3>1, <3>2 DEF CanRead
  <2>6. PICK s0 \in Int16, s1 \in Int16 :
           /\ s0 = values[h + 1] /\ s1 = values[g + 1]
           /\ s0 = readInt16LE(input, FirstOffset(i, 3, 6))
           /\ s1 = readInt16LE(input, NextOffset(i, 3, 6, len))
    <3>1. values[h + 1] \in Int16 /\ values[g + 1] \in Int16
      BY <1>1, <2>4
    <3>2. readInt16LE(input, 2 * h) = values[h + 1] /\ readInt16LE(input, 2 * g) = values[g + 1]
      BY <2>4 DEF Buffered, n
    <3> QED
      BY <2>2, <2>3, <3>1, <3>2
  <2>7. s0 \in Int /\ s1 \in Int
    BY Clamped
  <2>8. Sample(input, i, 3, 6) = clamp16((2 * (s0 * 6 + ((i * 3) % 6) * (s1 - s0)) + 6) \div (2 * 6))
    BY <2>6 DEF Sample, len
  <2>9. result[i + 1] = D(i + 1)
    <3>1. i + 1 \in 1..(2 * n)
      BY <1>1
    <3> QED
      BY <1>2, <3>1
  <2>10. CASE i = 2 * h
    <3>1. (i * 3) % 6 = 0 /\ (i + 1) % 2 = 1 /\ ((i + 1) + 1) \div 2 = h + 1
      BY <2>10
    <3>2. D(i + 1) = s0
      BY <2>6, <3>1
    <3>3. PICK frac : frac = (i * 3) % 6 /\ frac = 0
      BY <3>1
    <3>4. 2 * (s0 * 6 + frac * (s1 - s0)) + 6 = 12 * s0 + 6 /\ 2 * 6 = 12
      BY <2>7, <3>3
    <3>5. (12 * s0 + 6) \div 12 = s0
      BY <2>7
    <3>6. Sample(input, i, 3, 6) = s0
      BY <2>8, <3>3, <3>4, <3>5, Clamped
    <3> QED
      BY <2>5, <2>9, <3>2, <3>6
  <2>11. CASE i = 2 * h + 1
    <3>1. (i * 3) % 6 = 3 /\ (i + 1) % 2 = 0 /\ ((i + 1) + 1) \div 2 = h + 1
      BY <2>11
    <3>2. PICK frac : frac = (i * 3) % 6 /\ frac = 3
      BY <3>1
    <3>3. 2 * (s0 * 6 + frac * (s1 - s0)) + 6 = 6 * (s0 + s1 + 1) /\ 2 * 6 = 12
      BY <2>7, <3>2
    <3>4. (6 * (s0 + s1 + 1)) \div 12 = (s0 + s1 + 1) \div 2
      BY <2>7
    <3>5. Sample(input, i, 3, 6) = (s0 + s1 + 1) \div 2
      BY <2>8, <3>2, <3>3, <3>4, MeanOfSamples, Clamped
    <3>6. D(i + 1) = (s0 + s1 + 1) \div 2
      <4>1. CASE h + 1 = n
        <5>1. s1 = s0
          BY <2>3, <2>6, <4>1
        <5>2. (s0 + s0 + 1) \div 2 = s0
          BY <2>7
        <5>3. D(i + 1) = s0
          BY <2>6, <3>1, <4>1
        <5> QED
          BY <5>1, <5>2, <5>3
      <4>2. CASE h + 1 # n
        <5>1. s1 = values[(h + 1) + 1]
          BY <2>3, <2>6, <4>2
        <5>2. ~((i + 1) % 2 = 1 \/ h + 1 = n)
          BY <3>1, <4>2
        <5>3. D(i + 1) = (values[h + 1] + values[(h + 1) + 1] + 1) \div 2
          BY <3>1, <5>2
        <5> QED
          BY <2>6, <5>1, <5>3
      <4> QED
        BY <4>1, <4>2
    <3> QED
      BY <2>5, <2>9, <3>5, <3>6
  <2> QED
    BY <2>1, <2>10, <2>11
<1> HIDE DEF result
<1>7. resamplePcm(input, 3, 6) = [threw |-> FALSE, output |-> Bytes(result)]
  BY <1>4, <1>5, <1>6, Resampled DEF len
<1> QED
  BY <1>7 DEF upsample24to48, result

\* Half a sample behind the last one counts as an output sample, which no read finds.
LEMMA UpsampleThrows ==
    ASSUME NEW values \in Seq(Int16), NEW input, Buffered(input, values),
           Len(input) # 2 * Len(values)
    PROVE  upsample24to48(input).threw = TRUE
<1> DEFINE n == Len(values)
           len == Len(input)
<1>1. n \in Nat /\ len = 2 * n + 1
  BY LenProperties DEF Buffered
<1> HIDE DEF n
<1>2. (len * 6) \div (2 * 3) = 2 * n + 1
  BY <1>1
<1>3. 2 * n \in 0..((2 * n + 1) - 1)
  BY <1>1
<1>4. FirstOffset(2 * n, 3, 6) = 2 * n
  <2>1. ((2 * n) * 3) \div 6 = n
    BY <1>1
  <2> QED
    BY <2>1 DEF FirstOffset
<1>5. ~CanRead(input, FirstOffset(2 * n, 3, 6))
  BY <1>1, <1>4 DEF CanRead
<1> HIDE DEF len
<1>6. resamplePcm(input, 3, 6) = [threw |-> TRUE, output |-> <<>>]
  BY <1>2, <1>3, <1>5 DEF resamplePcm, len
<1> QED
  BY <1>6 DEF upsample24to48

-----------------------------------------------------------------------------
(* The parts together *)

\* A behaviour of the voice path is one of each of its parts.
THEOREM VoiceIsItsParts == Spec => VolcSpec /\ AudioSpec
<1>1. Init => VolcInit /\ AudioInit
  BY DEF Init
<1>2. [Next]_<<volcVars, audioVars, part, samples, half>> => [VolcNext]_volcVars /\ [AudioNext]_audioVars
  BY DEF Next, volcVars, audioVars
<1> QED
  BY <1>1, <1>2, PTL DEF Spec, VolcSpec, AudioSpec

\* The input of the resampler is a sequence of samples, with half a one or none.
ResampleInv == samples \in Seq(Int16) /\ half \in {<<>>, <<1>>}

LEMMA SamplesAre16Bit == Samples \subseteq Int16
  BY DEF Samples, Int16

\* For an input of any length, downsample48to16 returns every third sample; and
\* upsample24to48 puts the rounded mean of its neighbours between any two samples and
\* holds the last one, or throws when half a sample trails.
THEOREM ResamplersSound == Spec => []ResampleSound
<1>1. Init => ResampleInv
  BY DEF Init, ResampleInv
<1>2. ResampleInv /\ [Next]_<<volcVars, audioVars, part, samples, half>> => ResampleInv'
  <2> SUFFICES ASSUME ResampleInv, [Next]_<<volcVars, audioVars, part, samples, half>>
               PROVE  ResampleInv'
    OBVIOUS
  <2>1. UNCHANGED half
    BY DEF Next
  <2>2. samples' \in Seq(Int16)
    <3>1. CASE UNCHANGED samples
      BY <3>1 DEF ResampleInv
    <3>2. ASSUME NEW v \in Samples,
                 samples' = IF Len(samples) < MaxSamples THEN Append(samples, v) ELSE <<v>>
          PROVE  samples' \in Seq(Int16)
      <4>1. v \in Int16
        BY SamplesAre16Bit
      <4>2. Append(samples, v) \in Seq(Int16) /\ <<v>> \in Seq(Int16)
        BY <4>1 DEF ResampleInv
      <4> QED
        BY <3>2, <4>2
    <3> QED
      BY <3>1, <3>2 DEF Next
  <2> QED
    BY <2>1, <2>2 DEF ResampleInv
<1>3. ResampleInv => ResampleSound
  <2> SUFFICES ASSUME ResampleInv
               PROVE  ResampleSound
    OBVIOUS
  <2> DEFINE input == Bytes(samples) \o half
  <2>1. samples \in Seq(Int16) /\ half \in {<<>>, <<1>>}
    BY DEF ResampleInv
  <2>2. Buffered(input, samples) /\ (Len(input) = 2 * Len(samples) <=> half = <<>>)
    BY <2>1, BytesBuffered
  <2> HIDE DEF input
  <2>3. downsample48to16(input) = [threw |-> FALSE, output |-> Bytes(EveryThird(samples))]
    BY <2>1, <2>2, Downsampled
  <2>4. half = <<>> => upsample24to48(input) = [threw |-> FALSE, output |-> Bytes(Doubled(samples))]
    BY <2>1, <2>2, Upsampled
  <2>5. half # <<>> => upsample24to48(input).threw = TRUE
    BY <2>1, <2>2, UpsampleThrows
  <2> QED
    BY <2>3, <2>4, <2>5 DEF ResampleSound, input
<1> QED
  BY <1>1, <1>2, <1>3, PTL DEF Spec
=============================================================================
