----------------------- MODULE CallOrchestrator_proofs -----------------------
(***************************************************************************)
(* Proofs about the class CallOrchestrator, for any number of calls,       *)
(* sessions, answers and reasons and any limit.  Every method either       *)
(* places one call (startCall) or changes records one by one and leaves    *)
(* the session map alone; RecordStep lists the ways a record can change,   *)
(* and the invariants are proved from that list.                           *)
(***************************************************************************)
EXTENDS CallOrchestrator, FiniteSetTheorems, TLAPS

\* The ways one method changes one record.
Answered(old, new) ==
    /\ old.state = "initiating"
    /\ \E sdp \in Sdps : new = [old EXCEPT !.answerSdp = sdp, !.state = "connecting"]

Activated(old, new) ==
    /\ old.state \in {"connecting", "initiating"}
    /\ new = [old EXCEPT !.state = "active", !.connectedAt = TRUE]

EntryAdded(old, new) ==
    \/ /\ old.state \in LiveStates
       /\ old.localCandidates < MaxPushes
       /\ new = [old EXCEPT !.localCandidates = @ + 1]
    \/ /\ old.state \in LiveStates
       /\ old.remoteCandidates < MaxPushes
       /\ new = [old EXCEPT !.remoteCandidates = @ + 1]
    \/ /\ old.state # "absent"
       /\ old.transcript < MaxPushes
       /\ new = [old EXCEPT !.transcript = @ + 1]

Finished(old, new) ==
    /\ old.state \in LiveStates
    /\ \E reason \in Reasons :
          \E state \in {"error", "timeout", HangupState(reason)} :
             new = Ended(old, state, reason)

RecordStep(old, new) == \/ new = old
                        \/ Answered(old, new)
                        \/ Activated(old, new)
                        \/ EntryAdded(old, new)
                        \/ Finished(old, new)

\* A method called for c changes c's record at most.
OneRecordStep == /\ \E c \in CallIds :
                       /\ RecordStep(calls[c], calls'[c])
                       /\ \A d \in CallIds \ {c} : calls'[d] = calls[d]
                 /\ calls' = [c \in CallIds |-> calls'[c]]
                 /\ UNCHANGED sessionCallMap

\* The service's stop ends several calls, or none.
SweepStep == /\ \A c \in CallIds : \/ calls'[c] = calls[c]
                                    \/ Finished(calls[c], calls'[c])
             /\ calls' = [c \in CallIds |-> calls'[c]]
             /\ UNCHANGED sessionCallMap

\* A step of either kind.
RecordsStep == /\ \A c \in CallIds : RecordStep(calls[c], calls'[c])
               /\ calls' = [c \in CallIds |-> calls'[c]]
               /\ UNCHANGED sessionCallMap

------------------------------------------------------------------------------
(* Typing *)

LEMMA StatesFact ==
    /\ "absent" \notin RtcCallState
    /\ LiveStates \cap TERMINAL_STATES = {}
BY DEF RtcCallState, LiveStates, TERMINAL_STATES

LEMMA NoRecordType == NoRecord \in RtcCallRecord
BY OrchestratorAssumption DEF NoRecord, Record, RtcCallRecord

LEMMA NewRecordType ==
    ASSUME NEW s \in SessionKeys
    PROVE  Record("initiating", s) \in RtcCallRecord
BY OrchestratorAssumption DEF Record, RtcCallRecord, RtcCallState, LiveStates

\* The record of a call that has ended.
LEMMA FinishedRecord ==
    ASSUME NEW old \in RtcCallRecord, NEW new, Finished(old, new)
    PROVE  /\ new \in RtcCallRecord
           /\ new.state \in TERMINAL_STATES
           /\ new.sessionKey = old.sessionKey
<1>0. PICK reason \in Reasons :
         \E state \in {"error", "timeout", HangupState(reason)} : new = Ended(old, state, reason)
  BY DEF Finished
<1>1. PICK state \in {"error", "timeout", HangupState(reason)} : new = Ended(old, state, reason)
  BY <1>0
<1>2. state \in TERMINAL_STATES
  BY <1>1 DEF HangupState, TERMINAL_STATES
<1>3. state \in RtcCallState
  BY <1>2 DEF RtcCallState
<1>4. new = [old EXCEPT !.state = state, !.endedAt = TRUE, !.endReason = reason]
  BY <1>1 DEF Ended
<1>5. QED
  BY <1>2, <1>3, <1>4 DEF RtcCallRecord

\* Whatever a method does to a record, it stays one of the schema.
LEMMA RecordStepType ==
    ASSUME NEW old \in RtcCallRecord, NEW new, RecordStep(old, new)
    PROVE  new \in RtcCallRecord
<1>1. CASE new = old
  BY <1>1
<1>2. CASE Answered(old, new)
  BY <1>2 DEF Answered, RtcCallRecord, RtcCallState, LiveStates
<1>3. CASE Activated(old, new)
  BY <1>3 DEF Activated, RtcCallRecord, RtcCallState, LiveStates
<1>4. CASE EntryAdded(old, new)
  BY <1>4, OrchestratorAssumption DEF EntryAdded, RtcCallRecord
<1>5. CASE Finished(old, new)
  BY <1>5, FinishedRecord
<1>6. QED
  BY <1>1, <1>2, <1>3, <1>4, <1>5 DEF RecordStep

\* A method called on c changes c's record by a record step and no other.
LEMMA OneRecord ==
    ASSUME TypeOK, NEW c \in CallIds, NEW new,
           calls' = [calls EXCEPT ![c] = new],
           RecordStep(calls[c], new),
           UNCHANGED sessionCallMap
    PROVE  OneRecordStep
BY DEF TypeOK, OneRecordStep

------------------------------------------------------------------------------
(* The shape of a step: one lemma per method that does not place a call *)

\* A record that is there and has not ended is live.
LEMMA KnownIsLiveOrTerminal ==
    ASSUME TypeOK, NEW c \in CallIds, Known(c), ~Terminal(c)
    PROVE  calls[c].state \in LiveStates
BY DEF TypeOK, Known, Terminal, RtcCallRecord, RtcCallState

LEMMA HandleAnswerShape ==
    ASSUME TypeOK, NEW c \in CallIds, NEW sdp \in Sdps, handleAnswer(c, sdp)
    PROVE  OneRecordStep
<1> DEFINE new == [calls[c] EXCEPT !.answerSdp = sdp, !.state = "connecting"]
<1>1. calls' = [calls EXCEPT ![c] = new]
  BY DEF handleAnswer, TypeOK
<1>2. RecordStep(calls[c], new)
  BY DEF handleAnswer, RecordStep, Answered
<1>3. QED
  BY <1>1, <1>2, OneRecord DEF handleAnswer

LEMMA HandleIceCandidateShape ==
    ASSUME TypeOK, NEW c \in CallIds, NEW direction, handleIceCandidate(c, direction)
    PROVE  OneRecordStep
<1>1. CASE UNCHANGED calls
  BY <1>1 DEF handleIceCandidate, OneRecordStep, RecordStep, TypeOK
<1>2. CASE /\ IsLive(c)
           /\ calls[c].localCandidates < MaxPushes
           /\ calls' = [calls EXCEPT ![c].localCandidates = @ + 1]
  <2> DEFINE new == [calls[c] EXCEPT !.localCandidates = @ + 1]
  <2>1. calls' = [calls EXCEPT ![c] = new]
    BY <1>2
  <2>2. RecordStep(calls[c], new)
    BY <1>2 DEF RecordStep, EntryAdded, IsLive
  <2>3. QED
    BY <2>1, <2>2, OneRecord DEF handleIceCandidate
<1>3. CASE /\ IsLive(c)
           /\ calls[c].remoteCandidates < MaxPushes
           /\ calls' = [calls EXCEPT ![c].remoteCandidates = @ + 1]
  <2> DEFINE new == [calls[c] EXCEPT !.remoteCandidates = @ + 1]
  <2>1. calls' = [calls EXCEPT ![c] = new]
    BY <1>3
  <2>2. RecordStep(calls[c], new)
    BY <1>3 DEF RecordStep, EntryAdded, IsLive
  <2>3. QED
    BY <2>1, <2>2, OneRecord DEF handleIceCandidate
<1>4. QED
  BY <1>1, <1>2, <1>3 DEF handleIceCandidate

LEMMA SetActiveShape ==
    ASSUME TypeOK, NEW c \in CallIds, setActive(c)
    PROVE  OneRecordStep
<1>1. CASE calls[c].state \in {"connecting", "initiating"}
  <2> DEFINE new == [calls[c] EXCEPT !.state = "active", !.connectedAt = TRUE]
  <2>1. calls' = [calls EXCEPT ![c] = new]
    BY <1>1 DEF setActive
  <2>2. RecordStep(calls[c], new)
    BY <1>1 DEF RecordStep, Activated
  <2>3. QED
    BY <2>1, <2>2, OneRecord DEF setActive
<1>2. CASE calls[c].state \notin {"connecting", "initiating"}
  BY <1>2 DEF setActive, OneRecordStep, RecordStep, TypeOK
<1>3. QED
  BY <1>1, <1>2

LEMMA EndCallShape ==
    ASSUME TypeOK, NEW c \in CallIds, NEW reason \in Reasons,
           NEW state \in {"error", "timeout", HangupState(reason)},
           EndCall(c, state, reason)
    PROVE  OneRecordStep
<1>1. CASE Terminal(c)
  BY <1>1 DEF EndCall, OneRecordStep, RecordStep, TypeOK
<1>2. CASE ~Terminal(c)
  <2> DEFINE new == Ended(calls[c], state, reason)
  <2>1. calls' = [calls EXCEPT ![c] = new]
    BY <1>2 DEF EndCall
  <2>2. calls[c].state \in LiveStates
    BY <1>2, KnownIsLiveOrTerminal DEF EndCall
  <2>3. RecordStep(calls[c], new)
    BY <2>2 DEF RecordStep, Finished
  <2>4. QED
    BY <2>1, <2>3, OneRecord DEF EndCall
<1>3. QED
  BY <1>1, <1>2

LEMMA AddTranscriptShape ==
    ASSUME TypeOK, NEW c \in CallIds, addTranscript(c)
    PROVE  OneRecordStep
<1> DEFINE new == [calls[c] EXCEPT !.transcript = @ + 1]
<1>1. calls' = [calls EXCEPT ![c] = new]
  BY DEF addTranscript
<1>2. RecordStep(calls[c], new)
  BY DEF addTranscript, RecordStep, EntryAdded, Known
<1>3. QED
  BY <1>1, <1>2, OneRecord DEF addTranscript

LEMMA StopServiceShape ==
    ASSUME TypeOK, stopService
    PROVE  SweepStep
<1>1. SUFFICES ASSUME NEW c \in CallIds
               PROVE  calls'[c] = calls[c] \/ Finished(calls[c], calls'[c])
  BY DEF stopService, SweepStep
<1>2. CASE IsLive(c)
  <2>1. calls'[c] = Ended(calls[c], HangupState("gateway-shutdown"), "gateway-shutdown")
    BY <1>2 DEF stopService
  <2>2. QED
    BY <1>2, <2>1, OrchestratorAssumption DEF Finished, IsLive
<1>3. CASE ~IsLive(c)
  BY <1>3 DEF stopService
<1>4. QED
  BY <1>2, <1>3

LEMMA StepShape ==
    ASSUME TypeOK, [Next]_orchVars
    PROVE  \/ OneRecordStep
           \/ SweepStep
           \/ \E c \in CallIds, s \in SessionKeys : startCall(c, s)
<1>1. CASE UNCHANGED orchVars
  BY <1>1 DEF orchVars, SweepStep, TypeOK
<1>2. ASSUME NEW c \in CallIds, NEW s \in SessionKeys, startCall(c, s)
      PROVE  \E d \in CallIds, t \in SessionKeys : startCall(d, t)
  BY <1>2
<1>3. ASSUME NEW c \in CallIds, NEW sdp \in Sdps, handleAnswer(c, sdp)
      PROVE  OneRecordStep
  BY <1>3, HandleAnswerShape
<1>4. ASSUME NEW c \in CallIds, NEW d \in {"local", "remote"}, handleIceCandidate(c, d)
      PROVE  OneRecordStep
  BY <1>4, HandleIceCandidateShape
<1>5. ASSUME NEW c \in CallIds, setActive(c)
      PROVE  OneRecordStep
  BY <1>5, SetActiveShape
<1>6. ASSUME NEW c \in CallIds, NEW reason \in Reasons,
             hangup(c, reason) \/ setError(c, reason) \/ setTimeout(c, reason)
      PROVE  OneRecordStep
  BY <1>6, EndCallShape DEF hangup, setError, setTimeout
<1>7. ASSUME NEW c \in CallIds, addTranscript(c)
      PROVE  OneRecordStep
  BY <1>7, AddTranscriptShape
<1>8. CASE stopService
  BY <1>8, StopServiceShape
<1>9. QED
  BY <1>1, <1>2, <1>3, <1>4, <1>5, <1>6, <1>7, <1>8 DEF Next

\* Seen record by record, the first two kinds of step are the same.
LEMMA StepRecords ==
    ASSUME OneRecordStep \/ SweepStep
    PROVE  RecordsStep
BY DEF OneRecordStep, SweepStep, RecordsStep, RecordStep

------------------------------------------------------------------------------
(* What a record step keeps *)

\* No method brings a call to life, or changes whose it is.
LEMMA RecordStepLive ==
    ASSUME NEW old \in RtcCallRecord, NEW new, RecordStep(old, new),
           new.state \in LiveStates
    PROVE  old.state \in LiveStates
<1>1. CASE new = old
  BY <1>1
<1>2. CASE Answered(old, new) \/ Activated(old, new)
  BY <1>2 DEF Answered, Activated, LiveStates
<1>3. CASE EntryAdded(old, new)
  BY <1>3 DEF EntryAdded, RtcCallRecord
<1>4. CASE Finished(old, new)
  BY <1>4 DEF Finished
<1>5. QED
  BY <1>1, <1>2, <1>3, <1>4 DEF RecordStep

LEMMA RecordStepSession ==
    ASSUME NEW old \in RtcCallRecord, NEW new, RecordStep(old, new)
    PROVE  new.sessionKey = old.sessionKey
BY DEF RecordStep, Answered, Activated, EntryAdded, Finished, Ended, RtcCallRecord

LEMMA RecordStepConsistent ==
    ASSUME NEW old \in RtcCallRecord, NEW new, RecordStep(old, new),
           ConsistentRecord(old)
    PROVE  ConsistentRecord(new)
<1> USE DEF ConsistentRecord, RtcCallRecord
<1>1. CASE new = old
  BY <1>1
<1>2. CASE Answered(old, new)
  BY <1>2, OrchestratorAssumption DEF Answered, TERMINAL_STATES
<1>3. CASE Activated(old, new)
  BY <1>3 DEF Activated, TERMINAL_STATES
<1>4. CASE EntryAdded(old, new)
  BY <1>4 DEF EntryAdded, LiveStates
<1>5. CASE Finished(old, new)
  BY <1>5, OrchestratorAssumption
  DEF Finished, Ended, HangupState, LiveStates, TERMINAL_STATES
<1>6. QED
  BY <1>1, <1>2, <1>3, <1>4, <1>5 DEF RecordStep

------------------------------------------------------------------------------
(* The inductive invariant *)

\* MapFindsLiveCall is what makes startCall's check of the map enough, and
\* the typing is what makes a record that has not ended a live one.
IInv == /\ TypeOK
        /\ MapFindsLiveCall
        /\ CapacityBound
        /\ RecordConsistent

LEMMA StepTypeOK ==
    ASSUME TypeOK, [Next]_orchVars
    PROVE  TypeOK'
<1>1. CASE RecordsStep
  BY <1>1, RecordStepType DEF RecordsStep, TypeOK
<1>2. ASSUME NEW c \in CallIds, NEW s \in SessionKeys, startCall(c, s)
      PROVE  TypeOK'
  BY <1>2, NewRecordType DEF startCall, TypeOK
<1>3. QED
  BY <1>1, <1>2, StepShape, StepRecords

LEMMA StepMapFindsLiveCall ==
    ASSUME TypeOK, MapFindsLiveCall, [Next]_orchVars
    PROVE  MapFindsLiveCall'
<1> SUFFICES ASSUME NEW d \in CallIds, calls'[d].state \in LiveStates
             PROVE  /\ calls'[d].sessionKey \in SessionKeys
                    /\ sessionCallMap'[calls'[d].sessionKey] = d
  BY DEF MapFindsLiveCall, Live, IsLive
<1>1. CASE RecordsStep
  <2>1. calls[d].state \in LiveStates
    BY <1>1, RecordStepLive DEF RecordsStep, TypeOK
  <2>2. calls'[d].sessionKey = calls[d].sessionKey
    BY <1>1, RecordStepSession DEF RecordsStep, TypeOK
  <2>3. QED
    BY <1>1, <2>1, <2>2 DEF RecordsStep, MapFindsLiveCall, Live, IsLive
<1>2. ASSUME NEW c \in CallIds, NEW s \in SessionKeys, startCall(c, s)
      PROVE  /\ calls'[d].sessionKey \in SessionKeys
             /\ sessionCallMap'[calls'[d].sessionKey] = d
  <2>1. CASE d = c
    BY <1>2, <2>1 DEF startCall, TypeOK, Record
  <2>2. CASE d # c
    <3>1. d \in Live /\ calls'[d] = calls[d]
      BY <1>2, <2>2 DEF startCall, TypeOK, Live, IsLive
    <3>2. /\ calls[d].sessionKey \in SessionKeys
          /\ sessionCallMap[calls[d].sessionKey] = d
      BY <3>1 DEF MapFindsLiveCall
    <3>3. calls[d].sessionKey # s
      BY <1>2, <3>1, <3>2 DEF startCall, StartCallAllowed
    <3>4. QED
      BY <1>2, <3>1, <3>2, <3>3 DEF startCall, TypeOK
  <2>3. QED
    BY <2>1, <2>2
<1>3. QED
  BY <1>1, <1>2, StepShape, StepRecords

LEMMA LiveIsFinite == /\ IsFiniteSet(Live)
                      /\ Cardinality(Live) \in Nat
<1>1. Live \in SUBSET CallIds
  BY DEF Live
<1>2. QED
  BY <1>1, OrchestratorAssumption, FS_Subset, FS_CardinalityType

LEMMA StepCapacityBound ==
    ASSUME TypeOK, CapacityBound, [Next]_orchVars
    PROVE  CapacityBound'
<1>1. CASE RecordsStep
  <2>1. Live' \in SUBSET Live
    BY <1>1, RecordStepLive DEF RecordsStep, TypeOK, Live, IsLive
  <2>2. Cardinality(Live') <= Cardinality(Live) /\ Cardinality(Live') \in Nat
    BY <2>1, LiveIsFinite, FS_Subset, FS_CardinalityType
  <2>3. QED
    BY <2>2, LiveIsFinite, OrchestratorAssumption DEF CapacityBound, activeCalls
<1>2. ASSUME NEW c \in CallIds, NEW s \in SessionKeys, startCall(c, s)
      PROVE  CapacityBound'
  <2>1. Live' = Live \cup {c}
    BY <1>2 DEF startCall, TypeOK, Live, IsLive, Record, LiveStates
  <2>2. Cardinality(Live \cup {c}) = IF c \in Live THEN Cardinality(Live)
                                                   ELSE Cardinality(Live) + 1
    BY LiveIsFinite, FS_AddElement
  <2>3. Cardinality(Live) < MaxConcurrentCalls
    BY <1>2 DEF startCall, StartCallAllowed, activeCalls
  <2>4. QED
    BY <2>1, <2>2, <2>3, LiveIsFinite, OrchestratorAssumption DEF CapacityBound, activeCalls
<1>3. QED
  BY <1>1, <1>2, StepShape, StepRecords

LEMMA StepRecordConsistent ==
    ASSUME TypeOK, RecordConsistent, [Next]_orchVars
    PROVE  RecordConsistent'
<1>1. CASE RecordsStep
  BY <1>1, RecordStepConsistent DEF RecordsStep, TypeOK, RecordConsistent
<1>2. ASSUME NEW c \in CallIds, NEW s \in SessionKeys, startCall(c, s)
      PROVE  RecordConsistent'
  <2>1. ConsistentRecord(Record("initiating", s))
    BY OrchestratorAssumption DEF ConsistentRecord, Record, TERMINAL_STATES
  <2>2. QED
    BY <1>2, <2>1 DEF startCall, TypeOK, RecordConsistent
<1>3. QED
  BY <1>1, <1>2, StepShape, StepRecords

LEMMA InitIInv == Init => IInv
<1> SUFFICES ASSUME Init PROVE IInv
  OBVIOUS
<1>1. TypeOK
  BY NoRecordType DEF Init, TypeOK
<1>2. Live = {}
  BY DEF Init, Live, IsLive, NoRecord, Record, LiveStates
<1>3. MapFindsLiveCall
  BY <1>2 DEF MapFindsLiveCall
<1>4. CapacityBound
  BY <1>2, FS_EmptySet, OrchestratorAssumption DEF CapacityBound, activeCalls
<1>5. RecordConsistent
  BY DEF Init, RecordConsistent, ConsistentRecord, NoRecord, Record, TERMINAL_STATES
<1>6. QED
  BY <1>1, <1>3, <1>4, <1>5 DEF IInv

\* The four hold together in every state the class can be in.
THEOREM OrchestratorInvariant == Spec => []IInv
<1>1. IInv /\ [Next]_orchVars => IInv'
  BY StepTypeOK, StepMapFindsLiveCall, StepCapacityBound, StepRecordConsistent DEF IInv
<1>2. QED
  BY InitIInv, <1>1, PTL DEF Spec

------------------------------------------------------------------------------
(* The theorems a reader should know of *)

\* Every record is one of the schema, every map entry a call (types.ts).
THEOREM TypeCorrect == Spec => []TypeOK
<1>1. IInv => TypeOK
  BY DEF IInv
<1>2. QED
  BY <1>1, OrchestratorInvariant, PTL

\* However calls start, are answered and end, maxConcurrentCalls is respected.
THEOREM CapacityRespected == Spec => []CapacityBound
<1>1. IInv => CapacityBound
  BY DEF IInv
<1>2. QED
  BY <1>1, OrchestratorInvariant, PTL

\* The session map never loses a live call.
THEOREM LiveCallFound == Spec => []MapFindsLiveCall
<1>1. IInv => MapFindsLiveCall
  BY DEF IInv
<1>2. QED
  BY <1>1, OrchestratorInvariant, PTL

\* State, time stamps, reason and answer of a record always agree.
THEOREM RecordsConsistent == Spec => []RecordConsistent
<1>1. IInv => RecordConsistent
  BY DEF IInv
<1>2. QED
  BY <1>1, OrchestratorInvariant, PTL

\* A terminal record only gains transcript lines.
LEMMA RecordStepTerminal ==
    ASSUME NEW old \in RtcCallRecord, NEW new, RecordStep(old, new),
           old.state \in TERMINAL_STATES
    PROVE  [new EXCEPT !.transcript = old.transcript] = old
BY DEF RecordStep, Answered, Activated, EntryAdded, Finished, LiveStates,
       TERMINAL_STATES, RtcCallRecord

\* How a call ended is decided once: no late answer, candidate, hang-up,
\* timeout or shutdown touches it again.
THEOREM EndIsFinal == Spec => TerminalFrozen
<1> DEFINE Frozen == \A c \in CallIds :
                        Terminal(c) => [calls'[c] EXCEPT !.transcript = calls[c].transcript]
                                           = calls[c]
<1>1. ASSUME TypeOK, [Next]_orchVars
      PROVE  Frozen
  <2>1. CASE RecordsStep
    BY <1>1, <2>1, RecordStepTerminal DEF RecordsStep, TypeOK, Terminal
  <2>2. ASSUME NEW c \in CallIds, NEW s \in SessionKeys, startCall(c, s)
        PROVE  Frozen
    <3>1. ASSUME NEW d \in CallIds, Terminal(d)
          PROVE  [calls'[d] EXCEPT !.transcript = calls[d].transcript] = calls[d]
      <4>1. calls'[d] = calls[d]
        BY <1>1, <2>2, <3>1 DEF startCall, Known, Terminal, TERMINAL_STATES, TypeOK
      <4>2. QED
        BY <1>1, <4>1 DEF TypeOK, RtcCallRecord
    <3>2. QED
      BY <3>1
  <2>3. QED
    BY <1>1, <2>1, <2>2, StepShape, StepRecords
<1>2. QED
  BY <1>1, TypeCorrect, PTL DEF Spec, TerminalFrozen

\* An answer is taken once: handleAnswer's state check is enough, because a
\* call that has an answer never is "initiating" again.
THEOREM AnswerIsStable == Spec => AnswerStable
<1> DEFINE Stable == \A c \in CallIds :
                        calls[c].answerSdp # Undefined
                            => calls'[c].answerSdp = calls[c].answerSdp
<1>1. ASSUME IInv, [Next]_orchVars
      PROVE  Stable
  <2>1. CASE RecordsStep
    <3>1. ASSUME NEW c \in CallIds, calls[c].answerSdp # Undefined
          PROVE  calls'[c].answerSdp = calls[c].answerSdp
      <4>1. RecordStep(calls[c], calls'[c]) /\ calls[c] \in RtcCallRecord
        BY <1>1, <2>1 DEF RecordsStep, IInv, TypeOK
      <4>2. calls[c].state # "initiating"
        BY <1>1, <3>1 DEF IInv, RecordConsistent, ConsistentRecord
      <4>3. QED
        BY <4>1, <4>2
        DEF RecordStep, Answered, Activated, EntryAdded, Finished, Ended, RtcCallRecord
    <3>2. QED
      BY <3>1
  <2>2. ASSUME NEW c \in CallIds, NEW s \in SessionKeys, startCall(c, s)
        PROVE  Stable
    <3>1. calls[c].answerSdp = Undefined
      BY <1>1, <2>2
      DEF startCall, Known, IInv, RecordConsistent, ConsistentRecord, NoRecord, Record
    <3>2. QED
      BY <1>1, <2>2, <3>1 DEF startCall, IInv, TypeOK
  <2>3. QED
    BY <1>1, <2>1, <2>2, StepShape, StepRecords DEF IInv
<1>2. QED
  BY <1>1, OrchestratorInvariant, PTL DEF Spec, AnswerStable

------------------------------------------------------------------------------
(* The class implements CallLifecycle *)

phaseBar  == [c \in CallIds |-> PhaseOf(calls[c].state)]
holderBar == [c \in CallIds |-> calls[c].sessionKey]

LEMMA PhaseOfLive ==
    ASSUME NEW state \in RtcCallState \cup {"absent"}
    PROVE  PhaseOf(state) \in {"initiating", "connecting", "active"} <=> state \in LiveStates
BY DEF PhaseOf, RtcCallState, LiveStates, TERMINAL_STATES

LEMMA SameLive == TypeOK => Lifecycle!Live = Live
<1> SUFFICES ASSUME TypeOK PROVE Lifecycle!Live = Live
  OBVIOUS
<1>1. \A c \in CallIds : calls[c].state \in RtcCallState \cup {"absent"}
  BY DEF TypeOK, RtcCallRecord
<1>2. QED
  BY <1>1, PhaseOfLive DEF Lifecycle!Live, Lifecycle!LivePhases, Live, IsLive

LEMMA PhaseOfAbsent == PhaseOf("absent") = "unborn"
BY DEF PhaseOf, LiveStates

LEMMA InitRefines == Init => Lifecycle!Init
BY PhaseOfAbsent DEF Init, Lifecycle!Init, NoRecord, Record

\* startCall places: a live call of the same session would be in the map.
LEMMA StartCallRefines ==
    ASSUME IInv, NEW c \in CallIds, NEW s \in SessionKeys, startCall(c, s)
    PROVE  Lifecycle!Place(c, s)
<1>1. TypeOK /\ MapFindsLiveCall
  BY DEF IInv
<1>2. calls' = [calls EXCEPT ![c] = Record("initiating", s)]
  BY DEF startCall
<1>3. phaseBar[c] = "unborn"
  BY PhaseOfAbsent DEF startCall, Known, phaseBar
<1>4. Cardinality(Lifecycle!Live) < MaxConcurrentCalls
  BY <1>1, SameLive DEF startCall, StartCallAllowed, activeCalls
<1>5. \A d \in Lifecycle!Live : holderBar[d] # s
  BY <1>1, SameLive DEF startCall, StartCallAllowed, MapFindsLiveCall, Live, holderBar
<1>6. phaseBar' = [phaseBar EXCEPT ![c] = "initiating"]
  BY <1>1, <1>2 DEF phaseBar, TypeOK, Record, PhaseOf, LiveStates
<1>7. holderBar' = [holderBar EXCEPT ![c] = s]
  BY <1>1, <1>2 DEF holderBar, TypeOK, Record
<1>8. QED
  BY <1>3, <1>4, <1>5, <1>6, <1>7
  DEF Lifecycle!Place, Lifecycle!Cardinality, Cardinality, phaseBar, holderBar

\* Ending calls refines the abstract End of those that are live.
LEMMA SweepRefines ==
    ASSUME TypeOK, SweepStep
    PROVE  [Lifecycle!Next]_(Lifecycle!vars)
<1> DEFINE C == {c \in CallIds : Finished(calls[c], calls'[c])}
<1>1. holderBar' = holderBar
  <2>1. \A c \in CallIds : calls'[c].sessionKey = calls[c].sessionKey
    BY FinishedRecord DEF SweepStep, TypeOK
  <2>2. QED
    BY <2>1 DEF holderBar
<1>2. \A c \in C : PhaseOf(calls'[c].state) = "ended"
  <2>1. \A c \in C : calls'[c].state \in TERMINAL_STATES
    BY FinishedRecord DEF TypeOK
  <2>2. QED
    BY <2>1 DEF TERMINAL_STATES, PhaseOf, LiveStates
<1>3. \A c \in CallIds \ C : calls'[c] = calls[c]
  BY DEF SweepStep
<1>4. phaseBar' = [c \in CallIds |-> IF c \in C THEN "ended" ELSE phaseBar[c]]
  BY <1>2, <1>3 DEF phaseBar
<1>5. C \in SUBSET Lifecycle!Live
  BY SameLive DEF Finished, Live, IsLive
<1>6. CASE C = {}
  BY <1>1, <1>4, <1>6 DEF Lifecycle!vars, phaseBar, holderBar
<1>7. CASE C # {}
  <2>1. Lifecycle!End(C)
    BY <1>1, <1>4, <1>7 DEF Lifecycle!End, phaseBar, holderBar
  <2>2. QED
    BY <1>5, <2>1 DEF Lifecycle!Next
<1>8. QED
  BY <1>6, <1>7

\* A step of one record is an Advance, an End, or nothing the abstraction sees.
LEMMA OneRecordRefines ==
    ASSUME TypeOK, OneRecordStep
    PROVE  [Lifecycle!Next]_(Lifecycle!vars)
<1>1. PICK c \in CallIds : /\ RecordStep(calls[c], calls'[c])
                           /\ \A d \in CallIds \ {c} : calls'[d] = calls[d]
  BY DEF OneRecordStep
<1>2. calls[c] \in RtcCallRecord
  BY DEF TypeOK
<1>3. holderBar' = holderBar
  <2>1. \A d \in CallIds : calls'[d].sessionKey = calls[d].sessionKey
    BY <1>1, <1>2, RecordStepSession
  <2>2. QED
    BY <2>1 DEF holderBar
<1>4. phaseBar' = [phaseBar EXCEPT ![c] = PhaseOf(calls'[c].state)]
  BY <1>1 DEF phaseBar
<1>5. CASE calls'[c] = calls[c] \/ EntryAdded(calls[c], calls'[c])
  <2>1. calls'[c].state = calls[c].state
    BY <1>2, <1>5 DEF EntryAdded, RtcCallRecord
  <2>2. phaseBar' = phaseBar
    BY <1>4, <2>1 DEF phaseBar
  <2>3. QED
    BY <1>3, <2>2 DEF Lifecycle!vars, phaseBar, holderBar
<1>6. CASE Answered(calls[c], calls'[c])
  <2>1. calls[c].state = "initiating" /\ calls'[c].state = "connecting"
    BY <1>2, <1>6 DEF Answered, RtcCallRecord
  <2>2. Lifecycle!Advance(c, "connecting")
    BY <1>3, <1>4, <2>1 DEF Lifecycle!Advance, phaseBar, holderBar, PhaseOf, LiveStates
  <2>3. QED
    BY <2>2 DEF Lifecycle!Next
<1>7. CASE Activated(calls[c], calls'[c])
  <2>1. /\ calls[c].state \in {"initiating", "connecting"}
        /\ calls'[c].state = "active"
    BY <1>2, <1>7 DEF Activated, RtcCallRecord
  <2>2. Lifecycle!Advance(c, "active")
    BY <1>3, <1>4, <2>1 DEF Lifecycle!Advance, phaseBar, holderBar, PhaseOf, LiveStates
  <2>3. QED
    BY <2>2 DEF Lifecycle!Next
<1>8. CASE Finished(calls[c], calls'[c])
  <2>1. SweepStep
    BY <1>1, <1>8 DEF OneRecordStep, SweepStep
  <2>2. QED
    BY <2>1, SweepRefines
<1>9. QED
  BY <1>1, <1>5, <1>6, <1>7, <1>8 DEF RecordStep

\* Every behaviour of the class is one the abstract life cycle allows.
THEOREM LifecycleImplemented == Spec => ImplementsLifecycle
<1>1. IInv /\ [Next]_orchVars => [Lifecycle!Next]_(Lifecycle!vars)
  <2>1. ASSUME IInv, NEW c \in CallIds, NEW s \in SessionKeys, startCall(c, s)
        PROVE  Lifecycle!Next
    BY <2>1, StartCallRefines DEF Lifecycle!Next
  <2>2. QED
    BY <2>1, StepShape, OneRecordRefines, SweepRefines DEF IInv
<1>2. QED
  BY <1>1, InitRefines, OrchestratorInvariant, PTL DEF Spec, ImplementsLifecycle, Lifecycle!Spec
=============================================================================
