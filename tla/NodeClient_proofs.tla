------------------------- MODULE NodeClient_proofs -------------------------
(***************************************************************************)
(* One connection of the Go node, for any set of commands: the inductive   *)
(* invariant says who may still close g.done, and when.                    *)
(***************************************************************************)
EXTENDS NodeClient, TLAPS

\* Close has told the reader that it is the one who closes the connection.
ClosedIsMarked ==
    /\ main \in {"closingConn", "closingDone"} => closed
    /\ conn = "closed" => closed \/ main = "failed"

\* g.done is closed only by a reader that found the connection lost, or by the
\* last step of Close.
DoneHasReason ==
    /\ reader # "off" => conn # "none"
    /\ reader = "leaving" => conn # "up"
    /\ reader = "claiming" => conn = "lost"
    /\ done => conn = "lost" \/ main = "exited"

\* Before the end of the handshake there is nothing to close.
NothingYet == main \in Connecting \cup {"failed"} => reader = "off" /\ ~done

IInv == NodeTypeOK /\ ClosedIsMarked /\ DoneHasReason /\ NothingYet /\ PanicOnlyAfterLoss

LEMMA InitIInv == Init => IInv
  BY DEF Init, IInv, NodeTypeOK, ClosedIsMarked, DoneHasReason, NothingYet,
         PanicOnlyAfterLoss, Connecting, Closing, Ends

\* main's steps preserve the invariant: Close marks g.closed before it touches
\* the connection.
LEMMA MainSteps ==
    ASSUME IInv, Dial \/ Handshake \/ Wake \/ CloseBegins \/ CloseConn \/ CloseDone
    PROVE  IInv'
  <1> USE DEF IInv, NodeTypeOK, ClosedIsMarked, DoneHasReason, NothingYet,
              PanicOnlyAfterLoss, Connecting, Closing, Ends
  <1>1. CASE Dial         BY <1>1 DEF Dial
  <1>2. CASE Handshake    BY <1>2 DEF Handshake
  <1>3. CASE Wake         BY <1>3 DEF Wake
  <1>4. CASE CloseBegins  BY <1>4 DEF CloseBegins
  <1>5. CASE CloseConn    BY <1>5 DEF CloseConn
  <1>6. CASE CloseDone    BY <1>6 DEF CloseDone
  <1>7. QED BY <1>1, <1>2, <1>3, <1>4, <1>5, <1>6

\* So do the reader's: a reader that still means to close g.done saw g.closed
\* unset after its read had failed, which only a lost connection explains.
LEMMA ReaderSteps ==
    ASSUME IInv, ReaderFails \/ ReaderTests \/ ReaderCloses
    PROVE  IInv'
  <1> USE DEF IInv, NodeTypeOK, ClosedIsMarked, DoneHasReason, NothingYet,
              PanicOnlyAfterLoss, Connecting, Closing, Ends
  <1>1. CASE ReaderFails   BY <1>1 DEF ReaderFails, Running
  <1>2. CASE ReaderTests   BY <1>2 DEF ReaderTests, Running
  <1>3. CASE ReaderCloses  BY <1>3 DEF ReaderCloses, Running
  <1>4. QED BY <1>1, <1>2, <1>3

\* So do commands, signals and the network.
LEMMA OtherSteps ==
    ASSUME IInv,
           \/ \E i \in Invokes : InvokeArrives(i) \/ InvokeReturns(i)
           \/ Interrupt \/ LoseConnection
    PROVE  IInv'
  <1> USE DEF IInv, NodeTypeOK, ClosedIsMarked, DoneHasReason, NothingYet,
              PanicOnlyAfterLoss, Connecting, Closing, Ends
  <1>1. ASSUME NEW i \in Invokes, InvokeArrives(i) PROVE IInv'
        BY <1>1 DEF InvokeArrives, Running
  <1>2. ASSUME NEW i \in Invokes, InvokeReturns(i) PROVE IInv'
        BY <1>2 DEF InvokeReturns, Running
  <1>3. CASE Interrupt       BY <1>3 DEF Interrupt, Running
  <1>4. CASE LoseConnection  BY <1>4 DEF LoseConnection, Running
  <1>5. QED BY <1>1, <1>2, <1>3, <1>4

THEOREM NodeInvariant == Spec => []IInv
  <1>1. IInv /\ [Next]_nodeVars => IInv'
    <2> SUFFICES ASSUME IInv, [Next]_nodeVars PROVE IInv'
        OBVIOUS
    <2>1. CASE UNCHANGED nodeVars
          BY <2>1 DEF nodeVars, IInv, NodeTypeOK, ClosedIsMarked, DoneHasReason,
                      NothingYet, PanicOnlyAfterLoss
    <2>2. CASE Next
          BY <2>2, MainSteps, ReaderSteps, OtherSteps DEF Next, ProcessStep
    <2>3. QED BY <2>1, <2>2
  <1>2. QED BY <1>1, InitIInv, PTL DEF Spec

\* The reader exists only after the handshake, and so do commands being handled.
THEOREM NodeTypeCorrect == Spec => []NodeTypeOK
  <1>1. IInv => NodeTypeOK  BY DEF IInv
  <1>2. QED BY <1>1, NodeInvariant, PTL

\* A node that is only told to stop never panics, however its goroutines
\* interleave: g.done is closed twice only when the gateway ended the connection.
THEOREM CleanShutdown == Spec => []PanicOnlyAfterLoss
  <1>1. IInv => PanicOnlyAfterLoss  BY DEF IInv
  <1>2. QED BY <1>1, NodeInvariant, PTL
=============================================================================
