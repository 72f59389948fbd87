------------------------- MODULE Mcp25xxfdTx_proofs -------------------------
(***************************************************************************)
(* Proofs about the transmit path of the mcp25xxfd driver, for any number  *)
(* of transmit FIFOs and frames: a FIFO serves one frame at a time, the    *)
(* queue is woken only when nothing is in flight, the frames go out in the *)
(* order they came in, and the stack is told of each in that order.        *)
(* Type correctness always holds.  The rest holds while the controller     *)
(* retransmits without limit (one-shot mode off) and every failed SPI      *)
(* transfer is noticed, and what the stack is told needs more, stated at   *)
(* each theorem; the run tx_faults looks at what remains true otherwise.   *)
(***************************************************************************)
EXTENDS Mcp25xxfdTx, ProofLemmas, FiniteSetTheorems, SequenceTheorems

USE Mcp25xxfdTxAssumption

(* The transmit FIFOs are finitely many positive numbers, so a mask of     *)
(* them has a lowest and a highest one.                                    *)
LEMMA TxFifosFinite ==
  /\ TxFifos \subseteq Nat \ {0} /\ IsFiniteSet(TxFifos)
  /\ TxFifoStart \in TxFifos
<1>1. IsFiniteSet(TxFifoStart .. TxFifoStart + NTxFifos - 1)
  BY FS_Interval
<1> QED
  BY <1>1 DEF TxFifos

(* The lowest FIFO of a nonempty mask is one of its FIFOs.                 *)
LEMMA MinOfFifos ==
  ASSUME NEW S, S \subseteq TxFifos, S # {}
  PROVE  Min(S) \in S /\ Min(S) \in TxFifos /\ \A x \in S : Min(S) <= x
<1>1. S \subseteq Nat
  BY TxFifosFinite
<1> QED
  BY <1>1, MinOfNat

(* The FIFO start_xmit takes is not reserved and lies above all reserved   *)
(* ones.                                                                   *)
LEMMA NextFifoIsFree ==
  ASSUME Taken \subseteq TxFifos, FifoInRange(NextFifo)
  PROVE  /\ NextFifo \in TxFifos
         /\ \A f \in Taken : f < NextFifo
<1>1. CASE Taken = {}
  BY <1>1, TxFifosFinite DEF NextFifo
<1>2. CASE Taken # {}
  <2>1. Taken \subseteq Nat /\ TxFifoStart + NTxFifos - 1 \in Nat
    BY TxFifosFinite
  <2>2. \A x \in Taken : x <= TxFifoStart + NTxFifos - 1
    BY DEF TxFifos
  <2>3. Max(Taken) \in Taken /\ \A x \in Taken : x <= Max(Taken)
    BY <1>2, <2>1, <2>2, MaxOfNat
  <2>4. NextFifo = Max(Taken) + 1
    BY <1>2 DEF NextFifo
  <2>5. Max(Taken) \in Nat /\ Max(Taken) >= TxFifoStart
    <3>1. Max(Taken) \in TxFifos
      BY <2>3
    <3> QED
      BY <3>1 DEF TxFifos
  <2>6. NextFifo < TxFifoStart + NTxFifos
    BY DEF FifoInRange
  <2>7. NextFifo \in TxFifos
    BY <2>4, <2>5, <2>6 DEF TxFifos
  <2>8. ASSUME NEW f \in Taken PROVE f < NextFifo
    <3>1. f \in Nat /\ f <= Max(Taken)
      BY <2>1, <2>3
    <3> QED
      BY <3>1, <2>4, <2>5
  <2> QED
    BY <2>7, <2>8
<1> QED
  BY <1>1, <1>2

(* The number of transmit events the thread expects is a number.           *)
LEMMA TefCountType ==
  ASSUME inIrq \subseteq TxFifos
  PROVE  /\ TefCount \in Int
         /\ TefCount = Cardinality((inIrq \ processed) \ status.txreq)
<1> DEFINE open == inIrq \ processed
<1>1. IsFiniteSet(open)
  BY TxFifosFinite, FS_Subset
<1>2. open \cap status.txreq = status.txreq \cap open
  OBVIOUS
<1>3. Cardinality(open \ status.txreq) = Cardinality(open) - Cardinality(open \cap status.txreq)
  BY <1>1, FS_Difference
<1>4. Cardinality(open) \in Nat /\ IsFiniteSet(open \cap status.txreq)
  BY <1>1, FS_CardinalityType, FS_Intersection
<1>5. Cardinality(open \cap status.txreq) \in Nat
  BY <1>4, FS_CardinalityType
<1> QED
  BY <1>2, <1>3, <1>4, <1>5 DEF TefCount

-----------------------------------------------------------------------------
(* Type correctness.                                                       *)

(* What a step leaves unchanged keeps its type.                            *)
LEMMA TypeFrame ==
  /\ NetTypeOK /\ UNCHANGED <<link, queue, next, xmit, echo, canState, forceQuit>>
       => NetTypeOK'
  /\ MasksTypeOK /\ UNCHANGED <<submitted, pending, inIrq, processed>> => MasksTypeOK'
  /\ IrqTypeOK /\ UNCHANGED <<irq, status>> => IrqTypeOK'
  /\ TefTypeOK /\ UNCHANGED <<tef, tefSkew, queuedTef>> => TefTypeOK'
  /\ ControllerTypeOK /\ UNCHANGED <<spi, fifoObj, txreq, txatif, cerrif, trec, intEn>>
       => ControllerTypeOK'
  /\ HistoryTypeOK /\ UNCHANGED history => HistoryTypeOK'
  /\ FlagsTypeOK /\ UNCHANGED history => FlagsTypeOK'
  /\ FlagsTypeOK /\ UNCHANGED <<straddled, misread>> => FlagsTypeOK'
<1>1. NetTypeOK /\ UNCHANGED <<link, queue, next, xmit, echo, canState, forceQuit>>
        => NetTypeOK'
  BY DEF NetTypeOK
<1>2. MasksTypeOK /\ UNCHANGED <<submitted, pending, inIrq, processed>> => MasksTypeOK'
  BY DEF MasksTypeOK
<1>3. IrqTypeOK /\ UNCHANGED <<irq, status>> => IrqTypeOK'
  BY DEF IrqTypeOK
<1>4. TefTypeOK /\ UNCHANGED <<tef, tefSkew, queuedTef>> => TefTypeOK'
  BY DEF TefTypeOK
<1>5. ControllerTypeOK /\ UNCHANGED <<spi, fifoObj, txreq, txatif, cerrif, trec, intEn>>
        => ControllerTypeOK'
  BY DEF ControllerTypeOK
<1>6. HistoryTypeOK /\ UNCHANGED history => HistoryTypeOK'
  BY DEF HistoryTypeOK, history
<1>7. FlagsTypeOK /\ UNCHANGED <<straddled, misread>> => FlagsTypeOK'
  BY DEF FlagsTypeOK
<1>8. UNCHANGED history => UNCHANGED <<straddled, misread>>
  BY DEF history
<1> QED
  BY <1>1, <1>2, <1>3, <1>4, <1>5, <1>6, <1>7, <1>8

(* The module's initial state is well typed.                               *)
LEMMA TypeInit == Init => TypeOK
<1> SUFFICES ASSUME Init PROVE TypeOK
  OBVIOUS
<1>0. [f \in TxFifos |-> None] \in [TxFifos -> 0 .. MaxFrames]
  BY DEF None
<1>1. NetTypeOK
  <2>1. 1 \in 1 .. MaxFrames + 1 /\ Stopped \in ErrorActive .. Stopped
    BY DEF ErrorActive, Stopped
  <2> QED
    BY <1>0, <2>1, Zenon DEF Init, NetTypeOK
<1>2. MasksTypeOK
  BY DEF Init, MasksTypeOK
<1>3. IrqTypeOK
  BY DEF Init, IrqTypeOK, IrqOff, NoStatus, ErrorActive, BusOff
<1>4. TefTypeOK
  <2>1. <<>> \in Seq([fifo : TxFifos, ts : Nat])
        /\ <<>> \in Seq([fifo : TxFifos \cup {None}, ts : Nat])
    BY EmptySeq
  <2>2. 0 \in 0 .. TefSize - 1
    OBVIOUS
  <2> QED
    BY <2>1, <2>2 DEF Init, TefTypeOK
<1>5. ControllerTypeOK
  <2>1. <<>> \in Seq([fifo : TxFifos, frame : Frames])
    BY EmptySeq
  <2>2. ErrorActive \in ErrorActive .. BusOff
    BY DEF ErrorActive, BusOff
  <2> QED
    BY <1>0, <2>1, <2>2, Zenon DEF Init, ControllerTypeOK
<1>6. HistoryTypeOK
  <2>1. <<>> \in Seq(0 .. MaxFrames)
    BY EmptySeq
  <2>2. [states |-> 0, faults |-> 0, lost |-> 0, opens |-> 0]
          \in [states : 0 .. MaxStates, faults : 0 .. MaxSpiFaults,
               lost : 0 .. MaxLostFaults, opens : 0 .. MaxOpens]
    OBVIOUS
  <2> QED
    BY <2>1, <2>2 DEF Init, HistoryTypeOK
<1>7. FlagsTypeOK
  BY DEF Init, FlagsTypeOK
<1> QED
  BY <1>1, <1>2, <1>3, <1>4, <1>5, <1>6, <1>7 DEF TypeOK

(* What a bound counts stays within the bound.                             *)
LEMMA SpendType ==
  ASSUME HistoryTypeOK, UNCHANGED <<wire, confirmed, late>>,
         \/ Spend("states", MaxStates) \/ Spend("faults", MaxSpiFaults)
         \/ Spend("lost", MaxLostFaults) \/ Spend("opens", MaxOpens)
  PROVE  HistoryTypeOK'
<1> DEFINE U == [states : 0 .. MaxStates, faults : 0 .. MaxSpiFaults,
                 lost : 0 .. MaxLostFaults, opens : 0 .. MaxOpens]
<1>1. used \in U
  BY DEF HistoryTypeOK
<1>2. used' \in U
  <2>1. CASE Spend("states", MaxStates)
    BY <1>1, <2>1 DEF Spend
  <2>2. CASE Spend("faults", MaxSpiFaults)
    BY <1>1, <2>2 DEF Spend
  <2>3. CASE Spend("lost", MaxLostFaults)
    BY <1>1, <2>3 DEF Spend
  <2>4. CASE Spend("opens", MaxOpens)
    BY <1>1, <2>4 DEF Spend
  <2> QED
    BY <2>1, <2>2, <2>3, <2>4
<1> QED
  BY <1>2 DEF HistoryTypeOK

(* start_xmit                                                              *)
LEMMA TypeXmit ==
  ASSUME TypeOK, XmitBusOff \/ Xmit \/ XmitPutEcho
  PROVE  TypeOK'
<1>1. CASE XmitBusOff
  <2>1. NetTypeOK'
    BY <1>1 DEF TypeOK, NetTypeOK, XmitBusOff
  <2> QED
    BY <1>1, <2>1, TypeFrame DEF TypeOK, XmitBusOff, controller
<1>2. CASE Xmit
  <2>1. NextFifo \in TxFifos
    BY <1>2, NextFifoIsFree DEF Xmit, Taken, TypeOK, MasksTypeOK
  <2>2. next \in Frames /\ next + 1 \in 1 .. MaxFrames + 1
    BY <1>2 DEF Xmit, MayXmit, Frames
  <2> HIDE DEF NextFifo
  <2>3. NetTypeOK'
    BY <1>2, <2>1, <2>2 DEF Xmit, TypeOK, NetTypeOK
  <2>4. MasksTypeOK'
    BY <1>2, <2>1 DEF Xmit, TypeOK, MasksTypeOK
  <2>5. ControllerTypeOK'
    <3> DEFINE msg == [fifo |-> NextFifo, frame |-> next]
    <3>1. msg \in [fifo : TxFifos, frame : Frames]
      BY <2>1, <2>2
    <3>2. spi' = Append(spi, msg) \/ spi' = spi
      BY <1>2 DEF Xmit
    <3>3. spi \in Seq([fifo : TxFifos, frame : Frames])
      BY DEF TypeOK, ControllerTypeOK
    <3>4. spi' \in Seq([fifo : TxFifos, frame : Frames])
      <4> DEFINE Msgs == [fifo : TxFifos, frame : Frames]
      <4>1. msg \in Msgs /\ spi \in Seq(Msgs)
        BY <3>1, <3>3
      <4> HIDE DEF msg, Msgs
      <4>2. Append(spi, msg) \in Seq(Msgs)
        BY <4>1, AppendType
      <4>3. spi' \in Seq(Msgs)
        BY <3>2, <4>1, <4>2
      <4> QED
        BY <4>3 DEF Msgs
    <3> QED
      BY <1>2, <3>4 DEF Xmit, TypeOK, ControllerTypeOK, controller
  <2>6. HistoryTypeOK'
    BY <1>2, SpendType, TypeFrame DEF Xmit, TypeOK, history
  <2> QED
    BY <1>2, <2>3, <2>4, <2>5, <2>6, TypeFrame DEF TypeOK, Xmit, controller
<1>3. CASE XmitPutEcho
  <2>1. NetTypeOK'
    BY <1>3 DEF TypeOK, NetTypeOK, XmitPutEcho, None
  <2> QED
    BY <1>3, <2>1, TypeFrame DEF TypeOK, XmitPutEcho, controller
<1> QED
  BY <1>1, <1>2, <1>3

(* The completion of an SPI message.                                       *)
LEMMA TypeSpi ==
  ASSUME TypeOK, SpiComplete
  PROVE  TypeOK'
<1> DEFINE Msgs == [fifo : TxFifos, frame : Frames]
<1>1. spi \in Seq(Msgs) /\ spi # <<>>
  BY DEF TypeOK, ControllerTypeOK, SpiComplete, Requested
<1>2. Head(spi) \in Msgs /\ Tail(spi) \in Seq(Msgs)
  <2> HIDE DEF Msgs
  <2> QED
    BY <1>1, TailType
<1>3. Head(spi).fifo \in TxFifos /\ Head(spi).frame \in 0 .. MaxFrames
  BY <1>2 DEF Frames
<1>4. MasksTypeOK'
  BY <1>3 DEF SpiComplete, Requested, TypeOK, MasksTypeOK
<1>5. ControllerTypeOK'
  <2>1. spi' \in Seq(Msgs)
    BY <1>2 DEF SpiComplete, Requested
  <2>2. fifoObj' \in [TxFifos -> 0 .. MaxFrames] /\ txreq' \subseteq TxFifos
    BY <1>3 DEF SpiComplete, Requested, TypeOK, ControllerTypeOK
  <2> QED
    BY <2>1, <2>2 DEF SpiComplete, Requested, TypeOK, ControllerTypeOK
<1>6. HistoryTypeOK'
  BY SpendType, TypeFrame DEF SpiComplete, Requested, TypeOK, history
<1> QED
  BY <1>4, <1>5, <1>6, TypeFrame DEF TypeOK, SpiComplete, Requested

(* The controller and the bus.                                             *)
LEMMA TypeBus ==
  ASSUME TypeOK, BusSend \/ BusAbort \/ BusErrorState \/ BusReceive
  PROVE  TypeOK'
<1> USE DEF TypeOK
<1>1. CASE BusSend
  <2> DEFINE f == Min(txreq)
             Entries == [fifo : TxFifos, ts : Nat]
  <2>1. f \in TxFifos
    BY <1>1, MinOfFifos DEF BusSend, MayArbitrate, ControllerTypeOK
  <2>2. fifoObj[f] \in 0 .. MaxFrames
    BY <2>1 DEF ControllerTypeOK
  <2>3. /\ wire' = Append(wire, fifoObj[f])
        /\ txreq' = txreq \ {f}
        /\ tef' = Append(tef, [fifo |-> f, ts |-> Len(wire) + 1])
    BY <1>1 DEF BusSend, FirstByPriority
  <2> HIDE DEF f
  <2>4. wire \in Seq(0 .. MaxFrames)
    BY DEF HistoryTypeOK
  <2>5. Len(wire) + 1 \in Nat
    BY <2>4, LenProperties
  <2>6. [fifo |-> f, ts |-> Len(wire) + 1] \in Entries
    BY <2>1, <2>5
  <2>7. tef' \in Seq(Entries)
    <3>1. tef \in Seq(Entries)
      BY DEF TefTypeOK
    <3> HIDE DEF Entries
    <3> QED
      BY <2>3, <2>6, <3>1, AppendType
  <2>8. wire' \in Seq(0 .. MaxFrames)
    BY <2>2, <2>3, <2>4, AppendType
  <2>9. TefTypeOK' /\ HistoryTypeOK' /\ ControllerTypeOK'
    BY <1>1, <2>3, <2>7, <2>8 DEF BusSend, driver, TefTypeOK, HistoryTypeOK, ControllerTypeOK
  <2> QED
    BY <1>1, <2>9, TypeFrame DEF BusSend, driver
<1>2. CASE BusAbort
  <2>1. Min(txreq) \in TxFifos
    BY <1>2, MinOfFifos DEF BusAbort, MayArbitrate, ControllerTypeOK
  <2>2. ControllerTypeOK'
    BY <1>2, <2>1 DEF BusAbort, FirstByPriority, ControllerTypeOK
  <2> QED
    BY <1>2, <2>2, TypeFrame DEF BusAbort, driver
<1>3. CASE BusErrorState
  <2>1. cerrif' \in BOOLEAN /\ trec' \in ErrorActive .. BusOff
    BY <1>3 DEF BusErrorState, ControllerTypeOK
  <2>2. ControllerTypeOK'
    BY <1>3, <2>1 DEF BusErrorState, ControllerTypeOK
  <2>3. HistoryTypeOK'
    BY <1>3, SpendType DEF BusErrorState
  <2> QED
    BY <1>3, <2>2, <2>3, TypeFrame DEF BusErrorState, driver
<1>4. CASE BusReceive
  <2>1. ControllerTypeOK'
    BY <1>4 DEF BusReceive, ControllerTypeOK
  <2> QED
    BY <1>4, <2>1, TypeFrame DEF BusReceive, driver
<1> QED
  BY <1>1, <1>2, <1>3, <1>4

(* The interrupt thread up to the transmit aborts.                         *)
LEMMA TypeIrqStatus ==
  ASSUME TypeOK,
         IrqStart \/ IrqLoop \/ IrqReadFlags \/ IrqReadRequests \/ IrqClear
           \/ IrqSpiFault
  PROVE  TypeOK'
<1> USE DEF TypeOK
<1>1. NoStatus \in [tefif : BOOLEAN, cerrif : BOOLEAN, txatif : SUBSET TxFifos,
                    txreq : SUBSET TxFifos, trec : ErrorActive .. BusOff]
  BY DEF NoStatus, ErrorActive, BusOff
<1>2. CASE IrqStart
  <2>1. IrqTypeOK'
    BY <1>2 DEF IrqStart, Goto, IrqOff, IrqTypeOK
  <2> QED
    BY <1>2, <2>1, TypeFrame DEF IrqStart, controller
<1>3. CASE IrqLoop
  <2>1. irq' \in [pc : {"off", "flags"}, left : Nat]
    BY <1>3 DEF IrqLoop, Goto, IrqOff
  <2>2. IrqTypeOK'
    BY <1>1, <1>3, <2>1 DEF IrqLoop, IrqTypeOK
  <2>3. MasksTypeOK'
    BY <1>3 DEF IrqLoop, MasksTypeOK
  <2> QED
    BY <1>3, <2>2, <2>3, TypeFrame DEF IrqLoop, controller
<1>4. CASE IrqReadFlags
  <2>1. IrqTypeOK'
    BY <1>4 DEF IrqReadFlags, Goto, IrqOff, IrqTypeOK, ControllerTypeOK
  <2> QED
    BY <1>4, <2>1, TypeFrame DEF IrqReadFlags, controller
<1>5. CASE IrqReadRequests
  <2>1. irq' \in [pc : {"off", "clear"}, left : Nat]
    BY <1>5 DEF IrqReadRequests, Goto, IrqOff
  <2>2. status' = NoStatus \/ status' = [status EXCEPT !.txreq = txreq, !.trec = trec]
    BY <1>5 DEF IrqReadRequests
  <2>3. IrqTypeOK'
    BY <1>1, <2>1, <2>2 DEF IrqTypeOK, ControllerTypeOK
  <2> QED
    BY <1>5, <2>3, TypeFrame DEF IrqReadRequests, controller
<1>6. CASE IrqClear
  <2>1. IrqTypeOK'
    BY <1>6 DEF IrqClear, Goto, IrqOff, IrqTypeOK
  <2>2. TefTypeOK'
    BY <1>6, EmptySeq DEF IrqClear, TefTypeOK
  <2>3. ControllerTypeOK'
    BY <1>6 DEF IrqClear, ControllerTypeOK
  <2> QED
    BY <1>6, <2>1, <2>2, <2>3, TypeFrame DEF IrqClear
<1>7. CASE IrqSpiFault
  <2>1. IrqTypeOK'
    BY <1>1, <1>7 DEF IrqSpiFault, Goto, IrqOff, IrqTypeOK
  <2>2. HistoryTypeOK'
    BY <1>7, SpendType DEF IrqSpiFault
  <2> QED
    BY <1>7, <2>1, <2>2, TypeFrame DEF IrqSpiFault, controller
<1> QED
  BY <1>2, <1>3, <1>4, <1>5, <1>6, <1>7

(* The frame a slot releases is appended to those the stack was given.     *)
LEMMA ReleaseType ==
  ASSUME TypeOK, NEW f \in TxFifos \cup {None}
  PROVE  Release(f) \in Seq(0 .. MaxFrames)
<1>1. confirmed \in Seq(0 .. MaxFrames)
  BY DEF TypeOK, HistoryTypeOK
<1>2. ASSUME f # None PROVE echo[f] \in 0 .. MaxFrames
  BY <1>2 DEF TypeOK, NetTypeOK
<1>3. ASSUME f # None PROVE Append(confirmed, echo[f]) \in Seq(0 .. MaxFrames)
  BY <1>1, <1>2, <1>3, AppendType
<1> QED
  BY <1>1, <1>3 DEF Release

(* Aborts, and what the thread expects of the TEF.                         *)
LEMMA TypeAbort ==
  ASSUME TypeOK, IrqAbort
  PROVE  TypeOK'
<1> USE DEF TypeOK
<1> DEFINE f == Min(status.txatif)
<1>1. status.txatif \subseteq TxFifos /\ status.txatif # {}
  BY DEF IrqAbort, IrqTypeOK
<1>2. f \in TxFifos
  BY <1>1, MinOfFifos
<1>3. Release(f) \in Seq(0 .. MaxFrames)
  BY <1>2, ReleaseType
<1>4. /\ status' = [status EXCEPT !.txatif = @ \ {f}]
      /\ txatif' \in {txatif, txatif \ {f}}
      /\ confirmed' = Release(f)
      /\ echo' = [echo EXCEPT ![f] = None]
      /\ processed' = processed \cup {f}
  BY DEF IrqAbort
<1> HIDE DEF f
<1>5. NetTypeOK'
  <2>1. echo' \in [TxFifos -> 0 .. MaxFrames]
    BY <1>2, <1>4 DEF NetTypeOK, None
  <2> QED
    BY <2>1 DEF IrqAbort, NetTypeOK
<1>6. MasksTypeOK'
  BY <1>2, <1>4 DEF IrqAbort, MasksTypeOK
<1>7. IrqTypeOK'
  BY <1>4 DEF IrqAbort, IrqTypeOK
<1>8. ControllerTypeOK'
  BY <1>4 DEF IrqAbort, ControllerTypeOK
<1>10. late' \subseteq TxFifos
  BY <1>2 DEF IrqAbort, LateWith, HistoryTypeOK, f
<1>9. HistoryTypeOK'
  <2>1. used' \in [states : 0 .. MaxStates, faults : 0 .. MaxSpiFaults,
                   lost : 0 .. MaxLostFaults, opens : 0 .. MaxOpens]
    <3>1. \/ used' = used
          \/ used' = [used EXCEPT !["lost"] = @ + 1] /\ used["lost"] < MaxLostFaults
      BY DEF IrqAbort, Spend
    <3>2. used \in [states : 0 .. MaxStates, faults : 0 .. MaxSpiFaults,
                    lost : 0 .. MaxLostFaults, opens : 0 .. MaxOpens]
      BY DEF HistoryTypeOK
    <3>3. CASE used' = used
      BY <3>2, <3>3
    <3>4. CASE /\ used["lost"] < MaxLostFaults
               /\ used' = [used EXCEPT !["lost"] = @ + 1]
      BY <3>2, <3>4
    <3> QED
      BY <3>1, <3>3, <3>4
  <2> QED
    BY <1>3, <1>4, <1>10, <2>1 DEF IrqAbort, HistoryTypeOK
<1>11. FlagsTypeOK'
  BY DEF IrqAbort, FlagsTypeOK
<1> QED
  BY <1>5, <1>6, <1>7, <1>8, <1>9, <1>11, TypeFrame DEF IrqAbort

(* What handle_tefif decides on is well typed: the expected number of      *)
(* entries is a natural number.                                            *)
LEMMA TypeIrqTef ==
  ASSUME TypeOK, IrqTef
  PROVE  TypeOK'
<1>1. TefCount > 0 => TefCount \in Nat
  BY TefCountType DEF TypeOK, MasksTypeOK
<1>2. irq' \in [pc : {"sort", "tefcount", "tefsta"}, left : Nat]
  <2> HIDE DEF TefCount
  <2> QED
    BY <1>1 DEF IrqTef, Goto, IrqOff
<1>3. IrqTypeOK'
  BY <1>2 DEF IrqTef, TypeOK, IrqTypeOK
<1> QED
  BY <1>3, TypeFrame DEF TypeOK, IrqTef, controller

(* A TEF entry the thread reads, be it a stale one, names a FIFO or none.  *)
LEMMA TypeReadTef ==
  ASSUME TypeOK, NEW skew \in 0 .. TefSize - 1, ReadTefEntry(skew),
         UNCHANGED <<submitted, pending, inIrq, wire, confirmed, late, straddled>>
  PROVE  MasksTypeOK' /\ TefTypeOK' /\ HistoryTypeOK' /\ FlagsTypeOK'
<1> USE DEF TypeOK
<1> DEFINE Entries == [fifo : TxFifos \cup {None}, ts : Nat]
           TefEntries == [fifo : TxFifos, ts : Nat]
           uinc == /\ tef' = IF tef = <<>> THEN <<>> ELSE Tail(tef)
                   /\ tefSkew' = IF tef = <<>> THEN (skew + 1) % TefSize ELSE skew
<1>1. OldEntries \subseteq Entries
  <2>1. 1 .. Len(wire) \subseteq Nat
    BY LenProperties DEF HistoryTypeOK
  <2> QED
    BY <2>1 DEF OldEntries
<1>2. ASSUME skew < Len(tef) PROVE tef[skew + 1] \in Entries
  <2>1. tef \in Seq(TefEntries)
    BY DEF TefTypeOK
  <2>2. skew + 1 \in 1 .. Len(tef)
    BY <1>2, <2>1, LenProperties
  <2>3. tef[skew + 1] \in TefEntries
    BY <2>1, <2>2, ElementOfSeq
  <2> QED
    BY <2>3
<1>3. PICK e \in Entries : QueueTefEntry(e)
  <2>1. CASE \E e \in OldEntries : QueueTefEntry(e)
    BY <1>1, <2>1
  <2>2. CASE skew < Len(tef) /\ QueueTefEntry(tef[skew + 1])
    BY <1>2, <2>2
  <2> QED
    BY <2>1, <2>2 DEF ReadTefEntry
<1>4. queuedTef' \in Seq(Entries)
  <2>1. queuedTef \in Seq(Entries)
    BY DEF TefTypeOK
  <2> HIDE DEF Entries
  <2> QED
    BY <1>3, <2>1, AppendType DEF QueueTefEntry
<1>5. MasksTypeOK'
  BY <1>3 DEF QueueTefEntry, MasksTypeOK
<1>6. (skew + 1) % TefSize \in 0 .. TefSize - 1
  BY ModRange
<1>7. uinc \/ (UNCHANGED tef /\ tefSkew' = (skew + 1) % TefSize)
  BY DEF ReadTefEntry
<1>8. tefSkew' \in 0 .. TefSize - 1
  BY <1>6, <1>7
<1>9. tef' \in Seq(TefEntries)
  <2>1. tef \in Seq(TefEntries)
    BY DEF TefTypeOK
  <2>2. tef' = tef \/ (tef = <<>> /\ tef' = <<>>) \/ (tef # <<>> /\ tef' = Tail(tef))
    BY <1>7
  <2> HIDE DEF TefEntries
  <2> QED
    BY <2>1, <2>2, TailType
<1>10. TefTypeOK'
  BY <1>4, <1>8, <1>9 DEF TefTypeOK
<1>11. HistoryTypeOK'
  <2>1. UNCHANGED used \/ Spend("lost", MaxLostFaults)
    BY DEF ReadTefEntry
  <2> QED
    BY <2>1, SpendType DEF HistoryTypeOK
<1>12. FlagsTypeOK'
  <2>1. misread' = (misread \/ tef = <<>> \/ skew # 0) \/ misread' = TRUE
    BY DEF ReadTefEntry
  <2> QED
    BY <2>1 DEF FlagsTypeOK
<1> QED
  BY <1>5, <1>10, <1>11, <1>12

(* Both ways of emptying the TEF keep the types.                           *)
LEMMA TypeIrqRead ==
  ASSUME TypeOK, IrqTefCount \/ IrqTefConservative
  PROVE  TypeOK'
<1> USE DEF TypeOK
<1>1. CASE IrqTefCount
  <2>1. MasksTypeOK' /\ TefTypeOK' /\ HistoryTypeOK' /\ FlagsTypeOK'
    <3>1. tefSkew \in 0 .. TefSize - 1
      BY DEF TefTypeOK
    <3> QED
      BY <1>1, <3>1, TypeReadTef DEF IrqTefCount
  <2>2. IrqTypeOK'
    <3>1. CASE irq.left > 1
      <4>1. irq' = [irq EXCEPT !.left = @ - 1]
        BY <1>1, <3>1 DEF IrqTefCount
      <4> QED
        BY <1>1, <3>1, <4>1 DEF IrqTefCount, IrqTypeOK
    <3>2. CASE ~(irq.left > 1)
      BY <1>1, <3>2 DEF IrqTefCount, Goto, IrqOff, IrqTypeOK
    <3> QED
      BY <3>1, <3>2
  <2>3. ControllerTypeOK'
    BY <1>1, TypeFrame DEF IrqTefCount
  <2> QED
    BY <1>1, <2>1, <2>2, <2>3, TypeFrame DEF IrqTefCount
<1>2. CASE IrqTefConservative
  <2>1. MasksTypeOK' /\ TefTypeOK' /\ HistoryTypeOK' /\ FlagsTypeOK'
    <3>1. CASE tef = <<>>
      BY <1>2, <3>1, TypeFrame DEF IrqTefConservative, history
    <3>2. CASE tef # <<>>
      <4>1. ReadTefEntry(0)
        BY <1>2, <3>2 DEF IrqTefConservative
      <4>2. 0 \in 0 .. TefSize - 1
        OBVIOUS
      <4> QED
        BY <1>2, <4>1, <4>2, TypeReadTef DEF IrqTefConservative
    <3> QED
      BY <3>1, <3>2
  <2>2. IrqTypeOK'
    BY <1>2 DEF IrqTefConservative, Goto, IrqOff, IrqTypeOK
  <2> QED
    BY <1>2, <2>1, <2>2, TypeFrame DEF IrqTefConservative
<1> QED
  BY <1>1, <1>2

(* Sorting and delivering the queued TEF entries, and the error state.     *)
LEMMA TypeIrqDeliver ==
  ASSUME TypeOK, IrqSort \/ IrqDeliver \/ IrqState \/ IrqSleep
  PROVE  TypeOK'
<1> USE DEF TypeOK
<1> DEFINE Entries == [fifo : TxFifos \cup {None}, ts : Nat]
<1>1. queuedTef \in Seq(Entries)
  BY DEF TefTypeOK
<1>2. CASE IrqSort
  <2>1. queuedTef' \in Seq(Entries)
    <3> DEFINE n == Len(queuedTef)
    <3>1. PICK order \in Bijection(1 .. n, 1 .. n) :
            queuedTef' = [i \in 1 .. n |-> queuedTef[order[i]]]
      BY <1>2 DEF IrqSort
    <3>2. order \in [1 .. n -> 1 .. n] /\ n \in Nat
      BY <1>1, LenProperties DEF Bijection, Injection
    <3>3. queuedTef' \in [1 .. n -> Entries]
      <4> HIDE DEF Entries
      <4>1. \A i \in 1 .. n : queuedTef[order[i]] \in Entries
        BY <1>1, <3>2, ElementOfSeq
      <4> QED
        BY <3>1, <4>1
    <3> HIDE DEF Entries, n
    <3> QED
      BY <3>2, <3>3, FunctionIsSeq
  <2>2. IrqTypeOK'
    BY <1>2 DEF IrqSort, Goto, IrqOff, IrqTypeOK
  <2>3. TefTypeOK'
    BY <1>2, <2>1 DEF IrqSort, controller, TefTypeOK
  <2>4. HistoryTypeOK'
    BY <1>2 DEF IrqSort, HistoryTypeOK
  <2>5. FlagsTypeOK'
    BY <1>2 DEF IrqSort, FlagsTypeOK
  <2> QED
    BY <1>2, <2>2, <2>3, <2>4, <2>5, TypeFrame DEF IrqSort, controller
<1>3. CASE IrqDeliver
  <2>1. Head(queuedTef) \in Entries /\ Tail(queuedTef) \in Seq(Entries)
    <3> HIDE DEF Entries
    <3> QED
      BY <1>1, <1>3, TailType DEF IrqDeliver
  <2> DEFINE f == Head(queuedTef).fifo
  <2>2. f \in TxFifos \cup {None}
    BY <2>1
  <2>3. /\ confirmed' = Release(f)
        /\ echo' = IF f = None THEN echo ELSE [echo EXCEPT ![f] = None]
        /\ queuedTef' = Tail(queuedTef)
        /\ late' = LateWith(f)
    BY <1>3 DEF IrqDeliver
  <2> HIDE DEF f
  <2>9. late' \subseteq TxFifos
    BY <2>2, <2>3 DEF LateWith, HistoryTypeOK
  <2>4. confirmed' \in Seq(0 .. MaxFrames)
    BY <2>2, <2>3, ReleaseType
  <2>5. echo' \in [TxFifos -> 0 .. MaxFrames]
    BY <2>2, <2>3 DEF NetTypeOK, None
  <2>6. NetTypeOK'
    BY <1>3, <2>5 DEF IrqDeliver, NetTypeOK
  <2>7. HistoryTypeOK'
    BY <1>3, <2>4, <2>9 DEF IrqDeliver, HistoryTypeOK
  <2>8. TefTypeOK'
    BY <1>3, <2>1, <2>3 DEF IrqDeliver, controller, TefTypeOK
  <2> QED
    BY <1>3, <2>6, <2>7, <2>8, TypeFrame DEF IrqDeliver, controller
<1>4. CASE IrqState
  <2>1. NewState \in ErrorActive .. Stopped
    BY DEF NewState, IrqTypeOK, NetTypeOK, ErrorActive, BusOff, Stopped
  <2>2. /\ canState' = NewState
        /\ queue' \in {queue, "stopped", "running"} /\ forceQuit' \in {forceQuit, TRUE}
        /\ irq' \in [pc : {"loop", "sleep"}, left : Nat]
        /\ pending' \in {pending, {}} /\ submitted' \in {submitted, {}}
        /\ processed' \in {processed, {}}
    <3> HIDE DEF NewState, AllProcessed
    <3>1. canState' = NewState
      BY <1>4 DEF IrqState
    <3>2. queue' \in {queue, "stopped", "running"}
      BY <1>4 DEF IrqState
    <3>3. forceQuit' = forceQuit \/ forceQuit' = TRUE
      BY <1>4 DEF IrqState
    <3>4. /\ pending' \in {pending, {}} /\ submitted' \in {submitted, {}}
          /\ processed' \in {processed, {}}
      BY <1>4 DEF IrqState
    <3>5. irq' \in [pc : {"loop", "sleep"}, left : Nat]
      BY <1>4 DEF IrqState, Goto, IrqOff
    <3> QED
      BY <3>1, <3>2, <3>3, <3>4, <3>5
  <2> HIDE DEF NewState
  <2>3. NetTypeOK'
    BY <1>4, <2>1, <2>2 DEF IrqState, NetTypeOK
  <2>4. MasksTypeOK'
    BY <1>4, <2>2 DEF IrqState, MasksTypeOK
  <2>5. IrqTypeOK'
    BY <1>4, <2>2 DEF IrqState, IrqTypeOK
  <2> QED
    BY <1>4, <2>3, <2>4, <2>5, TypeFrame DEF IrqState, controller
<1>5. CASE IrqSleep
  <2>1. IrqTypeOK'
    BY <1>5 DEF IrqSleep, Goto, IrqOff, IrqTypeOK
  <2>2. ControllerTypeOK'
    BY <1>5 DEF IrqSleep, ControllerTypeOK
  <2>3. HistoryTypeOK'
    <3>1. UNCHANGED used \/ Spend("lost", MaxLostFaults)
      BY <1>5 DEF IrqSleep
    <3> QED
      BY <1>5, <3>1, SpendType DEF IrqSleep, HistoryTypeOK
  <2> QED
    BY <1>5, <2>1, <2>2, <2>3, TypeFrame DEF IrqSleep
<1> QED
  BY <1>2, <1>3, <1>4, <1>5

(* ndo_open and ndo_stop                                                   *)
LEMMA TypeOpenStop ==
  ASSUME TypeOK, Open \/ OpenFails \/ StopBegin \/ StopEnd
  PROVE  TypeOK'
<1> USE DEF TypeOK
<1>1. {ErrorActive, Stopped} \subseteq ErrorActive .. Stopped
      /\ ErrorActive \in ErrorActive .. BusOff
  BY DEF ErrorActive, BusOff, Stopped
<1>2. <<>> \in Seq([fifo : TxFifos, ts : Nat]) /\ 0 \in 0 .. TefSize - 1
  BY EmptySeq
<1>3. CASE Open
  <2>1. NetTypeOK'
    BY <1>1, <1>3 DEF Open, NetTypeOK
  <2>2. TefTypeOK'
    BY <1>2, <1>3 DEF Open, TefTypeOK
  <2>3. ControllerTypeOK'
    BY <1>1, <1>3 DEF Open, ControllerTypeOK
  <2>4. HistoryTypeOK'
    BY <1>3, SpendType DEF Open
  <2> QED
    BY <1>3, <2>1, <2>2, <2>3, <2>4, TypeFrame DEF Open
<1>4. CASE OpenFails
  <2>1. NetTypeOK'
    BY <1>1, <1>4 DEF OpenFails, NetTypeOK
  <2>2. TefTypeOK'
    BY <1>2, <1>4 DEF OpenFails, TefTypeOK
  <2>3. ControllerTypeOK'
    BY <1>1, <1>4 DEF OpenFails, ControllerTypeOK
  <2>4. HistoryTypeOK'
    BY <1>4, SpendType DEF OpenFails
  <2> QED
    BY <1>4, <2>1, <2>2, <2>3, <2>4, TypeFrame DEF OpenFails
<1>5. CASE StopBegin
  <2>1. [f \in TxFifos |-> None] \in [TxFifos -> 0 .. MaxFrames]
    BY DEF None
  <2>2. NetTypeOK'
    BY <1>5, <2>1 DEF StopBegin, NetTypeOK
  <2> QED
    BY <1>5, <2>2, TypeFrame DEF StopBegin, controller
<1>6. CASE StopEnd
  <2>1. NetTypeOK'
    BY <1>1, <1>6 DEF StopEnd, NetTypeOK
  <2>2. MasksTypeOK'
    BY <1>6 DEF StopEnd, MasksTypeOK
  <2>3. ControllerTypeOK'
    BY <1>6 DEF StopEnd, ControllerTypeOK
  <2> QED
    BY <1>6, <2>1, <2>2, <2>3, TypeFrame DEF StopEnd
<1> QED
  BY <1>3, <1>4, <1>5, <1>6

(* Every step of the driver, the SPI core and the controller keeps the     *)
(* types.                                                                  *)
LEMMA TypeNext ==
  ASSUME TypeOK, [Next]_vars
  PROVE  TypeOK'
<1>1. CASE UNCHANGED vars
  BY <1>1, TypeFrame DEF TypeOK, vars, driver, controller, history
<1> QED
  BY <1>1, TypeXmit, TypeSpi, TypeBus, TypeIrqStatus, TypeAbort, TypeIrqTef,
     TypeIrqRead, TypeIrqDeliver, TypeOpenStop DEF Next, IrqThread

(* Every variable keeps its type, whatever the number of FIFOs, frames and *)
(* faults: in particular no step of the driver, not even one that reads a  *)
(* stale TEF entry, marks or addresses a FIFO that is not a transmit FIFO. *)
THEOREM TypeCorrect == Spec => []TypeOK
<1>1. Init => TypeOK
  BY TypeInit
<1>2. TypeOK /\ [Next]_vars => TypeOK'
  BY TypeNext
<1> QED
  BY <1>1, <1>2, PTL DEF Spec

-----------------------------------------------------------------------------
(* The FIFOs a sequence of messages or of TEF entries names.               *)

(* An empty queue names no FIFO.                                           *)
LEMMA FifosOfEmpty == FifosOf(<<>>) = {} /\ FifosDistinct(<<>>)
BY DEF FifosOf, FifosDistinct

(* Queueing one more message or TEF entry adds its FIFO.                   *)
LEMMA FifosOfAppend ==
  ASSUME NEW S, NEW q \in Seq(S), NEW e \in S
  PROVE  /\ FifosOf(Append(q, e)) = FifosOf(q) \cup {e.fifo}
         /\ FifosDistinct(q) /\ e.fifo \notin FifosOf(q)
              => FifosDistinct(Append(q, e))
<1> DEFINE r == Append(q, e)
<1>1. /\ Len(r) = Len(q) + 1 /\ Len(q) \in Nat
      /\ \A i \in 1 .. Len(q) : r[i] = q[i]
      /\ r[Len(q) + 1] = e
  BY AppendProperties, LenProperties
<1> HIDE DEF r
<1>2. FifosOf(r) \subseteq FifosOf(q) \cup {e.fifo}
  <2> SUFFICES ASSUME NEW i \in 1 .. Len(r)
               PROVE  r[i].fifo \in FifosOf(q) \cup {e.fifo}
    BY DEF FifosOf
  <2>1. CASE i = Len(q) + 1
    BY <1>1, <2>1
  <2>2. CASE i \in 1 .. Len(q)
    BY <1>1, <2>2 DEF FifosOf
  <2> QED
    BY <1>1, <2>1, <2>2
<1>3. FifosOf(q) \cup {e.fifo} \subseteq FifosOf(r)
  <2>1. ASSUME NEW i \in 1 .. Len(q) PROVE q[i].fifo \in FifosOf(r)
    <3>1. i \in 1 .. Len(r) /\ r[i] = q[i]
      BY <1>1
    <3> QED
      BY <3>1 DEF FifosOf
  <2>2. e.fifo \in FifosOf(r)
    <3>1. Len(q) + 1 \in 1 .. Len(r) /\ r[Len(q) + 1] = e
      BY <1>1
    <3> QED
      BY <3>1 DEF FifosOf
  <2> QED
    BY <2>1, <2>2 DEF FifosOf
<1>4. ASSUME FifosDistinct(q), e.fifo \notin FifosOf(q) PROVE FifosDistinct(r)
  <2> SUFFICES ASSUME NEW i \in 1 .. Len(r), NEW j \in 1 .. Len(r),
                      r[i].fifo = r[j].fifo
               PROVE  i = j
    BY DEF FifosDistinct
  <2>1. \A k \in 1 .. Len(q) : r[k].fifo = q[k].fifo /\ q[k].fifo # e.fifo
    BY <1>1, <1>4 DEF FifosOf
  <2>2. CASE i \in 1 .. Len(q) /\ j \in 1 .. Len(q)
    BY <1>4, <2>1, <2>2 DEF FifosDistinct
  <2>3. CASE i = Len(q) + 1 \/ j = Len(q) + 1
    BY <1>1, <2>1, <2>3
  <2> QED
    BY <1>1, <2>2, <2>3
<1> QED
  BY <1>2, <1>3, <1>4 DEF r

(* Taking the oldest one removes exactly its FIFO when all differ.         *)
LEMMA FifosOfTail ==
  ASSUME NEW S, NEW q \in Seq(S), q # <<>>, FifosDistinct(q)
  PROVE  /\ Head(q).fifo \in FifosOf(q)
         /\ FifosOf(Tail(q)) = FifosOf(q) \ {Head(q).fifo}
         /\ FifosDistinct(Tail(q))
<1> DEFINE r == Tail(q)
<1>1. /\ Len(q) \in Nat \ {0} /\ Len(r) = Len(q) - 1
      /\ \A i \in 1 .. Len(r) : r[i] = q[i + 1]
      /\ Head(q) = q[1]
  BY HeadTailProperties, EmptySeq
<1> HIDE DEF r
<1>2. Head(q).fifo \in FifosOf(q)
  BY <1>1 DEF FifosOf
<1>3. FifosOf(r) \subseteq FifosOf(q) \ {Head(q).fifo}
  <2> SUFFICES ASSUME NEW i \in 1 .. Len(r)
               PROVE  r[i].fifo \in FifosOf(q) \ {Head(q).fifo}
    BY DEF FifosOf
  <2>1. /\ i + 1 \in 1 .. Len(q) /\ 1 \in 1 .. Len(q) /\ i + 1 # 1
        /\ r[i] = q[i + 1]
    BY <1>1
  <2> QED
    BY <1>1, <2>1 DEF FifosOf, FifosDistinct
<1>4. FifosOf(q) \ {Head(q).fifo} \subseteq FifosOf(r)
  <2> SUFFICES ASSUME NEW i \in 1 .. Len(q), q[i].fifo # Head(q).fifo
               PROVE  q[i].fifo \in FifosOf(r)
    BY DEF FifosOf
  <2>1. i # 1
    BY <1>1
  <2>2. i - 1 \in 1 .. Len(r) /\ r[i - 1] = q[i]
    BY <1>1, <2>1
  <2> QED
    BY <2>2 DEF FifosOf
<1>5. FifosDistinct(r)
  <2> SUFFICES ASSUME NEW i \in 1 .. Len(r), NEW j \in 1 .. Len(r),
                      r[i].fifo = r[j].fifo
               PROVE  i = j
    BY DEF FifosDistinct
  <2>1. /\ i + 1 \in 1 .. Len(q) /\ r[i] = q[i + 1]
        /\ j + 1 \in 1 .. Len(q) /\ r[j] = q[j + 1]
    BY <1>1
  <2>2. i + 1 = j + 1
    BY <2>1 DEF FifosDistinct
  <2> QED
    BY <2>2
<1> QED
  BY <1>2, <1>3, <1>4, <1>5 DEF r

(* There are at least as many entries as FIFOs they name.                  *)
LEMMA FifosOfCount ==
  ASSUME NEW S, NEW q \in Seq(S)
  PROVE  /\ IsFiniteSet(FifosOf(q))
         /\ Cardinality(FifosOf(q)) <= Len(q)
<1> DEFINE D == 1 .. Len(q)
           f == [i \in D |-> q[i].fifo]
<1>1. Len(q) \in Nat
  BY LenProperties
<1>2. IsFiniteSet(D) /\ Cardinality(D) = Len(q)
  <2>1. ASSUME NEW n \in Int
        PROVE  IsFiniteSet(1 .. n) /\ Cardinality(1 .. n) = IF 1 > n THEN 0 ELSE n - 1 + 1
    <3>1. 1 \in Int
      OBVIOUS
    <3> QED
      BY <3>1, FS_Interval, Zenon
  <2>3. /\ IsFiniteSet(D)
        /\ Cardinality(D) = IF 1 > Len(q) THEN 0 ELSE Len(q) - 1 + 1
    <3>1. Len(q) \in Int
      BY <1>1
    <3> QED
      BY <2>1, <3>1, Zenon
  <2>2. (IF 1 > Len(q) THEN 0 ELSE Len(q) - 1 + 1) = Len(q)
    BY <1>1
  <2> HIDE DEF D
  <2> QED
    BY <2>2, <2>3
<1>3. f \in Surjection(D, FifosOf(q))
  BY DEF Surjection, FifosOf
<1>4. IsFiniteSet(FifosOf(q)) /\ Cardinality(FifosOf(q)) <= Cardinality(D)
  <2> HIDE DEF D, f
  <2> QED
    BY <1>2, <1>3, FS_Surjection
<1> QED
  BY <1>2, <1>4

-----------------------------------------------------------------------------
(* The masks.                                                              *)

(* A step that touches none of the variables of MaskInv preserves it.      *)
LEMMA MaskFrame ==
  ASSUME MaskInv,
         UNCHANGED <<spi, txreq, tef, tefSkew, txatif, submitted, pending,
                     processed, link, irq, inIrq, status>>
  PROVE  MaskInv'
BY DEF MaskInv, FifoNotReused, MasksCover, NoAborts, DownIsQuiet, TefExpected,
       SpiFifos, TefFifos, InIrq

(* A step of the interrupt thread that only moves its program counter and  *)
(* reads registers has to care for what the thread knows.                  *)
LEMMA MaskFramePlaces ==
  ASSUME MaskInv,
         UNCHANGED <<spi, txreq, tef, tefSkew, txatif, submitted, pending,
                     processed, link>>
  PROVE  FifoNotReused' /\ MasksCover'
BY DEF MaskInv, FifoNotReused, MasksCover, SpiFifos, TefFifos

(* Nothing is reserved when the driver is loaded.                          *)
LEMMA MaskInit == Init => MaskInv
<1> SUFFICES ASSUME Init PROVE MaskInv
  OBVIOUS
<1>1. SpiFifos = {} /\ TefFifos = {} /\ FifosDistinct(spi) /\ FifosDistinct(tef)
  BY FifosOfEmpty DEF Init, SpiFifos, TefFifos
<1>2. FifoNotReused /\ MasksCover
  BY <1>1 DEF Init, FifoNotReused, MasksCover
<1>3. NoAborts /\ DownIsQuiet /\ TefExpected
  BY DEF Init, NoAborts, DownIsQuiet, TefExpected, NoStatus, IrqOff, InIrq
<1> QED
  BY <1>2, <1>3 DEF MaskInv

(* start_xmit reserves a FIFO no frame is in.                              *)
LEMMA MaskXmit ==
  ASSUME TypeOK, MaskInv, Xmit
  PROVE  MaskInv'
<1> DEFINE Msgs == [fifo : TxFifos, frame : Frames]
           msg == [fifo |-> NextFifo, frame |-> next]
<1>1. NextFifo \in TxFifos /\ \A f \in Taken : f < NextFifo
  BY NextFifoIsFree DEF Xmit, Taken, TypeOK, MasksTypeOK
<1>2. NextFifo \notin Taken
  <2>1. NextFifo \in Nat
    BY <1>1, TxFifosFinite
  <2> HIDE DEF NextFifo
  <2> QED
    BY <1>1, <2>1
<1>3. /\ submitted' = submitted \cup {NextFifo}
      /\ spi' = spi \/ spi' = Append(spi, msg)
      /\ next \in Frames /\ link = "up"
      /\ UNCHANGED <<txreq, tef, tefSkew, txatif, pending, processed, link, irq,
                     inIrq, status>>
  BY DEF Xmit, MayXmit, controller
<1>4. msg \in Msgs /\ msg.fifo = NextFifo
  BY <1>1, <1>3
<1>5. NextFifo \notin SpiFifos \cup txreq \cup TefFifos \cup processed
  BY <1>2 DEF MaskInv, MasksCover, Taken
<1>6. spi \in Seq(Msgs)
  BY DEF TypeOK, ControllerTypeOK
<1> HIDE DEF NextFifo, msg, Msgs
<1>7. /\ FifosDistinct(spi')
      /\ SpiFifos' = SpiFifos \/ SpiFifos' = SpiFifos \cup {NextFifo}
  <2>1. CASE spi' = spi
    BY <2>1 DEF MaskInv, FifoNotReused, SpiFifos
  <2>2. CASE spi' = Append(spi, msg)
    <3>1. FifosOf(spi') = FifosOf(spi) \cup {NextFifo}
      BY <1>4, <1>6, <2>2, FifosOfAppend
    <3>2. FifosDistinct(spi')
      BY <1>4, <1>5, <1>6, <2>2, FifosOfAppend DEF MaskInv, FifoNotReused, SpiFifos
    <3> QED
      BY <3>1, <3>2 DEF SpiFifos
  <2> QED
    BY <1>3, <2>1, <2>2
<1>8. TefFifos' = TefFifos /\ FifosDistinct(tef')
  BY <1>3 DEF TefFifos, MaskInv, FifoNotReused
<1>9. FifoNotReused'
  <2>1. SpiFifos' \cap (txreq \cup TefFifos) = {} /\ txatif = {}
    BY <1>5, <1>7 DEF MaskInv, NoAborts, FifoNotReused
  <2> QED
    BY <1>3, <1>7, <1>8, <2>1 DEF MaskInv, FifoNotReused
<1>10. MasksCover'
  BY <1>3, <1>5, <1>7, <1>8 DEF MaskInv, MasksCover
<1>11. NoAborts' /\ DownIsQuiet' /\ TefExpected'
  <2>1. NoAborts' /\ DownIsQuiet'
    BY <1>3 DEF MaskInv, NoAborts, DownIsQuiet
  <2>2. TefExpected'
    BY <1>3, <1>8 DEF MaskInv, TefExpected, InIrq
  <2> QED
    BY <2>1, <2>2
<1> QED
  BY <1>9, <1>10, <1>11 DEF MaskInv

(* The completion callback hands the FIFO over to the controller.          *)
LEMMA MaskSpi ==
  ASSUME TypeOK, MaskInv, SpiComplete, MaxLostFaults = 0
  PROVE  MaskInv'
<1> DEFINE Msgs == [fifo : TxFifos, frame : Frames]
           f == Head(spi).fifo
<1>1. /\ spi \in Seq(Msgs) /\ spi # <<>> /\ FifosDistinct(spi)
  BY DEF TypeOK, ControllerTypeOK, SpiComplete, Requested, MaskInv, FifoNotReused
<1>2. ~Spend("lost", MaxLostFaults)
  BY DEF Spend, TypeOK, HistoryTypeOK
<1>3. /\ pending' = pending \cup {f} /\ txreq' = txreq \cup {f} /\ spi' = Tail(spi)
      /\ UNCHANGED <<tef, tefSkew, txatif, submitted, processed, link, irq,
                     inIrq, status>>
  BY <1>2 DEF SpiComplete, Requested
<1>4. /\ f \in SpiFifos /\ SpiFifos' = SpiFifos \ {f} /\ FifosDistinct(spi')
  <2> HIDE DEF Msgs
  <2> QED
    BY <1>1, <1>3, FifosOfTail DEF SpiFifos
<1> HIDE DEF f
<1>5. TefFifos' = TefFifos /\ FifosDistinct(tef')
  BY <1>3 DEF TefFifos, MaskInv, FifoNotReused
<1>6. FifoNotReused'
  BY <1>3, <1>4, <1>5, Zenon DEF MaskInv, NoAborts, FifoNotReused
<1>7. MasksCover'
  BY <1>3, <1>4, <1>5 DEF MaskInv, MasksCover
<1>8. NoAborts' /\ DownIsQuiet'
  BY <1>1, <1>3 DEF MaskInv, NoAborts, DownIsQuiet
<1>9. TefExpected'
  BY <1>3, <1>5 DEF MaskInv, TefExpected, InIrq
<1> QED
  BY <1>6, <1>7, <1>8, <1>9 DEF MaskInv

(* The bus turns a request into a transmit event.                          *)
LEMMA MaskBus ==
  ASSUME TypeOK, MaskInv, BusSend
  PROVE  MaskInv'
<1> DEFINE Entries == [fifo : TxFifos, ts : Nat]
           f == Min(txreq)
           e == [fifo |-> f, ts |-> Len(wire) + 1]
<1>1. f \in txreq /\ f \in TxFifos
  BY MinOfFifos DEF BusSend, MayArbitrate, TypeOK, ControllerTypeOK
<1>2. /\ txreq' = txreq \ {f} /\ tef' = Append(tef, e)
      /\ UNCHANGED <<spi, tefSkew, txatif, submitted, pending, processed, link,
                     irq, inIrq, status>>
  BY DEF BusSend, FirstByPriority, driver
<1>3. tef \in Seq(Entries) /\ Len(wire) \in Nat
  BY LenProperties DEF TypeOK, TefTypeOK, HistoryTypeOK
<1> HIDE DEF f
<1>4. e \in Entries /\ e.fifo = f
  BY <1>1, <1>3
<1>5. f \notin TefFifos \cup SpiFifos \cup processed
  BY <1>1 DEF MaskInv, FifoNotReused, MasksCover
<1> HIDE DEF e, Entries
<1>6. TefFifos' = TefFifos \cup {f}
  BY <1>2, <1>3, <1>4, FifosOfAppend DEF TefFifos
<1>7. FifosDistinct(tef')
  BY <1>2, <1>3, <1>4, <1>5, FifosOfAppend DEF TefFifos, MaskInv, FifoNotReused
<1>8. Len(tef') = Len(tef) + 1 /\ Len(tef) \in Nat
  BY <1>2, <1>3, <1>4, AppendProperties, LenProperties
<1>9. SpiFifos' = SpiFifos /\ FifosDistinct(spi')
  BY <1>2 DEF SpiFifos, MaskInv, FifoNotReused
<1>10. FifoNotReused'
  <2>1. /\ SpiFifos \cap (txreq \cup TefFifos \cup txatif) = {}
        /\ txreq \cap (TefFifos \cup txatif) = {} /\ txatif = {}
    BY DEF MaskInv, NoAborts, FifoNotReused
  <2>2. /\ SpiFifos' = SpiFifos /\ txreq' = txreq \ {f} /\ txatif' = {}
        /\ TefFifos' = TefFifos \cup {f} /\ f \notin SpiFifos
    BY <1>2, <1>5, <1>6, <1>9, <2>1
  <2>3. SpiFifos' \cap (txreq' \cup TefFifos' \cup txatif') = {}
    BY <2>1, <2>2
  <2>4. txreq' \cap (TefFifos' \cup txatif') = {} /\ TefFifos' \cap txatif' = {}
    BY <2>1, <2>2
  <2> QED
    BY <1>7, <1>9, <2>3, <2>4 DEF FifoNotReused
<1>11. MasksCover'
  BY <1>1, <1>2, <1>5, <1>6, <1>9 DEF MaskInv, MasksCover
<1>12. NoAborts' /\ DownIsQuiet'
  BY <1>2 DEF MaskInv, NoAborts, DownIsQuiet, InIrq
<1>13. TefExpected'
  BY <1>2, <1>6, <1>8 DEF MaskInv, TefExpected, InIrq
<1> QED
  BY <1>10, <1>11, <1>12, <1>13 DEF MaskInv

(* The thread before it looks at the transmit events.                      *)
LEMMA MaskIrqStatus ==
  ASSUME TypeOK, MaskInv,
         IrqStart \/ IrqLoop \/ IrqReadFlags \/ IrqReadRequests \/ IrqClear
           \/ IrqSpiFault
  PROVE  MaskInv'
<1>1. UNCHANGED <<spi, txreq, tef, tefSkew, txatif, submitted, pending,
                  processed, link>>
  BY DEF IrqStart, IrqLoop, IrqReadFlags, IrqReadRequests, IrqClear,
         IrqSpiFault, controller
<1>2. FifoNotReused' /\ MasksCover'
  BY <1>1, MaskFramePlaces
<1>3. NoAborts'
  <2>1. status'.txatif \in {{}, status.txatif, txatif}
    <3>1. \/ status' \in {status, NoStatus}
          \/ status' = [status EXCEPT !.tefif = (tef # <<>>), !.cerrif = cerrif,
                                      !.txatif = txatif]
          \/ status' = [status EXCEPT !.txreq = txreq, !.trec = trec]
      BY DEF IrqStart, IrqLoop, IrqReadFlags, IrqReadRequests, IrqClear, IrqSpiFault
    <3>2. /\ [status EXCEPT !.tefif = (tef # <<>>), !.cerrif = cerrif,
                           !.txatif = txatif].txatif = txatif
          /\ [status EXCEPT !.txreq = txreq, !.trec = trec].txatif = status.txatif
          /\ NoStatus.txatif = {}
      BY DEF TypeOK, IrqTypeOK, NoStatus
    <3> QED
      BY <3>1, <3>2
  <2> QED
    BY <1>1, <2>1 DEF MaskInv, NoAborts
<1>4. DownIsQuiet'
  <2>1. link = "down" => InIrq("off")
    BY DEF MaskInv, DownIsQuiet
  <2>2. link # "down"
    BY <2>1 DEF IrqStart, IrqLoop, IrqReadFlags, IrqReadRequests, IrqClear,
                IrqSpiFault, InIrq
  <2> QED
    BY <1>1, <2>2 DEF DownIsQuiet
<1>5. TefExpected'
  <2>1. TefFifos' = TefFifos /\ tef' = tef
    BY <1>1 DEF TefFifos
  <2>2. CASE IrqStart
    BY <2>2 DEF IrqStart, Goto, IrqOff, TefExpected, InIrq
  <2>3. CASE IrqLoop
    BY <2>3 DEF IrqLoop, Goto, IrqOff, TefExpected, InIrq
  <2>4. CASE IrqReadFlags
    BY <1>1, <2>4 DEF IrqReadFlags, Goto, IrqOff, MaskInv, TefExpected, InIrq
  <2>5. CASE IrqReadRequests
    <3>1. inIrq \subseteq processed \cup txreq \cup TefFifos /\ inIrq \subseteq pending
      BY <2>5 DEF IrqReadRequests, MaskInv, TefExpected, MasksCover, InIrq
    <3>2. CASE irq'.pc = "off"
      BY <3>2 DEF TefExpected, InIrq
    <3>3. CASE irq'.pc # "off"
      <4>1. irq'.pc = "clear" /\ status'.txreq = txreq /\ inIrq' = inIrq
        BY <2>5, <3>3 DEF IrqReadRequests, Goto, IrqOff, TypeOK, IrqTypeOK
      <4> QED
        BY <1>1, <2>1, <3>1, <4>1 DEF TefExpected, InIrq
    <3> QED
      BY <3>2, <3>3
  <2>6. CASE IrqClear
    BY <1>1, <2>1, <2>6 DEF IrqClear, Goto, IrqOff, MaskInv, TefExpected, InIrq
  <2>7. CASE IrqSpiFault
    BY <2>7 DEF IrqSpiFault, Goto, IrqOff, TefExpected, InIrq
  <2> QED
    BY <2>2, <2>3, <2>4, <2>5, <2>6, <2>7
<1> QED
  BY <1>2, <1>3, <1>4, <1>5 DEF MaskInv

(* The thread expects as many transmit events as pending FIFOs that are no *)
(* longer requested, and each of them has one.                             *)
LEMMA MaskIrqTef ==
  ASSUME TypeOK, MaskInv, IrqTef
  PROVE  MaskInv'
<1> DEFINE Entries == [fifo : TxFifos, ts : Nat]
<1>1. UNCHANGED <<spi, txreq, tef, tefSkew, txatif, submitted, pending,
                  processed, link, inIrq, status>>
  BY DEF IrqTef, controller
<1>2. FifoNotReused' /\ MasksCover'
  BY <1>1, MaskFramePlaces
<1>3. NoAborts' /\ DownIsQuiet'
  BY <1>1 DEF IrqTef, MaskInv, NoAborts, DownIsQuiet, InIrq
<1>4. inIrq \subseteq pending /\ inIrq \ status.txreq \subseteq processed \cup TefFifos
  BY DEF IrqTef, MaskInv, TefExpected, InIrq
<1>5. TefCount <= Len(tef) /\ TefCount \in Int /\ Len(tef) \in Nat
  <2>1. tef \in Seq(Entries)
    BY DEF TypeOK, TefTypeOK
  <2>2. (inIrq \ processed) \ status.txreq \subseteq TefFifos
    BY <1>4
  <2>3. /\ TefCount = Cardinality((inIrq \ processed) \ status.txreq)
        /\ TefCount \in Int
    BY TefCountType DEF TypeOK, MasksTypeOK
  <2>4. IsFiniteSet(TefFifos) /\ Cardinality(TefFifos) <= Len(tef)
    <3> HIDE DEF Entries
    <3> QED
      BY <2>1, FifosOfCount DEF TefFifos
  <2>5. /\ Cardinality((inIrq \ processed) \ status.txreq) <= Cardinality(TefFifos)
        /\ Cardinality(TefFifos) \in Nat
    BY <2>2, <2>4, FS_Subset, FS_CardinalityType
  <2>6. Len(tef) \in Nat
    BY <2>1, LenProperties
  <2> HIDE DEF TefCount, TefFifos
  <2> QED
    BY <2>3, <2>4, <2>5, <2>6
<1>6. TefExpected'
  <2> HIDE DEF TefCount
  <2>1. \/ irq'.pc \in {"sort", "tefsta"}
        \/ irq'.pc = "tefcount" /\ irq'.left = TefCount /\ TefCount > 0
    BY DEF IrqTef, Goto, IrqOff
  <2> QED
    BY <1>1, <1>4, <1>5, <2>1 DEF TefExpected, InIrq
<1> QED
  BY <1>2, <1>3, <1>6 DEF MaskInv

(* Reading the TEF takes the oldest entry out and marks its FIFO processed.*)
LEMMA MaskReadTef ==
  ASSUME TypeOK, MaskInv, MaxLostFaults = 0, ReadTefEntry(0), tef # <<>>,
         UNCHANGED <<spi, txreq, txatif, submitted, pending, link, status>>
  PROVE  /\ FifoNotReused' /\ MasksCover' /\ NoAborts'
         /\ Len(tef') = Len(tef) - 1 /\ Len(tef) \in Nat
<1> DEFINE Entries == [fifo : TxFifos, ts : Nat]
           f == Head(tef).fifo
<1>1. tef \in Seq(Entries)
  BY DEF TypeOK, TefTypeOK
<1>2. Len(tef) \in Nat \ {0} /\ tef[1] = Head(tef)
  BY <1>1, EmptySeq
<1>3. ~Spend("lost", MaxLostFaults)
  BY DEF Spend, TypeOK, HistoryTypeOK
<1>4. \E e \in {tef[0 + 1]} : QueueTefEntry(e)
  BY <1>2, <1>3 DEF ReadTefEntry
<1>5. tef' = Tail(tef) /\ tefSkew' = 0
  BY <1>3 DEF ReadTefEntry
<1>6. processed' = processed \cup {f}
  BY <1>2, <1>4 DEF QueueTefEntry
<1>7. /\ f \in TefFifos /\ TefFifos' = TefFifos \ {f} /\ FifosDistinct(tef')
  <2> HIDE DEF Entries
  <2> QED
    BY <1>1, <1>5, FifosOfTail DEF TefFifos, MaskInv, FifoNotReused
<1>8. f \in TxFifos
  <2>1. Head(tef) \in Entries
    <3> HIDE DEF Entries
    <3> QED
      BY <1>1, TailType
  <2> QED
    BY <2>1
<1>9. Len(tef') = Len(tef) - 1
  BY <1>1, <1>5, HeadTailProperties
<1> HIDE DEF f
<1>10. SpiFifos' = SpiFifos /\ FifosDistinct(spi')
  BY DEF SpiFifos, MaskInv, FifoNotReused
<1>11. FifoNotReused'
  BY <1>7, <1>10 DEF MaskInv, FifoNotReused
<1>12. MasksCover'
  BY <1>6, <1>7, <1>8, <1>10 DEF MaskInv, MasksCover, FifoNotReused
<1>13. NoAborts'
  BY <1>5 DEF MaskInv, NoAborts
<1> QED
  BY <1>2, <1>9, <1>11, <1>12, <1>13

(* Both ways of emptying the TEF keep the masks honest.                    *)
LEMMA MaskIrqRead ==
  ASSUME TypeOK, MaskInv, MaxLostFaults = 0, IrqTefCount \/ IrqTefConservative
  PROVE  MaskInv'
<1>1. tefSkew = 0
  BY DEF MaskInv, NoAborts
<1>2. CASE IrqTefCount
  <2>1. irq.left \in 1 .. Len(tef) /\ inIrq \subseteq pending
    BY <1>2 DEF IrqTefCount, MaskInv, TefExpected, InIrq
  <2>2. tef # <<>>
    BY <2>1
  <2>3. /\ FifoNotReused' /\ MasksCover' /\ NoAborts'
        /\ Len(tef') = Len(tef) - 1 /\ Len(tef) \in Nat
    BY <1>1, <1>2, <2>2, MaskReadTef DEF IrqTefCount
  <2>4. DownIsQuiet'
    BY <1>2 DEF IrqTefCount, MaskInv, DownIsQuiet, InIrq
  <2>5. TefExpected'
    <3>1. CASE irq.left > 1
      <4>1. irq'.pc = "tefcount" /\ irq'.left = irq.left - 1
        BY <1>2, <3>1 DEF IrqTefCount, TypeOK, IrqTypeOK, InIrq
      <4>2. irq'.left \in 1 .. Len(tef')
        BY <2>1, <2>3, <3>1, <4>1
      <4> QED
        BY <1>2, <2>1, <4>1, <4>2 DEF IrqTefCount, TefExpected, InIrq
    <3>2. CASE ~(irq.left > 1)
      BY <1>2, <2>1, <3>2 DEF IrqTefCount, Goto, IrqOff, TefExpected, InIrq
    <3> QED
      BY <3>1, <3>2
  <2> QED
    BY <2>3, <2>4, <2>5 DEF MaskInv
<1>3. CASE IrqTefConservative
  <2>1. inIrq \subseteq pending
    BY <1>3 DEF IrqTefConservative, MaskInv, TefExpected, InIrq
  <2>2. DownIsQuiet'
    BY <1>3 DEF IrqTefConservative, MaskInv, DownIsQuiet, InIrq
  <2>3. irq'.pc \in {"sort", "tefsta"}
    BY <1>3 DEF IrqTefConservative, Goto, IrqOff, InIrq
  <2>4. TefExpected'
    BY <1>3, <2>1, <2>3 DEF IrqTefConservative, TefExpected, InIrq
  <2>5. CASE tef = <<>>
    <3>1. UNCHANGED <<spi, txreq, tef, tefSkew, txatif, submitted, pending,
                      processed, link, status>>
      BY <1>3, <2>5 DEF IrqTefConservative
    <3>2. FifoNotReused' /\ MasksCover' /\ NoAborts'
      BY <3>1, MaskFramePlaces DEF MaskInv, NoAborts
    <3> QED
      BY <2>2, <2>4, <3>2 DEF MaskInv
  <2>6. CASE tef # <<>>
    <3>1. FifoNotReused' /\ MasksCover' /\ NoAborts'
      BY <1>3, <2>6, MaskReadTef DEF IrqTefConservative
    <3> QED
      BY <2>2, <2>4, <3>1 DEF MaskInv
  <2> QED
    BY <2>5, <2>6
<1> QED
  BY <1>2, <1>3

(* When every FIFO is processed, no frame is anywhere.                     *)
LEMMA AllProcessedIsIdle ==
  ASSUME TypeOK, MaskInv, AllProcessed
  PROVE  NothingInFlight
<1>1. SpiFifos \subseteq TxFifos /\ TefFifos \subseteq TxFifos /\ txreq \subseteq TxFifos
  <2>1. spi \in Seq([fifo : TxFifos, frame : Frames]) /\ tef \in Seq([fifo : TxFifos, ts : Nat])
    BY DEF TypeOK, ControllerTypeOK, TefTypeOK
  <2>2. /\ \A i \in 1 .. Len(spi) : spi[i] \in [fifo : TxFifos, frame : Frames]
        /\ \A i \in 1 .. Len(tef) : tef[i] \in [fifo : TxFifos, ts : Nat]
    BY <2>1, ElementOfSeq
  <2> QED
    BY <2>2 DEF SpiFifos, TefFifos, FifosOf, TypeOK, ControllerTypeOK
<1>2. SpiFifos = {} /\ txreq = {} /\ TefFifos = {}
  BY <1>1 DEF MaskInv, MasksCover, AllProcessed
<1>3. spi = <<>> /\ tef = <<>>
  <2>1. ASSUME NEW S, NEW q \in Seq(S), FifosOf(q) = {} PROVE q = <<>>
    <3> SUFFICES ASSUME q # <<>> PROVE FALSE
      OBVIOUS
    <3>1. 1 \in 1 .. Len(q)
      BY EmptySeq
    <3> QED
      BY <2>1, <3>1 DEF FifosOf
  <2>2. spi \in Seq([fifo : TxFifos, frame : Frames]) /\ tef \in Seq([fifo : TxFifos, ts : Nat])
    BY DEF TypeOK, ControllerTypeOK, TefTypeOK
  <2> QED
    BY <1>2, <2>1, <2>2, Zenon DEF SpiFifos, TefFifos
<1> QED
  BY <1>2, <1>3 DEF NothingInFlight, MaskInv, NoAborts

(* The queue is woken only then, and the masks are cleared with it.        *)
LEMMA MaskIrqState ==
  ASSUME TypeOK, MaskInv, IrqState
  PROVE  /\ MaskInv'
         /\ submitted # {} /\ submitted' = {} => NothingInFlight
<1>1. /\ UNCHANGED <<spi, txreq, tef, tefSkew, txatif, link, inIrq, status>>
      /\ irq.pc = "deliver"
      /\ irq'.pc = "loop" \/ (irq'.pc = "sleep" /\ UNCHANGED pending)
  <2> HIDE DEF NewState, AllProcessed
  <2> QED
    BY DEF IrqState, InIrq, Goto, IrqOff, controller
<1>2. NoAborts' /\ TefExpected'
  BY <1>1 DEF MaskInv, NoAborts, TefExpected, InIrq
<1>3. link # "down"
  BY DEF IrqState, MaskInv, DownIsQuiet, InIrq
<1>4. DownIsQuiet'
  BY <1>1, <1>3 DEF DownIsQuiet
<1>5. CASE UNCHANGED <<pending, submitted, processed>>
  <2>1. FifoNotReused' /\ MasksCover'
    BY <1>1, <1>5, MaskFramePlaces
  <2> QED
    BY <1>2, <1>4, <1>5, <2>1 DEF MaskInv
<1>6. CASE AllProcessed /\ pending' = {} /\ submitted' = {} /\ processed' = {}
  <2>1. NothingInFlight
    BY <1>6, AllProcessedIsIdle
  <2>2. SpiFifos' = {} /\ TefFifos' = {} /\ txreq' = {}
    BY <1>1, <2>1, FifosOfEmpty DEF SpiFifos, TefFifos, NothingInFlight
  <2>3. FifoNotReused'
    BY <1>1, <2>2 DEF MaskInv, FifoNotReused
  <2>4. MasksCover'
    BY <1>6, <2>2 DEF MasksCover
  <2> QED
    BY <1>2, <1>4, <2>1, <2>3, <2>4 DEF MaskInv
<1>7. \/ UNCHANGED <<pending, submitted, processed>>
      \/ AllProcessed /\ pending' = {} /\ submitted' = {} /\ processed' = {}
  <2> HIDE DEF NewState, AllProcessed
  <2> QED
    BY DEF IrqState
<1> QED
  BY <1>5, <1>6, <1>7

(* ndo_open resets the controller's side of a reservation but not the      *)
(* driver's; ndo_stop clears one mask of the driver's and nothing of the   *)
(* controller's.                                                           *)
LEMMA MaskOpenStop ==
  ASSUME TypeOK, MaskInv, Open \/ OpenFails \/ StopEnd
  PROVE  MaskInv'
<1>1. CASE StopEnd
  <2>1. /\ UNCHANGED <<spi, txreq, tef, tefSkew, txatif, submitted, processed,
                       irq, inIrq, status>>
        /\ pending' = {} /\ irq.pc = "off" /\ spi = <<>>
    BY <1>1 DEF StopEnd, InIrq
  <2>2. SpiFifos' = SpiFifos /\ TefFifos' = TefFifos
    BY <2>1 DEF SpiFifos, TefFifos
  <2>3. FifoNotReused' /\ MasksCover'
    BY <2>1, <2>2 DEF MaskInv, FifoNotReused, MasksCover
  <2>4. NoAborts' /\ DownIsQuiet' /\ TefExpected'
    BY <2>1 DEF MaskInv, NoAborts, DownIsQuiet, TefExpected, InIrq
  <2> QED
    BY <2>3, <2>4 DEF MaskInv
<1>2. CASE Open \/ OpenFails
  <2>1. /\ UNCHANGED <<spi, submitted, pending, processed, irq, inIrq, status>>
        /\ \/ UNCHANGED <<txreq, tef, tefSkew, txatif>>
           \/ txreq' = {} /\ tef' = <<>> /\ tefSkew' = 0 /\ txatif' = {}
    BY <1>2 DEF Open, OpenFails
  <2>2. spi = <<>> /\ pending = {} /\ irq.pc = "off"
    BY <1>2 DEF Open, OpenFails, MaskInv, DownIsQuiet, InIrq
  <2>3. SpiFifos' = SpiFifos /\ FifosDistinct(spi')
    BY <2>1 DEF SpiFifos, MaskInv, FifoNotReused
  <2>4. /\ TefFifos' \subseteq TefFifos /\ txreq' \subseteq txreq /\ txatif' = {}
        /\ tefSkew' = 0 /\ FifosDistinct(tef')
    <3>1. CASE UNCHANGED <<txreq, tef, tefSkew, txatif>>
      BY <3>1 DEF TefFifos, MaskInv, NoAborts, FifoNotReused
    <3>2. CASE txreq' = {} /\ tef' = <<>> /\ tefSkew' = 0 /\ txatif' = {}
      BY <3>2, FifosOfEmpty DEF TefFifos
    <3> QED
      BY <2>1, <3>1, <3>2
  <2>5. FifoNotReused'
    BY <2>1, <2>3, <2>4 DEF MaskInv, FifoNotReused
  <2>6. MasksCover'
    BY <2>1, <2>2, <2>3, <2>4 DEF MaskInv, MasksCover
  <2>7. NoAborts' /\ DownIsQuiet' /\ TefExpected'
    BY <2>1, <2>2, <2>4 DEF MaskInv, NoAborts, DownIsQuiet, TefExpected, InIrq
  <2> QED
    BY <2>5, <2>6, <2>7 DEF MaskInv
<1> QED
  BY <1>1, <1>2

(* The steps that touch nothing MaskInv speaks of, but perhaps the         *)
(* program counter.                                                        *)
LEMMA MaskOther ==
  ASSUME TypeOK, MaskInv,
         XmitBusOff \/ XmitPutEcho \/ BusErrorState \/ BusReceive \/ IrqSort
           \/ IrqDeliver \/ IrqSleep \/ StopBegin
  PROVE  MaskInv' /\ UNCHANGED submitted
<1>1. CASE XmitBusOff \/ XmitPutEcho \/ BusErrorState \/ BusReceive \/ IrqDeliver
  <2>1. UNCHANGED <<spi, txreq, tef, tefSkew, txatif, submitted, pending, link,
                    irq, inIrq, status>>
    BY <1>1 DEF XmitBusOff, XmitPutEcho, BusErrorState, BusReceive, IrqDeliver,
                controller, driver
  <2>2. UNCHANGED processed
    BY <1>1 DEF XmitBusOff, XmitPutEcho, BusErrorState, BusReceive, IrqDeliver,
                controller, driver
  <2> QED
    BY <2>1, <2>2, MaskFrame
<1>2. CASE IrqSort \/ IrqSleep \/ StopBegin
  <2>1. /\ UNCHANGED <<spi, txreq, tef, tefSkew, txatif, submitted, pending,
                       processed, inIrq, status>>
        /\ link # "down" /\ (link' = link \/ link' = "closing")
        /\ \/ irq' = irq
           \/ irq.pc = "sort" /\ irq'.pc = "deliver"
           \/ irq'.pc = "loop"
    BY <1>2 DEF IrqSort, IrqSleep, StopBegin, controller, MaskInv, DownIsQuiet, InIrq,
                Goto, IrqOff
  <2>2. SpiFifos' = SpiFifos /\ TefFifos' = TefFifos
    BY <2>1 DEF SpiFifos, TefFifos
  <2>3. FifoNotReused' /\ MasksCover' /\ NoAborts'
    BY <2>1, <2>2 DEF MaskInv, FifoNotReused, MasksCover, NoAborts
  <2>4. DownIsQuiet'
    BY <2>1 DEF DownIsQuiet
  <2>5. TefExpected'
    BY <2>1, <2>2 DEF MaskInv, TefExpected, InIrq
  <2> QED
    BY <2>1, <2>3, <2>4, <2>5 DEF MaskInv
<1> QED
  BY <1>1, <1>2

(* Every step keeps the masks honest, and clears them only when nothing is *)
(* in flight.                                                              *)
LEMMA MaskNext ==
  ASSUME TypeOK, MaskInv, [Next]_vars, ~OneShot, MaxLostFaults = 0
  PROVE  /\ MaskInv'
         /\ submitted # {} /\ submitted' = {} => NothingInFlight
<1>1. CASE UNCHANGED vars
  BY <1>1, MaskFrame DEF vars, driver, controller
<1>2. CASE Xmit
  BY <1>2, MaskXmit DEF Xmit
<1>3. CASE SpiComplete
  BY <1>3, MaskSpi DEF SpiComplete, Requested
<1>4. CASE BusSend
  BY <1>4, MaskBus DEF BusSend, driver
<1>5. CASE \/ IrqStart \/ IrqLoop \/ IrqReadFlags \/ IrqReadRequests
           \/ IrqClear \/ IrqSpiFault
  <2>1. UNCHANGED submitted
    BY <1>5 DEF IrqStart, IrqLoop, IrqReadFlags, IrqReadRequests, IrqClear, IrqSpiFault
  <2> QED
    BY <1>5, <2>1, MaskIrqStatus
<1>6. CASE IrqTef
  BY <1>6, MaskIrqTef DEF IrqTef
<1>7. CASE IrqTefCount \/ IrqTefConservative
  <2>1. UNCHANGED submitted
    BY <1>7 DEF IrqTefCount, IrqTefConservative
  <2> QED
    BY <1>7, <2>1, MaskIrqRead
<1>8. CASE IrqState
  BY <1>8, MaskIrqState
<1>9. CASE Open \/ OpenFails \/ StopEnd
  <2>1. UNCHANGED submitted
    BY <1>9 DEF Open, OpenFails, StopEnd
  <2> QED
    BY <1>9, <2>1, MaskOpenStop
<1>10. CASE \/ XmitBusOff \/ XmitPutEcho \/ BusErrorState \/ BusReceive
            \/ IrqSort \/ IrqDeliver \/ IrqSleep \/ StopBegin
  BY <1>10, MaskOther
<1>11. ~BusAbort /\ ~IrqAbort
  BY DEF BusAbort, IrqAbort, MaskInv, NoAborts
<1> QED
  BY <1>1, <1>2, <1>3, <1>4, <1>5, <1>6, <1>7, <1>8, <1>9, <1>10, <1>11
  DEF Next, IrqThread

(* The masks, the message queue, the transmit requests and the TEF agree   *)
(* through every interleaving of start_xmit, the completion callback, the  *)
(* bus, the interrupt thread, reported SPI faults, bus-off and reopening.  *)
THEOREM MasksCorrect ==
  ASSUME ~OneShot, MaxLostFaults = 0
  PROVE  Spec => []MaskInv
<1>1. Init => MaskInv
  BY MaskInit
<1>2. TypeOK /\ MaskInv /\ [Next]_vars => MaskInv'
  BY MaskNext
<1> QED
  BY <1>1, <1>2, TypeCorrect, PTL DEF Spec

(* start_xmit never writes a frame into a FIFO that still holds one.       *)
THEOREM FifosNotReused ==
  ASSUME ~OneShot, MaxLostFaults = 0
  PROVE  Spec => []FifoNotReused
<1>1. MaskInv => FifoNotReused
  BY DEF MaskInv
<1> QED
  BY <1>1, MasksCorrect, PTL

(* mcp25xxfd_wake_queue: "nothing should be left pending /in flight now".  *)
THEOREM WakesWhenIdle ==
  ASSUME ~OneShot, MaxLostFaults = 0
  PROVE  Spec => WakeMeansIdle
<1>1. TypeOK /\ MaskInv /\ [Next]_vars
        => [submitted # {} /\ submitted' = {} => NothingInFlight]_vars
  BY MaskNext
<1> QED
  BY <1>1, TypeCorrect, MasksCorrect, PTL DEF Spec, WakeMeansIdle

-----------------------------------------------------------------------------
(* The order on the wire.                                                  *)

Order == OrderInv /\ WireInOrder

(* Nothing is on the wire when the driver is loaded.                       *)
LEMMA OrderInit == Init => Order
<1> SUFFICES ASSUME Init PROVE Order
  OBVIOUS
<1>1. wire = <<>> /\ spi = <<>> /\ txreq = {}
  BY DEF Init
<1>2. Len(wire) = 0 /\ Len(spi) = 0
  BY <1>1
<1> QED
  BY <1>1, <1>2 DEF Order, OrderInv, WireInOrder

(* A step that sends and queues nothing keeps the order, even if it gives  *)
(* up requested frames.                                                    *)
LEMMA OrderFrame ==
  ASSUME Order, UNCHANGED <<wire, spi, next, fifoObj>>, txreq' \subseteq txreq
  PROVE  Order'
<1>1. WireInOrder'
  BY DEF Order, WireInOrder
<1>2. OrderInv'
  BY DEF Order, OrderInv
<1> QED
  BY <1>1, <1>2 DEF Order

(* What TypeOK says of the variables the order is about.                   *)
LEMMA OrderTypes ==
  ASSUME TypeOK
  PROVE  /\ next \in Nat /\ spi \in Seq([fifo : TxFifos, frame : Frames])
         /\ wire \in Seq(0 .. MaxFrames) /\ fifoObj \in [TxFifos -> 0 .. MaxFrames]
         /\ txreq \subseteq TxFifos /\ Len(spi) \in Nat /\ Len(wire) \in Nat
         /\ \A i \in 1 .. Len(spi) :
              /\ spi[i].fifo \in Nat /\ spi[i].fifo \in TxFifos
              /\ spi[i].frame \in Nat
         /\ \A i \in 1 .. Len(wire) : wire[i] \in Nat
         /\ \A f \in TxFifos : f \in Nat /\ fifoObj[f] \in Nat
<1>1. /\ next \in 1 .. MaxFrames + 1 /\ spi \in Seq([fifo : TxFifos, frame : Frames])
      /\ wire \in Seq(0 .. MaxFrames) /\ fifoObj \in [TxFifos -> 0 .. MaxFrames]
      /\ txreq \subseteq TxFifos
  BY DEF TypeOK, NetTypeOK, ControllerTypeOK, HistoryTypeOK
<1>2. Len(spi) \in Nat /\ Len(wire) \in Nat
  BY <1>1, LenProperties
<1>3. TxFifos \subseteq Nat /\ Frames \subseteq Nat /\ next \in Nat
  BY <1>1, TxFifosFinite DEF Frames
<1>4. \A i \in 1 .. Len(spi) : spi[i] \in [fifo : TxFifos, frame : Frames]
  BY <1>1, ElementOfSeq
<1>5. \A i \in 1 .. Len(wire) : wire[i] \in 0 .. MaxFrames
  BY <1>1, ElementOfSeq
<1>6. \A f \in TxFifos : fifoObj[f] \in 0 .. MaxFrames
  BY <1>1
<1>7. \A i \in 1 .. Len(spi) :
        /\ spi[i].fifo \in Nat /\ spi[i].fifo \in TxFifos
        /\ spi[i].frame \in Nat
  BY <1>3, <1>4
<1>8. 0 .. MaxFrames \subseteq Nat
  OBVIOUS
<1> HIDE DEF TxFifos
<1> QED
  BY <1>1, <1>2, <1>3, <1>5, <1>6, <1>7, <1>8, Zenon

(* A new message carries the newest frame to the highest FIFO.             *)
LEMMA OrderXmit ==
  ASSUME TypeOK, MaskInv, Order, Xmit
  PROVE  Order'
<1> DEFINE F == NextFifo
           msg == [fifo |-> F, frame |-> next]
<1>1. F \in TxFifos /\ \A f \in Taken : f < F
  BY NextFifoIsFree DEF Xmit, Taken, TypeOK, MasksTypeOK
<1>2. /\ UNCHANGED <<wire, txreq, fifoObj>>
      /\ \/ spi' = spi /\ next' = next
         \/ spi' = Append(spi, msg) /\ next' = next + 1
  BY DEF Xmit, controller
<1>3. \A f \in txreq \cup SpiFifos : f < F
  BY <1>1 DEF MaskInv, MasksCover, Taken
<1> HIDE DEF F
<1>4. CASE spi' = spi /\ next' = next
  BY <1>2, <1>4, OrderFrame
<1>5. CASE spi' = Append(spi, msg) /\ next' = next + 1
  <2>1. /\ Len(spi') = Len(spi) + 1
        /\ \A k \in 1 .. Len(spi) : spi'[k] = spi[k]
        /\ spi'[Len(spi) + 1].fifo = F /\ spi'[Len(spi) + 1].frame = next
    BY <1>5, OrderTypes, AppendProperties
  <2>2. \A k \in 1 .. Len(spi) : spi[k].fifo < F
    BY <1>3 DEF SpiFifos, FifosOf
  <2>3. \A k \in 1 .. Len(spi') : k \in 1 .. Len(spi) \/ k = Len(spi) + 1
    BY <2>1, OrderTypes
  <2>4. ASSUME NEW i \in 1 .. Len(wire)
        PROVE  /\ wire'[i] < next'
               /\ \A f \in txreq' : wire'[i] < fifoObj'[f]
               /\ \A k \in 1 .. Len(spi') : wire'[i] < spi'[k].frame
    <3>1. /\ wire[i] < next
          /\ \A f \in txreq : wire[i] < fifoObj[f]
          /\ \A k \in 1 .. Len(spi) : wire[i] < spi[k].frame
      BY <1>2, <2>4 DEF Order, OrderInv
    <3>2. wire'[i] = wire[i] /\ wire[i] \in Nat /\ next \in Nat
      BY <1>2, <2>4, OrderTypes
    <3>3. \A k \in 1 .. Len(spi') : wire[i] < spi'[k].frame
      BY <2>1, <2>3, <3>1
    <3> QED BY <1>2, <1>5, <3>1, <3>2, <3>3
  <2>5. ASSUME NEW f \in txreq
        PROVE  /\ fifoObj'[f] < next'
               /\ \A g \in txreq' : f < g => fifoObj'[f] < fifoObj'[g]
               /\ \A k \in 1 .. Len(spi') : f < spi'[k].fifo /\ fifoObj'[f] < spi'[k].frame
    BY <1>2, <1>3, <1>5, <2>1, <2>3, <2>5, OrderTypes DEF Order, OrderInv
  <2>6. ASSUME NEW i \in 1 .. Len(spi')
        PROVE  /\ spi'[i].frame < next'
               /\ \A k \in 1 .. Len(spi') :
                    i < k => spi'[i].fifo < spi'[k].fifo /\ spi'[i].frame < spi'[k].frame
    <3>1. spi'[i].frame < next'
      <4>1. CASE i \in 1 .. Len(spi)
        <5>1. spi[i].frame < next /\ spi[i].frame \in Nat /\ next \in Nat
          BY <4>1, OrderTypes DEF Order, OrderInv
        <5> QED
          BY <1>5, <2>1, <4>1, <5>1
      <4>2. CASE i = Len(spi) + 1
        BY <1>5, <2>1, <4>2, OrderTypes
      <4> QED
        BY <2>3, <4>1, <4>2
    <3>2. ASSUME NEW k \in 1 .. Len(spi'), i < k
          PROVE  spi'[i].fifo < spi'[k].fifo /\ spi'[i].frame < spi'[k].frame
      <4>1. i \in 1 .. Len(spi)
        BY <2>1, <3>2, OrderTypes
      <4>2. CASE k \in 1 .. Len(spi)
        BY <2>1, <3>2, <4>1, <4>2 DEF Order, OrderInv
      <4>3. CASE k = Len(spi) + 1
        BY <2>1, <2>2, <4>1, <4>3 DEF Order, OrderInv
      <4> QED
        BY <2>3, <4>2, <4>3
    <3> QED
      BY <3>1, <3>2
  <2>7. OrderInv'
    BY <1>2, <2>4, <2>5, <2>6 DEF OrderInv
  <2>8. WireInOrder'
    BY <1>2 DEF Order, WireInOrder
  <2> QED
    BY <2>7, <2>8 DEF Order
<1> QED
  BY <1>2, <1>4, <1>5

(* The completed message was the oldest one: its FIFO is the highest       *)
(* requested one.                                                          *)
LEMMA OrderSpi ==
  ASSUME TypeOK, MaskInv, Order, SpiComplete, MaxLostFaults = 0
  PROVE  Order'
<1> DEFINE F == spi[1].fifo
           M == spi[1].frame
<1>1. /\ Head(spi) = spi[1] /\ Len(spi) \in Nat \ {0} /\ spi' = Tail(spi)
      /\ Len(spi') = Len(spi) - 1
      /\ \A k \in 1 .. Len(spi') : k + 1 \in 1 .. Len(spi) /\ spi'[k] = spi[k + 1]
  <2>1. spi \in Seq([fifo : TxFifos, frame : Frames]) /\ spi # <<>> /\ spi' = Tail(spi)
    BY OrderTypes DEF SpiComplete, Requested
  <2>2. /\ Len(spi) \in Nat \ {0} /\ Len(spi') = Len(spi) - 1
        /\ \A k \in 1 .. Len(spi') : spi'[k] = spi[k + 1]
    BY <2>1, HeadTailProperties, EmptySeq
  <2> QED
    BY <2>1, <2>2
<1>2. ~Spend("lost", MaxLostFaults)
  BY DEF Spend, TypeOK, HistoryTypeOK
<1>3. /\ fifoObj' = [fifoObj EXCEPT ![F] = M] /\ txreq' = txreq \cup {F}
      /\ UNCHANGED <<wire, next>>
  BY <1>1, <1>2 DEF SpiComplete, Requested
<1>4. 1 \in 1 .. Len(spi) /\ F \in TxFifos /\ F \in Nat /\ M \in Nat
  BY <1>1, OrderTypes
<1>5. \A f \in txreq : f < F /\ fifoObj[f] < M /\ f # F
  BY <1>4, OrderTypes DEF Order, OrderInv
<1>6. M < next
  BY <1>4 DEF Order, OrderInv
<1>7. \A k \in 1 .. Len(spi') : F < spi'[k].fifo /\ M < spi'[k].frame
  BY <1>1, <1>4 DEF Order, OrderInv
<1> HIDE DEF F, M
<1>8. /\ fifoObj'[F] = M
      /\ \A f \in txreq : fifoObj'[f] = fifoObj[f]
  BY <1>3, <1>4, <1>5, OrderTypes
<1>9. \A i \in 1 .. Len(wire) : wire[i] < M
  <2>1. \A i \in 1 .. Len(wire) : \A k \in 1 .. Len(spi) : wire[i] < spi[k].frame
    BY DEF Order, OrderInv
  <2> QED
    BY <1>4, <2>1 DEF M
<1>10. ASSUME NEW i \in 1 .. Len(wire)
       PROVE  /\ wire[i] < next
              /\ \A f \in txreq' : wire[i] < fifoObj'[f]
              /\ \A k \in 1 .. Len(spi') : wire[i] < spi'[k].frame
  BY <1>1, <1>3, <1>8, <1>9, <1>10 DEF Order, OrderInv
<1>11. ASSUME NEW f \in txreq'
       PROVE  /\ fifoObj'[f] < next
              /\ \A g \in txreq' : f < g => fifoObj'[f] < fifoObj'[g]
              /\ \A k \in 1 .. Len(spi') : f < spi'[k].fifo /\ fifoObj'[f] < spi'[k].frame
  <2>1. CASE f = F
    <3>1. ASSUME NEW g \in txreq' PROVE ~(F < g)
      <4>1. g = F \/ (g \in txreq /\ g < F /\ g \in Nat)
        BY <1>3, <1>5, OrderTypes
      <4> QED
        BY <1>4, <4>1
    <3> QED
      BY <1>6, <1>7, <1>8, <2>1, <3>1
  <2>2. CASE f \in txreq
    <3>1. \A g \in txreq' : f < g => fifoObj'[f] < fifoObj'[g]
      BY <1>3, <1>5, <1>8, <2>2 DEF Order, OrderInv
    <3>2. \A k \in 1 .. Len(spi') : f < spi'[k].fifo /\ fifoObj'[f] < spi'[k].frame
      BY <1>1, <1>8, <2>2 DEF Order, OrderInv
    <3> QED
      BY <1>8, <2>2, <3>1, <3>2 DEF Order, OrderInv
  <2> QED
    BY <1>3, <2>1, <2>2
<1>12. ASSUME NEW i \in 1 .. Len(spi')
       PROVE  /\ spi'[i].frame < next
              /\ \A k \in 1 .. Len(spi') :
                   i < k => spi'[i].fifo < spi'[k].fifo /\ spi'[i].frame < spi'[k].frame
  <2>1. i + 1 \in 1 .. Len(spi) /\ spi'[i] = spi[i + 1]
    BY <1>1
  <2>2. ASSUME NEW k \in 1 .. Len(spi'), i < k
        PROVE  spi'[i].fifo < spi'[k].fifo /\ spi'[i].frame < spi'[k].frame
    <3>1. k + 1 \in 1 .. Len(spi) /\ spi'[k] = spi[k + 1] /\ i + 1 < k + 1
      BY <1>1, <2>2
    <3> QED
      BY <2>1, <3>1 DEF Order, OrderInv
  <2>3. spi'[i].frame < next
    BY <2>1 DEF Order, OrderInv
  <2> QED
    BY <2>2, <2>3
<1>13. OrderInv'
  BY <1>3, <1>10, <1>11, <1>12 DEF OrderInv
<1>14. WireInOrder'
  BY <1>3 DEF Order, WireInOrder
<1> QED
  BY <1>13, <1>14 DEF Order

(* The bus sends the lowest requested FIFO, which holds the oldest frame.  *)
LEMMA OrderBus ==
  ASSUME TypeOK, Order, BusSend
  PROVE  Order'
<1> DEFINE F == Min(txreq)
           M == fifoObj[F]
<1>1. F \in txreq /\ F \in TxFifos /\ \A g \in txreq : F <= g
  BY MinOfFifos, OrderTypes DEF BusSend, MayArbitrate
<1>2. /\ wire' = Append(wire, M) /\ txreq' = txreq \ {F}
      /\ UNCHANGED <<spi, next, fifoObj>>
  BY DEF BusSend, FirstByPriority, driver
<1> HIDE DEF F
<1>3. M \in Nat /\ M \in 0 .. MaxFrames
  BY <1>1, OrderTypes
<1>4. /\ M < next
      /\ \A i \in 1 .. Len(wire) : wire[i] < M
      /\ \A k \in 1 .. Len(spi) : M < spi[k].frame
  BY <1>1 DEF Order, OrderInv
<1>5. \A g \in txreq' : M < fifoObj[g]
  <2> SUFFICES ASSUME NEW g \in txreq, g # F PROVE M < fifoObj[g]
    BY <1>2
  <2>1. F < g
    BY <1>1, OrderTypes
  <2> QED
    BY <1>1, <2>1 DEF Order, OrderInv
<1> HIDE DEF M
<1>6. /\ Len(wire') = Len(wire) + 1 /\ Len(wire) \in Nat
      /\ \A i \in 1 .. Len(wire) : wire'[i] = wire[i]
      /\ wire'[Len(wire) + 1] = M
  <2>1. wire \in Seq(0 .. MaxFrames)
    BY OrderTypes
  <2> QED
    BY <1>2, <1>3, <2>1, AppendProperties, LenProperties
<1>7. \A i \in 1 .. Len(wire') : i \in 1 .. Len(wire) \/ i = Len(wire) + 1
  BY <1>6
<1>8. WireInOrder'
  <2> SUFFICES ASSUME NEW i \in 1 .. Len(wire'), NEW j \in 1 .. Len(wire'), i < j
               PROVE  wire'[i] < wire'[j]
    BY DEF WireInOrder
  <2>1. i \in 1 .. Len(wire)
    BY <1>6
  <2>2. CASE j \in 1 .. Len(wire)
    BY <1>6, <2>1, <2>2 DEF Order, WireInOrder
  <2>3. CASE j = Len(wire) + 1
    BY <1>4, <1>6, <2>1, <2>3
  <2> QED
    BY <1>7, <2>2, <2>3
<1>9. ASSUME NEW i \in 1 .. Len(wire')
      PROVE  /\ wire'[i] < next'
             /\ \A f \in txreq' : wire'[i] < fifoObj'[f]
             /\ \A k \in 1 .. Len(spi') : wire'[i] < spi'[k].frame
  <2>1. CASE i \in 1 .. Len(wire)
    BY <1>2, <1>6, <2>1 DEF Order, OrderInv
  <2>2. CASE i = Len(wire) + 1
    BY <1>2, <1>4, <1>5, <1>6, <2>2
  <2> QED
    BY <1>7, <2>1, <2>2
<1>10. ASSUME NEW f \in txreq'
       PROVE  /\ fifoObj'[f] < next'
              /\ \A g \in txreq' : f < g => fifoObj'[f] < fifoObj'[g]
              /\ \A k \in 1 .. Len(spi') : f < spi'[k].fifo /\ fifoObj'[f] < spi'[k].frame
  BY <1>2, <1>10 DEF Order, OrderInv
<1>11. ASSUME NEW i \in 1 .. Len(spi')
       PROVE  /\ spi'[i].frame < next'
              /\ \A k \in 1 .. Len(spi') :
                   i < k => spi'[i].fifo < spi'[k].fifo /\ spi'[i].frame < spi'[k].frame
  BY <1>2, <1>11 DEF Order, OrderInv
<1>12. OrderInv'
  BY <1>9, <1>10, <1>11 DEF OrderInv
<1> QED
  BY <1>8, <1>12 DEF Order

(* Every step keeps the order.                                             *)
LEMMA OrderNext ==
  ASSUME TypeOK, MaskInv, Order, [Next]_vars, MaxLostFaults = 0
  PROVE  Order'
<1> DEFINE others ==
      \/ XmitBusOff \/ XmitPutEcho \/ BusAbort \/ BusErrorState \/ BusReceive
      \/ IrqThread \/ IrqSpiFault \/ Open \/ OpenFails \/ StopBegin \/ StopEnd
<1>1. CASE UNCHANGED vars
  BY <1>1, OrderFrame DEF vars, driver, controller, history
<1>2. CASE others
  <2>1. UNCHANGED <<wire, spi, next, fifoObj>>
    BY <1>2 DEF XmitBusOff, XmitPutEcho, BusAbort, BusErrorState, BusReceive,
         IrqThread, IrqStart, IrqLoop, IrqReadFlags, IrqReadRequests, IrqClear,
         IrqAbort, IrqTef, IrqTefCount, IrqTefConservative, IrqSort, IrqDeliver,
         IrqState, IrqSleep, IrqSpiFault, Open, OpenFails, StopBegin, StopEnd,
         driver, controller, history
  <2>2. txreq' \subseteq txreq
    BY <1>2 DEF XmitBusOff, XmitPutEcho, BusAbort, BusErrorState, BusReceive,
         IrqThread, IrqStart, IrqLoop, IrqReadFlags, IrqReadRequests, IrqClear,
         IrqAbort, IrqTef, IrqTefCount, IrqTefConservative, IrqSort, IrqDeliver,
         IrqState, IrqSleep, IrqSpiFault, Open, OpenFails, StopBegin, StopEnd,
         driver, controller, history
  <2> QED
    BY <2>1, <2>2, OrderFrame
<1> QED
  BY <1>1, <1>2, OrderXmit, OrderSpi, OrderBus DEF Next

(* Frames on the wire, requested FIFOs and queued messages stay in the     *)
(* order of start_xmit, in FIFO and in message order alike.                *)
THEOREM OrderCorrect ==
  ASSUME ~OneShot, MaxLostFaults = 0
  PROVE  Spec => []Order
<1>1. Init => Order
  BY OrderInit
<1>2. TypeOK /\ MaskInv /\ Order /\ [Next]_vars => Order'
  BY OrderNext
<1> QED
  BY <1>1, <1>2, TypeCorrect, MasksCorrect, PTL DEF Spec

(* OrderInv is the part of it that says why.                               *)
THEOREM FifosInOrder ==
  ASSUME ~OneShot, MaxLostFaults = 0
  PROVE  Spec => []OrderInv
<1>1. Order => OrderInv
  BY DEF Order
<1> QED
  BY <1>1, OrderCorrect, PTL

(* The frames on the wire are in the order in which start_xmit accepted    *)
(* them, and none is sent twice, for any number of FIFOs and frames.       *)
THEOREM WireOrdered ==
  ASSUME ~OneShot, MaxLostFaults = 0
  PROVE  Spec => []WireInOrder
<1>1. Order => WireInOrder
  BY DEF Order
<1> QED
  BY <1>1, OrderCorrect, PTL

-----------------------------------------------------------------------------
(* start_xmit always finds a FIFO.                                         *)

(* The last transmit FIFO is not reserved while the queue runs, and none   *)
(* is before the interface is first opened.                                *)
QueueInv ==
  /\ used.opens = 0 => link = "down" /\ submitted = {}
  /\ link = "up" /\ queue = "running"
       => TxFifoStart + NTxFifos - 1 \notin submitted

(* Only ndo_open counts as an open.                                        *)
LEMMA OpensCount ==
  ASSUME TypeOK, [Next]_vars
  PROVE  /\ used.opens \in Nat
         /\ ~Open => used'.opens = used.opens
         /\ Open => used.opens < MaxOpens /\ used'.opens = used.opens + 1
<1>1. used \in [states : 0 .. MaxStates, faults : 0 .. MaxSpiFaults,
               lost : 0 .. MaxLostFaults, opens : 0 .. MaxOpens]
  BY DEF TypeOK, HistoryTypeOK
<1>2. ASSUME Open
      PROVE  used.opens < MaxOpens /\ used'.opens = used.opens + 1
  BY <1>1, <1>2 DEF Open, Spend
<1>3. ASSUME \/ Spend("states", MaxStates) \/ Spend("faults", MaxSpiFaults)
             \/ Spend("lost", MaxLostFaults) \/ UNCHANGED used
      PROVE  used'.opens = used.opens
  BY <1>1, <1>3 DEF Spend
<1>4. ASSUME ~Open
      PROVE  \/ Spend("states", MaxStates) \/ Spend("faults", MaxSpiFaults)
             \/ Spend("lost", MaxLostFaults) \/ UNCHANGED used
  <2> HIDE DEF NextFifo, NewState, TefCount
  <2> QED
    BY <1>4 DEF Next, XmitBusOff, Xmit, XmitPutEcho, SpiComplete, BusSend, BusAbort,
         BusErrorState, BusReceive, IrqThread, IrqStart, IrqLoop, IrqReadFlags,
         IrqReadRequests, IrqClear, IrqAbort, IrqTef, IrqTefCount,
         IrqTefConservative, ReadTefEntry, IrqSort, IrqDeliver, IrqState, IrqSleep,
         IrqSpiFault,
         OpenFails, StopBegin, StopEnd, vars, driver, controller, history
<1> QED
  BY <1>1, <1>2, <1>3, <1>4

(* Every step keeps the last FIFO free while the queue runs: start_xmit    *)
(* stops the queue when it takes it, and the masks are cleared before the  *)
(* queue is woken.                                                         *)
LEMMA QueueNext ==
  ASSUME TypeOK, MaskInv, QueueInv, [Next]_vars, MaxOpens <= 1
  PROVE  QueueInv'
<1> HIDE DEF NextFifo, NewState, AllProcessed
<1>1. CASE Open
  <2>1. used.opens = 0 /\ used'.opens = 1
    BY <1>1, OpensCount
  <2>2. submitted = {} /\ submitted' = submitted
    BY <1>1, <2>1 DEF QueueInv, Open
  <2> QED
    BY <2>1, <2>2 DEF QueueInv
<1>2. CASE Xmit
  <2>1. /\ link = "up" /\ queue = "running" /\ UNCHANGED link
        /\ queue' = IF IsLastTxFifo(NextFifo) THEN "stopped" ELSE queue
        /\ submitted' = submitted \cup {NextFifo}
    BY <1>2 DEF Xmit, MayXmit
  <2>2. used'.opens # 0
    BY <1>2, <2>1, OpensCount DEF QueueInv, Open
  <2>3. queue' = "running" => NextFifo # TxFifoStart + NTxFifos - 1
    BY <2>1 DEF IsLastTxFifo
  <2> QED
    BY <2>1, <2>2, <2>3 DEF QueueInv
<1>3. CASE IrqState
  <2>1. UNCHANGED link /\ link # "down"
    BY <1>3 DEF IrqState, MaskInv, DownIsQuiet, InIrq
  <2>2. \/ submitted' = submitted /\ (queue' = queue \/ queue' = "stopped")
        \/ submitted' = {}
    BY <1>3 DEF IrqState
  <2>3. used'.opens # 0
    BY <1>3, <2>1, OpensCount DEF QueueInv, Open
  <2> QED
    BY <2>1, <2>2, <2>3 DEF QueueInv
<1>4. CASE ~Open /\ ~Xmit /\ ~IrqState
  <2>1. UNCHANGED submitted /\ (queue' = queue \/ queue' = "stopped")
    BY <1>4 DEF Next, XmitBusOff, XmitPutEcho, SpiComplete, BusSend, BusAbort,
         BusErrorState, BusReceive, IrqThread, IrqStart, IrqLoop, IrqReadFlags,
         IrqReadRequests, IrqClear, IrqAbort, IrqTef, IrqTefCount,
         IrqTefConservative, IrqSort, IrqDeliver, IrqSleep, IrqSpiFault,
         OpenFails, StopBegin, StopEnd, vars, driver, controller, history
  <2>3. CASE StopBegin \/ StopEnd
    BY <1>4, <2>1, <2>3, OpensCount DEF StopBegin, StopEnd, QueueInv
  <2>4. ASSUME ~StopBegin, ~StopEnd PROVE UNCHANGED link
    BY <1>4, <2>4 DEF Next, XmitBusOff, XmitPutEcho, SpiComplete, BusSend, BusAbort,
         BusErrorState, BusReceive, IrqThread, IrqStart, IrqLoop, IrqReadFlags,
         IrqReadRequests, IrqClear, IrqAbort, IrqTef, IrqTefCount,
         IrqTefConservative, IrqSort, IrqDeliver, IrqSleep, IrqSpiFault,
         OpenFails, vars, driver, controller, history
  <2>2. used'.opens = used.opens
    BY <1>4, OpensCount
  <2> QED
    BY <2>1, <2>2, <2>3, <2>4 DEF QueueInv
<1> QED
  BY <1>1, <1>2, <1>3, <1>4

(* QueueInv is an invariant of the first session.                          *)
THEOREM QueueCorrect ==
  ASSUME ~OneShot, MaxLostFaults = 0, MaxOpens <= 1
  PROVE  Spec => []QueueInv
<1>1. Init => QueueInv
  BY DEF Init, QueueInv
<1>2. TypeOK /\ MaskInv /\ QueueInv /\ [Next]_vars => QueueInv'
  BY QueueNext
<1> QED
  BY <1>1, <1>2, TypeCorrect, MasksCorrect, PTL DEF Spec

(* start_xmit never reaches its "this should not happen" branch until the  *)
(* interface is opened again, whatever the bus and failed transfers do.    *)
THEOREM FifoFound ==
  ASSUME ~OneShot, MaxLostFaults = 0, MaxOpens <= 1
  PROVE  Spec => []NextFifoValid
<1>1. TypeOK /\ MaskInv /\ QueueInv => NextFifoValid
  <2> SUFFICES ASSUME TypeOK, MaskInv, QueueInv, MayXmit
               PROVE  NextFifo \in TxFifos
    BY DEF NextFifoValid
  <2>1. Taken = submitted /\ Taken \subseteq TxFifos
    BY DEF Taken, TypeOK, MasksTypeOK, MaskInv, MasksCover
  <2>2. TxFifoStart + NTxFifos - 1 \notin Taken
    BY <2>1 DEF MayXmit, QueueInv
  <2>3. CASE Taken = {}
    BY <2>3, TxFifosFinite DEF NextFifo
  <2>4. CASE Taken # {}
    <3>1. Taken \subseteq Nat /\ TxFifoStart + NTxFifos - 1 \in Nat
      BY <2>1, TxFifosFinite
    <3>2. \A x \in Taken : x <= TxFifoStart + NTxFifos - 1
      BY <2>1 DEF TxFifos
    <3>3. Max(Taken) \in Taken
      BY <2>4, <3>1, <3>2, MaxOfNat
    <3>4. NextFifo = Max(Taken) + 1
      BY <2>4 DEF NextFifo
    <3>5. Max(Taken) \in TxFifos /\ Max(Taken) # TxFifoStart + NTxFifos - 1
      BY <2>1, <2>2, <3>3
    <3> QED
      BY <3>4, <3>5 DEF TxFifos
  <2> QED
    BY <2>3, <2>4
<1> QED
  BY <1>1, TypeCorrect, MasksCorrect, QueueCorrect, PTL
-----------------------------------------------------------------------------
(* What the stack is told.                                                 *)

QueuedFifos == FifosOf(queuedTef)
InFlight == SpiFifos \cup txreq \cup TefFifos \cup QueuedFifos

(* Before the interface is opened nothing was sent or told.                *)
UnusedInv ==
  used.opens = 0 => queuedTef = <<>> /\ wire = <<>> /\ confirmed = <<>>

(* While it is not up the stack has no frame in the driver.                *)
IdleInv == link # "up" => xmit = None /\ \A f \in TxFifos : echo[f] = None

(* start_xmit has yet to store the newest frame: it is in its FIFO, on its *)
(* way there or sent already, and its slot is free unless it is too late.  *)
OnController == txreq \cup TefFifos \cup QueuedFifos
XmitInv ==
  xmit # None =>
    /\ xmit \notin late => xmit \in InFlight /\ echo[xmit] = None
    /\ \A k \in 1 .. Len(spi) : spi[k].fifo = xmit => spi[k].frame = next - 1
    /\ xmit \in OnController => fifoObj[xmit] = next - 1

(* Every other echo slot holds the frame of its FIFO until the transmit    *)
(* event is delivered, and no longer.                                      *)
InDoubt == late \cup {xmit}
SlotInv ==
  link = "up" =>
    /\ \A k \in 1 .. Len(spi) :
         spi[k].fifo \notin InDoubt => echo[spi[k].fifo] = spi[k].frame
    /\ \A f \in OnController : f \notin InDoubt => echo[f] = fifoObj[f]
    /\ \A f \in TxFifos : echo[f] # None => f \in InFlight \cup late

(* The events the thread has read are those of processed FIFOs, and it     *)
(* holds none when it begins a pass.                                       *)
EventInv ==
  /\ link = "up" => QueuedFifos \subseteq processed /\ FifosDistinct(queuedTef)
  /\ irq.pc \in {"off", "loop", "flags", "requests", "clear", "aborts", "sleep"}
       => queuedTef = <<>>

EchoInv == UnusedInv /\ IdleInv /\ XmitInv /\ SlotInv /\ EventInv

(* A frame number is none of no frame.                                     *)
LEMMA NoneIsNoFifo == None \notin TxFifos /\ None \notin Frames
BY TxFifosFinite DEF None, Frames

(* No transfer fails, noticed or not.                                      *)
LEMMA NoFault ==
  ASSUME TypeOK, MaxSpiFaults = 0
  PROVE  ~Spend("faults", MaxSpiFaults) /\ ~OpenFails /\ ~IrqSpiFault
BY DEF Spend, TypeOK, HistoryTypeOK, OpenFails, IrqSpiFault

(* Every failed transfer is noticed.                                       *)
LEMMA NoLostFault ==
  ASSUME TypeOK, MaxLostFaults = 0
  PROVE  ~Spend("lost", MaxLostFaults)
BY DEF Spend, TypeOK, HistoryTypeOK

(* The places a frame can be in are disjoint sets of transmit FIFOs.       *)
LEMMA PlacesApart ==
  ASSUME TypeOK, MaskInv
  PROVE  /\ SpiFifos \subseteq TxFifos /\ txreq \subseteq TxFifos
         /\ TefFifos \subseteq TxFifos /\ submitted \subseteq TxFifos
         /\ SpiFifos \cup txreq \cup TefFifos \cup processed \subseteq submitted
         /\ SpiFifos \cap (txreq \cup TefFifos \cup processed) = {}
         /\ txreq \cap (TefFifos \cup processed) = {}
         /\ TefFifos \cap processed = {}
<1>1. submitted \subseteq TxFifos /\ txreq \subseteq TxFifos
  BY DEF TypeOK, MasksTypeOK, ControllerTypeOK
<1> QED
  BY <1>1 DEF MaskInv, MasksCover, FifoNotReused

(* The FIFO of a queued message, and what the oldest one is.               *)
LEMMA SpiMembers ==
  ASSUME TypeOK
  PROVE  /\ \A k \in 1 .. Len(spi) :
              spi[k].fifo \in SpiFifos /\ spi[k].frame \in Frames
         /\ spi # <<>> => Head(spi) = spi[1] /\ 1 \in 1 .. Len(spi)
<1>1. spi \in Seq([fifo : TxFifos, frame : Frames])
  BY DEF TypeOK, ControllerTypeOK
<1>2. \A k \in 1 .. Len(spi) : spi[k] \in [fifo : TxFifos, frame : Frames]
  BY <1>1, ElementOfSeq
<1>3. spi # <<>> => Head(spi) = spi[1] /\ 1 \in 1 .. Len(spi)
  BY <1>1, EmptySeq, HeadTailProperties, LenProperties
<1> QED
  BY <1>2, <1>3 DEF SpiFifos, FifosOf

(* Sorting changes no FIFO of the queue.                                   *)
LEMMA FifosOfRearranged ==
  ASSUME NEW q, NEW order \in Bijection(1 .. Len(q), 1 .. Len(q)),
         NEW r, r = [i \in 1 .. Len(q) |-> q[order[i]]], Len(r) = Len(q)
  PROVE  /\ FifosOf(r) = FifosOf(q)
         /\ FifosDistinct(q) => FifosDistinct(r)
<1> DEFINE D == 1 .. Len(q)
<1>1. /\ \A i \in D : order[i] \in D
      /\ \A i, j \in D : order[i] = order[j] => i = j
      /\ \A i \in D : \E j \in D : order[j] = i
  BY DEF Bijection, Injection, Surjection, IsInjective
<1>2. \A i \in D : r[i] = q[order[i]]
  OBVIOUS
<1>3. /\ FifosOf(q) = {q[i].fifo : i \in D} /\ FifosOf(r) = {r[i].fifo : i \in D}
  BY DEF FifosOf
<1>4. /\ FifosDistinct(q) <=> \A i, j \in D : q[i].fifo = q[j].fifo => i = j
      /\ FifosDistinct(r) <=> \A i, j \in D : r[i].fifo = r[j].fifo => i = j
  BY DEF FifosDistinct
<1> HIDE DEF D
<1>5. FifosOf(r) = FifosOf(q)
  <2>1. FifosOf(r) \subseteq FifosOf(q)
    BY <1>1, <1>2, <1>3
  <2>2. FifosOf(q) \subseteq FifosOf(r)
    <3> SUFFICES ASSUME NEW i \in D PROVE \E j \in D : q[i].fifo = r[j].fifo
      BY <1>3
    <3>1. PICK j \in D : order[j] = i
      BY <1>1
    <3> QED
      BY <1>2, <3>1
  <2> QED
    BY <2>1, <2>2
<1>6. FifosDistinct(q) => FifosDistinct(r)
  <2> SUFFICES ASSUME FifosDistinct(q), NEW i \in D, NEW j \in D, r[i].fifo = r[j].fifo
               PROVE  i = j
    BY <1>4
  <2>1. q[order[i]].fifo = q[order[j]].fifo /\ order[i] \in D /\ order[j] \in D
    BY <1>1, <1>2
  <2> QED
    BY <1>1, <1>4, <2>1
<1> QED
  BY <1>5, <1>6

(* What reading a transmit event does when no failure goes unnoticed.      *)
LEMMA ReadTefEffect ==
  ASSUME TypeOK, MaskInv, MaxLostFaults = 0, ReadTefEntry(0), tef # <<>>
  PROVE  /\ tef' = Tail(tef) /\ queuedTef' = Append(queuedTef, Head(tef))
         /\ processed' = processed \cup {Head(tef).fifo} /\ UNCHANGED used
         /\ Head(tef) \in [fifo : TxFifos, ts : Nat]
         /\ Head(tef).fifo \in TefFifos
         /\ TefFifos' = TefFifos \ {Head(tef).fifo}
<1> DEFINE Entries == [fifo : TxFifos, ts : Nat]
<1>1. tef \in Seq(Entries)
  BY DEF TypeOK, TefTypeOK
<1>2. Len(tef) \in Nat \ {0} /\ tef[0 + 1] = Head(tef)
  BY <1>1, EmptySeq
<1>3. ~Spend("lost", MaxLostFaults)
  BY NoLostFault
<1>4. (\E e \in {tef[0 + 1]} : QueueTefEntry(e)) /\ UNCHANGED used
  BY <1>2, <1>3 DEF ReadTefEntry
<1>5. tef' = Tail(tef)
  BY <1>3 DEF ReadTefEntry
<1>6. /\ Head(tef) \in Entries /\ Head(tef).fifo \in TefFifos
      /\ TefFifos' = TefFifos \ {Head(tef).fifo}
  <2> HIDE DEF Entries
  <2> QED
    BY <1>1, <1>5, FifosOfTail, TailType DEF TefFifos, MaskInv, FifoNotReused
<1> QED
  BY <1>2, <1>4, <1>5, <1>6 DEF QueueTefEntry

(* Nothing is sent or told before the first ndo_open.                      *)
LEMMA UnusedNext ==
  ASSUME TypeOK, MaskInv, QueueInv, UnusedInv, [Next]_vars
  PROVE  UnusedInv'
<1> SUFFICES ASSUME used'.opens = 0
             PROVE  UNCHANGED <<queuedTef, wire, confirmed>> /\ used.opens = 0
  BY DEF UnusedInv
<1>1. ~Open /\ used.opens = 0
  BY OpensCount
<1>2. link = "down" /\ submitted = {} /\ irq.pc = "off" /\ txreq = {}
  BY <1>1 DEF QueueInv, MaskInv, DownIsQuiet, InIrq, MasksCover
<1>3. ~BusSend
  BY <1>2 DEF BusSend, MayArbitrate
<1>4. ~IrqThread
  BY <1>2 DEF IrqThread, IrqStart, IrqLoop, IrqReadFlags, IrqReadRequests, IrqClear,
              IrqAbort, IrqTef, IrqTefCount, IrqTefConservative, IrqSort, IrqDeliver,
              IrqState, IrqSleep, InIrq
<1>5. UNCHANGED <<queuedTef, wire, confirmed>>
  <2> HIDE DEF NextFifo
  <2> QED
    BY <1>1, <1>3, <1>4
    DEF Next, XmitBusOff, Xmit, XmitPutEcho, SpiComplete, BusAbort, BusErrorState,
        BusReceive, IrqSpiFault, OpenFails, StopBegin, StopEnd, vars, driver,
        controller, history
<1> QED
  BY <1>1, <1>5

EchoStepVars ==
  <<link, queuedTef, xmit, echo, spi, txreq, fifoObj, next, tef, processed, late>>

(* A step that touches none of this keeps it, if the thread begins its     *)
(* pass with no event.                                                     *)
LEMMA EchoFrame ==
  ASSUME EchoInv, UnusedInv', UNCHANGED EchoStepVars,
         \/ irq'.pc = irq.pc
         \/ irq'.pc \notin {"off", "loop", "flags", "requests", "clear", "aborts", "sleep"}
         \/ queuedTef = <<>>
  PROVE  EchoInv'
<1>1. UNCHANGED <<SpiFifos, TefFifos, QueuedFifos, InFlight, OnController, InDoubt>>
  BY DEF EchoStepVars, SpiFifos, TefFifos, QueuedFifos, InFlight, OnController, InDoubt
<1>2. IdleInv' /\ XmitInv' /\ EventInv'
  BY <1>1 DEF EchoStepVars, EchoInv, IdleInv, XmitInv, EventInv
<1>3. SlotInv'
  BY <1>1 DEF EchoStepVars, EchoInv, SlotInv
<1> QED
  BY <1>2, <1>3 DEF EchoInv

(* start_xmit takes a FIFO whose echo slot is free.                        *)
LEMMA EchoXmit ==
  ASSUME TypeOK, MaskInv, EchoInv, UnusedInv', Xmit, MaxSpiFaults = 0
  PROVE  EchoInv'
<1> DEFINE F == NextFifo
           msg == [fifo |-> F, frame |-> next]
           Msgs == [fifo : TxFifos, frame : Frames]
<1>1. F \in TxFifos /\ \A f \in Taken : f < F
  BY NextFifoIsFree DEF Xmit, Taken, TypeOK, MasksTypeOK
<1>2. F \notin submitted
  <2>1. F \in Nat
    BY <1>1, TxFifosFinite
  <2> HIDE DEF F
  <2> QED
    BY <1>1, <2>1 DEF Taken
<1>3. /\ link = "up" /\ xmit = None /\ next \in Frames
      /\ spi' = Append(spi, msg) /\ xmit' = F /\ next' = next + 1
      /\ UNCHANGED <<link, queuedTef, echo, txreq, fifoObj, tef, processed, irq, late>>
  BY NoFault DEF Xmit, MayXmit, controller
<1> HIDE DEF F
<1>4. spi \in Seq(Msgs) /\ msg \in Msgs /\ msg.fifo = F /\ msg.frame = next
  BY <1>1, <1>3 DEF TypeOK, ControllerTypeOK
<1> HIDE DEF msg, Msgs
<1>5. /\ SpiFifos' = SpiFifos \cup {F} /\ UNCHANGED <<TefFifos, QueuedFifos>>
  BY <1>3, <1>4, FifosOfAppend DEF SpiFifos, TefFifos, QueuedFifos
<1>6. /\ Len(spi') = Len(spi) + 1 /\ Len(spi) \in Nat
      /\ \A k \in 1 .. Len(spi) : spi'[k] = spi[k]
      /\ spi'[Len(spi) + 1].fifo = F /\ spi'[Len(spi) + 1].frame = next
  BY <1>3, <1>4, AppendProperties, LenProperties
<1>7. \A k \in 1 .. Len(spi') : k \in 1 .. Len(spi) \/ k = Len(spi) + 1
  BY <1>6
<1>8. F \notin InFlight
  <2>1. F \notin SpiFifos \cup txreq \cup TefFifos \cup processed
    BY <1>2, PlacesApart
  <2>2. QueuedFifos \subseteq processed
    BY <1>3 DEF EchoInv, EventInv
  <2> QED
    BY <2>1, <2>2 DEF InFlight
<1>9. F \notin late => echo[F] = None
  BY <1>1, <1>3, <1>8 DEF EchoInv, SlotInv
<1>10. \A k \in 1 .. Len(spi) : spi[k].fifo \in SpiFifos /\ spi[k].fifo # F /\ spi[k].fifo # None
  BY <1>8, SpiMembers, PlacesApart, NoneIsNoFifo DEF InFlight
<1>11. next' - 1 = next
  BY <1>3 DEF Frames
<1>12. XmitInv'
  <2>1. \A k \in 1 .. Len(spi') : spi'[k].fifo = F => spi'[k].frame = next
    BY <1>6, <1>7, <1>10
  <2> QED
    BY <1>3, <1>5, <1>8, <1>9, <1>11, <2>1 DEF XmitInv, InFlight, OnController
<1>13. SlotInv'
  <2>1. ASSUME NEW k \in 1 .. Len(spi'), spi'[k].fifo \notin late \cup {F}
        PROVE  echo[spi'[k].fifo] = spi'[k].frame
    <3>1. k \in 1 .. Len(spi) /\ spi'[k] = spi[k]
      BY <1>6, <1>7, <2>1
    <3> QED
      BY <1>3, <1>10, <2>1, <3>1 DEF EchoInv, SlotInv, InDoubt
  <2>2. \A f \in OnController : f \notin late \cup {F} => echo[f] = fifoObj[f]
    <3>1. QueuedFifos \subseteq TxFifos
      BY <1>3, PlacesApart DEF EchoInv, EventInv
    <3>2. \A f \in OnController : f # xmit
      BY <1>3, <3>1, PlacesApart, NoneIsNoFifo DEF OnController
    <3> QED
      BY <1>3, <3>2 DEF EchoInv, SlotInv, InDoubt
  <2>3. \A f \in TxFifos : echo[f] # None => f \in InFlight' \cup late
    BY <1>3, <1>5 DEF EchoInv, SlotInv, InFlight
  <2>4. UNCHANGED OnController
    BY <1>3, <1>5 DEF OnController
  <2> QED
    BY <1>3, <1>5, <2>1, <2>2, <2>3, <2>4 DEF SlotInv, InDoubt
<1>14. IdleInv' /\ EventInv'
  BY <1>3, <1>5 DEF EchoInv, IdleInv, EventInv
<1> QED
  BY <1>12, <1>13, <1>14 DEF EchoInv

(* can_put_echo_skb stores the frame, unless its event came first.         *)
LEMMA EchoPut ==
  ASSUME TypeOK, MaskInv, EchoInv, UnusedInv', XmitPutEcho
  PROVE  EchoInv'
<1> DEFINE X == xmit
<1>1. /\ X # None /\ link = "up"
      /\ echo' = [echo EXCEPT ![X] = IF @ = None THEN next - 1 ELSE @] /\ xmit' = None
      /\ UNCHANGED <<link, queuedTef, next, spi, txreq, fifoObj, tef, processed, irq, late>>
  BY DEF XmitPutEcho, controller, history, EchoInv, IdleInv
<1>2. UNCHANGED <<SpiFifos, TefFifos, QueuedFifos, InFlight, OnController>>
  BY <1>1 DEF SpiFifos, TefFifos, QueuedFifos, InFlight, OnController
<1>3. X \in TxFifos
  BY <1>1 DEF TypeOK, NetTypeOK
<1>4. \A f \in TxFifos : f # X => echo'[f] = echo[f]
  BY <1>1, <1>3 DEF TypeOK, NetTypeOK
<1>5. X \notin late => X \in InFlight /\ echo'[X] = next - 1
  <2>1. X \notin late => X \in InFlight /\ echo[X] = None
    BY <1>1 DEF EchoInv, XmitInv
  <2> QED
    BY <1>1, <1>3, <2>1 DEF TypeOK, NetTypeOK
<1> HIDE DEF X
<1>6. SlotInv'
  <2>1. ASSUME NEW k \in 1 .. Len(spi), spi[k].fifo \notin late
        PROVE  echo'[spi[k].fifo] = spi[k].frame
    <3>1. spi[k].fifo \in TxFifos
      BY SpiMembers, PlacesApart
    <3>2. CASE spi[k].fifo = X
      BY <1>1, <1>5, <2>1, <3>2 DEF EchoInv, XmitInv, X
    <3>3. CASE spi[k].fifo # X
      BY <1>1, <1>4, <2>1, <3>1, <3>3 DEF EchoInv, SlotInv, InDoubt, X
    <3> QED
      BY <3>2, <3>3
  <2>2. ASSUME NEW f \in OnController, f \notin late
        PROVE  echo'[f] = fifoObj[f]
    <3>1. f \in TxFifos
      BY <1>1, PlacesApart DEF EchoInv, EventInv, OnController
    <3>2. CASE f = X
      BY <1>1, <1>5, <2>2, <3>2 DEF EchoInv, XmitInv, X
    <3>3. CASE f # X
      BY <1>1, <1>4, <2>2, <3>1, <3>3 DEF EchoInv, SlotInv, InDoubt, X
    <3> QED
      BY <3>2, <3>3
  <2>3. ASSUME NEW f \in TxFifos, echo'[f] # None
        PROVE  f \in InFlight \cup late
    <3>1. CASE f = X
      BY <1>5, <3>1
    <3>2. CASE f # X
      BY <1>1, <1>4, <2>3, <3>2 DEF EchoInv, SlotInv
    <3> QED
      BY <3>1, <3>2
  <2> QED
    BY <1>1, <1>2, <2>1, <2>2, <2>3 DEF SlotInv, InDoubt
<1>7. IdleInv' /\ XmitInv' /\ EventInv'
  BY <1>1, <1>2 DEF EchoInv, IdleInv, XmitInv, EventInv
<1> QED
  BY <1>6, <1>7 DEF EchoInv

(* The controller gets the frame of the oldest message.                    *)
LEMMA EchoSpi ==
  ASSUME TypeOK, MaskInv, EchoInv, UnusedInv', SpiComplete, MaxLostFaults = 0
  PROVE  EchoInv'
<1> DEFINE Msgs == [fifo : TxFifos, frame : Frames]
           F == Head(spi).fifo
           M == Head(spi).frame
<1>1. /\ fifoObj' = [fifoObj EXCEPT ![F] = M] /\ txreq' = txreq \cup {F}
      /\ spi # <<>> /\ spi' = Tail(spi)
      /\ UNCHANGED <<link, queuedTef, xmit, echo, next, tef, processed, irq, late>>
  BY NoLostFault DEF SpiComplete, Requested
<1>2. spi \in Seq(Msgs) /\ FifosDistinct(spi)
  BY DEF TypeOK, ControllerTypeOK, MaskInv, FifoNotReused
<1>3. /\ SpiFifos' = SpiFifos \ {F} /\ F \in SpiFifos
      /\ UNCHANGED <<TefFifos, QueuedFifos>>
  <2> HIDE DEF Msgs
  <2> QED
    BY <1>1, <1>2, FifosOfTail DEF SpiFifos, TefFifos, QueuedFifos
<1>4. /\ Len(spi) \in Nat \ {0} /\ Len(spi') = Len(spi) - 1
      /\ \A k \in 1 .. Len(spi') : spi'[k] = spi[k + 1]
      /\ F = spi[1].fifo /\ M = spi[1].frame
  <2> HIDE DEF Msgs
  <2> QED
    BY <1>1, <1>2, HeadTailProperties, EmptySeq
<1> HIDE DEF F, M
<1>5. \A k \in 1 .. Len(spi') :
        k + 1 \in 1 .. Len(spi) /\ spi'[k] = spi[k + 1] /\ spi'[k].fifo # F
  <2> SUFFICES ASSUME NEW k \in 1 .. Len(spi')
               PROVE k + 1 \in 1 .. Len(spi) /\ spi'[k] = spi[k + 1] /\ spi'[k].fifo # F
    OBVIOUS
  <2>1. k + 1 \in 1 .. Len(spi) /\ 1 \in 1 .. Len(spi) /\ k + 1 # 1
    BY <1>4
  <2>2. spi[k + 1].fifo # spi[1].fifo
    BY <1>2, <2>1 DEF FifosDistinct
  <2> QED
    BY <1>4, <2>1, <2>2
<1>6. 1 \in 1 .. Len(spi) /\ F \in TxFifos
  BY <1>3, <1>4, PlacesApart
<1>7. /\ fifoObj'[F] = M
      /\ \A f \in TxFifos : f # F => fifoObj'[f] = fifoObj[f]
  BY <1>1, <1>6 DEF TypeOK, ControllerTypeOK
<1>8. F \notin txreq \cup TefFifos \cup processed
  BY <1>3, PlacesApart
<1>9. InFlight' = InFlight /\ OnController' = OnController \cup {F}
  BY <1>1, <1>3 DEF InFlight, OnController
<1>12. link = "up" => OnController \subseteq TxFifos /\ F \notin OnController
  <2>1. link = "up" => QueuedFifos \subseteq processed
    BY DEF EchoInv, EventInv
  <2> QED
    BY <1>8, <2>1, PlacesApart DEF OnController
<1>13. XmitInv'
  <2> SUFFICES ASSUME xmit # None PROVE XmitInv'
    BY <1>1 DEF XmitInv
  <2>1. xmit \in TxFifos /\ link = "up"
    BY DEF TypeOK, NetTypeOK, EchoInv, IdleInv
  <2>2. \A k \in 1 .. Len(spi') : spi'[k].fifo = xmit => spi'[k].frame = next - 1
    BY <1>5 DEF EchoInv, XmitInv
  <2>3. xmit \in OnController' => fifoObj'[xmit] = next - 1
    <3>1. CASE xmit = F
      BY <1>4, <1>6, <1>7, <3>1 DEF EchoInv, XmitInv
    <3>2. CASE xmit # F
      BY <1>7, <1>9, <2>1, <3>2 DEF EchoInv, XmitInv
    <3> QED
      BY <3>1, <3>2
  <2> QED
    BY <1>1, <1>9, <2>2, <2>3 DEF EchoInv, XmitInv
<1>10. SlotInv'
  <2> SUFFICES ASSUME link = "up" PROVE SlotInv'
    BY <1>1 DEF SlotInv
  <2>1. \A k \in 1 .. Len(spi') :
          spi'[k].fifo \notin InDoubt => echo[spi'[k].fifo] = spi'[k].frame
    BY <1>5 DEF EchoInv, SlotInv
  <2>2. ASSUME NEW f \in OnController', f \notin InDoubt
        PROVE  echo[f] = fifoObj'[f]
    <3>1. CASE f = F
      BY <1>4, <1>6, <1>7, <2>2, <3>1 DEF EchoInv, SlotInv
    <3>2. CASE f # F
      BY <1>7, <1>9, <1>12, <2>2, <3>2 DEF EchoInv, SlotInv
    <3> QED
      BY <3>1, <3>2
  <2>3. \A f \in TxFifos : echo[f] # None => f \in InFlight' \cup late
    BY <1>9 DEF EchoInv, SlotInv
  <2>4. UNCHANGED InDoubt
    BY <1>1 DEF InDoubt
  <2> QED
    BY <1>1, <1>3, <2>1, <2>2, <2>3, <2>4 DEF SlotInv
<1>11. IdleInv' /\ EventInv'
  BY <1>1, <1>3 DEF EchoInv, IdleInv, EventInv
<1> QED
  BY <1>10, <1>11, <1>13 DEF EchoInv

(* A request turns into a transmit event, start_xmit done or not.          *)
LEMMA EchoBus ==
  ASSUME TypeOK, MaskInv, EchoInv, UnusedInv', BusSend
  PROVE  EchoInv'
<1> DEFINE Entries == [fifo : TxFifos, ts : Nat]
           F == Min(txreq)
           e == [fifo |-> F, ts |-> Len(wire) + 1]
<1>1. F \in txreq /\ F \in TxFifos
  BY MinOfFifos DEF BusSend, MayArbitrate, TypeOK, ControllerTypeOK
<1>2. /\ txreq' = txreq \ {F} /\ tef' = Append(tef, e)
      /\ UNCHANGED <<link, queuedTef, xmit, echo, next, spi, fifoObj, processed, irq, late>>
  BY DEF BusSend, FirstByPriority, driver
<1>3. tef \in Seq(Entries) /\ Len(wire) \in Nat
  BY LenProperties DEF TypeOK, TefTypeOK, HistoryTypeOK
<1> HIDE DEF F
<1>4. e \in Entries /\ e.fifo = F
  BY <1>1, <1>3
<1> HIDE DEF e, Entries
<1>5. TefFifos' = TefFifos \cup {F} /\ UNCHANGED <<SpiFifos, QueuedFifos>>
  BY <1>2, <1>3, <1>4, FifosOfAppend DEF TefFifos, SpiFifos, QueuedFifos
<1>6. UNCHANGED <<InFlight, OnController, InDoubt>>
  BY <1>1, <1>2, <1>5 DEF InFlight, OnController, InDoubt
<1>7. SlotInv'
  BY <1>2, <1>5, <1>6 DEF EchoInv, SlotInv
<1>8. IdleInv' /\ XmitInv' /\ EventInv'
  BY <1>2, <1>5, <1>6 DEF EchoInv, IdleInv, XmitInv, EventInv
<1> QED
  BY <1>7, <1>8 DEF EchoInv

(* The thread reads a transmit event: its FIFO is processed from then on.  *)
LEMMA EchoReadTef ==
  ASSUME TypeOK, MaskInv, EchoInv, UnusedInv', MaxLostFaults = 0,
         ReadTefEntry(0), tef # <<>>,
         UNCHANGED <<link, xmit, echo, next, spi, txreq, fifoObj, late>>,
         irq'.pc \in {"tefcount", "tefsta", "sort"}
  PROVE  EchoInv'
<1> DEFINE F == Head(tef).fifo
           Entries == [fifo : TxFifos, ts : Nat]
           Queued == [fifo : TxFifos \cup {None}, ts : Nat]
<1>1. /\ queuedTef' = Append(queuedTef, Head(tef)) /\ processed' = processed \cup {F}
      /\ F \in TefFifos /\ TefFifos' = TefFifos \ {F} /\ Head(tef) \in Queued
  BY ReadTefEffect
<1>2. queuedTef \in Seq(Queued)
  BY DEF TypeOK, TefTypeOK
<1> HIDE DEF Queued
<1>3. /\ QueuedFifos' = QueuedFifos \cup {F}
      /\ FifosDistinct(queuedTef) /\ F \notin QueuedFifos => FifosDistinct(queuedTef')
  BY <1>1, <1>2, FifosOfAppend DEF QueuedFifos
<1> HIDE DEF F
<1>4. UNCHANGED SpiFifos /\ UNCHANGED InFlight
  <2>1. UNCHANGED SpiFifos
    BY DEF SpiFifos
  <2> QED
    BY <1>1, <1>3, <2>1 DEF InFlight
<1>5. UNCHANGED <<OnController, InDoubt>>
  BY <1>1, <1>3 DEF OnController, InDoubt
<1>6. SlotInv'
  BY <1>4, <1>5 DEF EchoInv, SlotInv
<1>7. EventInv'
  <2>1. ASSUME link = "up"
        PROVE  QueuedFifos' \subseteq processed' /\ FifosDistinct(queuedTef')
    <3>1. QueuedFifos \subseteq processed /\ FifosDistinct(queuedTef)
      BY <2>1 DEF EchoInv, EventInv
    <3>2. F \notin QueuedFifos
      BY <1>1, <3>1, PlacesApart
    <3> QED
      BY <1>1, <1>3, <3>1, <3>2
  <2> QED
    BY <2>1 DEF EventInv
<1>8. IdleInv' /\ XmitInv'
  BY <1>4, <1>5 DEF EchoInv, IdleInv, XmitInv
<1> QED
  BY <1>6, <1>7, <1>8 DEF EchoInv

(* Sorting and handing over of the events read.                            *)
LEMMA EchoSort ==
  ASSUME TypeOK, EchoInv, UnusedInv', IrqSort
  PROVE  EchoInv'
<1>1. PICK order \in Bijection(1 .. Len(queuedTef), 1 .. Len(queuedTef)) :
        queuedTef' = [i \in 1 .. Len(queuedTef) |-> queuedTef[order[i]]]
  BY DEF IrqSort
<1>2. /\ UNCHANGED <<link, xmit, echo, next, spi, txreq, fifoObj, tef, processed, late>>
      /\ irq'.pc = "deliver"
  BY DEF IrqSort, controller, Goto, IrqOff
<1>3. Len(queuedTef') = Len(queuedTef)
  <2>1. Len(queuedTef) \in Nat
    BY LenProperties DEF TypeOK, TefTypeOK
  <2> QED
    BY <1>1, <2>1
<1>4. /\ UNCHANGED QueuedFifos
      /\ FifosDistinct(queuedTef) => FifosDistinct(queuedTef')
  BY <1>1, <1>3, FifosOfRearranged DEF QueuedFifos
<1>5. UNCHANGED <<SpiFifos, TefFifos, InFlight, OnController, InDoubt>>
  BY <1>2, <1>4 DEF SpiFifos, TefFifos, InFlight, OnController, InDoubt
<1>6. IdleInv' /\ XmitInv' /\ EventInv' /\ SlotInv'
  BY <1>2, <1>4, <1>5 DEF EchoInv, IdleInv, XmitInv, EventInv, SlotInv
<1> QED
  BY <1>6 DEF EchoInv

(* Handing over the oldest event frees the slot of its FIFO, and hands the *)
(* frame of that slot to the stack.                                        *)
LEMMA EchoDeliver ==
  ASSUME TypeOK, MaskInv, EchoInv, UnusedInv', IrqDeliver
  PROVE  EchoInv'
<1> DEFINE F == Head(queuedTef).fifo
           Queued == [fifo : TxFifos \cup {None}, ts : Nat]
<1>1. /\ queuedTef' = Tail(queuedTef) /\ queuedTef # <<>> /\ irq.pc = "deliver"
      /\ echo' = IF F = None THEN echo ELSE [echo EXCEPT ![F] = None]
      /\ late' = LateWith(F)
      /\ UNCHANGED <<link, xmit, next, spi, txreq, fifoObj, tef, processed, irq>>
  BY DEF IrqDeliver, controller, InIrq
<1>2. queuedTef \in Seq(Queued)
  BY DEF TypeOK, TefTypeOK
<1>3. FifosDistinct(queuedTef) =>
        /\ F \in QueuedFifos /\ QueuedFifos' = QueuedFifos \ {F}
        /\ FifosDistinct(queuedTef')
  <2> HIDE DEF Queued
  <2> QED
    BY <1>1, <1>2, FifosOfTail DEF QueuedFifos
<1> HIDE DEF F
<1>4. UNCHANGED <<SpiFifos, TefFifos>>
  BY <1>1 DEF SpiFifos, TefFifos
<1>5. \A f \in TxFifos : echo'[f] \in {echo[f], None}
  BY <1>1 DEF TypeOK, NetTypeOK
<1>6. IdleInv'
  BY <1>1, <1>5 DEF EchoInv, IdleInv
<1>7. EventInv'
  BY <1>1, <1>3 DEF EchoInv, EventInv
<1>8. late \subseteq late' /\ (F = xmit /\ F # None => F \in late')
  BY <1>1 DEF LateWith
<1>9. ASSUME link = "up"
      PROVE  /\ F \in QueuedFifos /\ QueuedFifos' = QueuedFifos \ {F}
             /\ F \in TxFifos /\ F # None /\ F \notin SpiFifos \cup txreq \cup TefFifos
             /\ echo'[F] = None /\ \A f \in TxFifos : f # F => echo'[f] = echo[f]
             /\ InFlight' = InFlight \ {F} /\ OnController' = OnController \ {F}
             /\ OnController' \subseteq TxFifos
  <2>1. /\ F \in QueuedFifos /\ QueuedFifos' = QueuedFifos \ {F}
        /\ QueuedFifos \subseteq processed /\ processed \subseteq TxFifos
    BY <1>3, <1>9, PlacesApart DEF EchoInv, EventInv
  <2>2. F \in TxFifos /\ F # None /\ F \notin SpiFifos \cup txreq \cup TefFifos
    BY <2>1, NoneIsNoFifo, PlacesApart
  <2>3. echo'[F] = None /\ \A f \in TxFifos : f # F => echo'[f] = echo[f]
    BY <1>1, <2>2 DEF TypeOK, NetTypeOK
  <2>4. InFlight' = InFlight \ {F} /\ OnController' = OnController \ {F}
    BY <1>1, <1>4, <2>1, <2>2 DEF InFlight, OnController
  <2>5. OnController' \subseteq TxFifos
    BY <1>1, <1>4, <2>1, PlacesApart DEF OnController
  <2> QED
    BY <2>1, <2>2, <2>3, <2>4, <2>5
<1>10. XmitInv'
  <2> SUFFICES ASSUME xmit # None PROVE XmitInv'
    BY <1>1 DEF XmitInv
  <2>1. link = "up" /\ xmit \in TxFifos
    BY DEF EchoInv, IdleInv, TypeOK, NetTypeOK
  <2>2. xmit \notin late' => xmit \in InFlight' /\ echo'[xmit] = None
    BY <1>8, <1>9, <2>1 DEF EchoInv, XmitInv
  <2>3. xmit \in OnController' => fifoObj[xmit] = next - 1
    BY <1>9, <2>1 DEF EchoInv, XmitInv
  <2> QED
    BY <1>1, <2>2, <2>3 DEF EchoInv, XmitInv
<1>11. SlotInv'
  <2> SUFFICES ASSUME link = "up" PROVE SlotInv'
    BY <1>1 DEF SlotInv
  <2>1. \A f : f \notin InDoubt' => f \notin InDoubt
    BY <1>1, <1>8 DEF InDoubt
  <2>2. ASSUME NEW k \in 1 .. Len(spi), spi[k].fifo \notin InDoubt'
        PROVE  echo'[spi[k].fifo] = spi[k].frame
    <3>1. spi[k].fifo \in SpiFifos
      BY SpiMembers
    <3>2. spi[k].fifo \in TxFifos /\ spi[k].fifo # F
      BY <1>9, <3>1, PlacesApart
    <3> QED
      BY <1>9, <2>1, <2>2, <3>2 DEF EchoInv, SlotInv
  <2>3. ASSUME NEW f \in OnController', f \notin InDoubt'
        PROVE  echo'[f] = fifoObj[f]
    BY <1>9, <2>1, <2>3 DEF EchoInv, SlotInv
  <2>4. ASSUME NEW f \in TxFifos, echo'[f] # None PROVE f \in InFlight' \cup late'
    BY <1>8, <1>9, <2>4 DEF EchoInv, SlotInv
  <2> QED
    BY <1>1, <2>2, <2>3, <2>4 DEF SlotInv
<1> QED
  BY <1>6, <1>7, <1>10, <1>11 DEF EchoInv

(* When the queue is woken no event is left.                               *)
LEMMA EchoState ==
  ASSUME TypeOK, MaskInv, EchoInv, UnusedInv', IrqState
  PROVE  EchoInv'
<1>1. /\ UNCHANGED <<link, queuedTef, xmit, echo, spi, txreq, fifoObj, next, tef, late>>
      /\ queuedTef = <<>>
  BY DEF IrqState, controller, history
<1>2. UNCHANGED <<SpiFifos, TefFifos, QueuedFifos, InFlight, OnController, InDoubt>>
  BY <1>1 DEF SpiFifos, TefFifos, QueuedFifos, InFlight, OnController, InDoubt
<1>3. QueuedFifos = {} /\ FifosDistinct(queuedTef)
  BY <1>1, FifosOfEmpty DEF QueuedFifos
<1>4. IdleInv' /\ XmitInv' /\ SlotInv'
  BY <1>1, <1>2 DEF EchoInv, IdleInv, XmitInv, SlotInv
<1>5. EventInv'
  BY <1>1, <1>2, <1>3 DEF EventInv
<1> QED
  BY <1>4, <1>5 DEF EchoInv

(* The interface goes up with every slot free, and down freeing them.      *)
LEMMA EchoOpenStop ==
  ASSUME TypeOK, MaskInv, QueueInv, EchoInv, UnusedInv', [Next]_vars, MaxOpens <= 1,
         Open \/ StopBegin \/ StopEnd
  PROVE  EchoInv'
<1>1. CASE Open
  <2>1. used.opens = 0 /\ link = "down"
    <3>1. used.opens = 0
      BY <1>1, OpensCount
    <3> QED
      BY <1>1, <3>1 DEF Open
  <2>2. submitted = {} /\ queuedTef = <<>> /\ xmit = None
        /\ \A f \in TxFifos : echo[f] = None
    BY <2>1 DEF QueueInv, EchoInv, UnusedInv, IdleInv
  <2>3. /\ txreq' = {} /\ tef' = <<>> /\ link' = "up"
        /\ UNCHANGED <<queuedTef, xmit, echo, spi, fifoObj, next, processed, irq>>
    BY <1>1 DEF Open
  <2>4. /\ SpiFifos' = {} /\ TefFifos' = {} /\ QueuedFifos' = {}
        /\ FifosDistinct(queuedTef')
    <3>1. SpiFifos = {}
      BY <2>2, PlacesApart
    <3> QED
      BY <2>2, <2>3, <3>1, FifosOfEmpty DEF SpiFifos, TefFifos, QueuedFifos
  <2>5. Len(spi') = 0
    <3>1. \A k \in 1 .. Len(spi) : FALSE
      BY <2>3, <2>4, SpiMembers DEF SpiFifos
    <3>2. Len(spi) \in Nat
      BY LenProperties DEF TypeOK, ControllerTypeOK
    <3> QED
      BY <2>3, <3>1, <3>2
  <2>6. SlotInv'
    BY <2>2, <2>3, <2>4, <2>5 DEF SlotInv, OnController
  <2>7. IdleInv' /\ XmitInv' /\ EventInv'
    BY <2>2, <2>3, <2>4 DEF IdleInv, XmitInv, EventInv
  <2> QED
    BY <2>6, <2>7 DEF EchoInv
<1>2. CASE StopBegin \/ StopEnd
  <2>1. /\ link' # "up" /\ xmit' = None /\ \A f \in TxFifos : echo'[f] = None
        /\ UNCHANGED <<queuedTef, irq>>
    BY <1>2 DEF StopBegin, StopEnd, EchoInv, IdleInv
  <2> QED
    BY <2>1 DEF EchoInv, IdleInv, XmitInv, SlotInv, EventInv
<1> QED
  BY <1>1, <1>2

(* Every step of the first session keeps the echo slots in step with the   *)
(* FIFOs.                                                                  *)
LEMMA EchoNext ==
  ASSUME TypeOK, MaskInv, QueueInv, EchoInv, [Next]_vars, ~OneShot,
         MaxOpens <= 1, MaxLostFaults = 0, MaxSpiFaults = 0
  PROVE  EchoInv'
<1>1. UnusedInv'
  BY UnusedNext DEF EchoInv
<1>2. CASE IrqTefCount \/ (IrqTefConservative /\ tef # <<>>)
  <2>1. tefSkew = 0
    BY DEF MaskInv, NoAborts
  <2>2. tef # <<>>
    <3>1. IrqTefCount => irq.left \in 1 .. Len(tef)
      BY DEF IrqTefCount, MaskInv, TefExpected, InIrq
    <3> QED
      BY <1>2, <3>1
  <2>3. /\ ReadTefEntry(0)
        /\ UNCHANGED <<link, xmit, echo, next, spi, txreq, fifoObj, late>>
    BY <1>2, <2>1, <2>2 DEF IrqTefCount, IrqTefConservative
  <2>4. irq'.pc \in {"tefcount", "tefsta", "sort"}
    BY <1>2, <2>2 DEF IrqTefCount, IrqTefConservative, Goto, IrqOff, InIrq, TypeOK, IrqTypeOK
  <2> QED
    BY <1>1, <2>2, <2>3, <2>4, EchoReadTef
<1>3. CASE \/ XmitBusOff \/ BusErrorState \/ BusReceive \/ IrqStart \/ IrqLoop
           \/ IrqReadFlags \/ IrqReadRequests \/ IrqSleep \/ UNCHANGED vars
  <2>1. UNCHANGED EchoStepVars
    BY <1>3 DEF XmitBusOff, BusErrorState, BusReceive, IrqStart, IrqLoop,
         IrqReadFlags, IrqReadRequests, IrqSleep, vars, driver, controller, history, EchoStepVars
  <2>2. irq' = irq \/ queuedTef = <<>>
    BY <1>3 DEF XmitBusOff, BusErrorState, BusReceive, IrqStart, IrqLoop,
         IrqReadFlags, IrqReadRequests, IrqSleep, vars, driver, InIrq, EchoInv,
         EventInv
  <2> QED
    BY <1>1, <2>1, <2>2, EchoFrame
<1>4. CASE IrqClear \/ IrqTef \/ (IrqTefConservative /\ tef = <<>>)
  <2>1. \/ queuedTef = <<>>
        \/ irq'.pc \notin {"off", "loop", "flags", "requests", "clear", "aborts", "sleep"}
    <3> HIDE DEF TefCount
    <3> QED
      BY <1>4 DEF IrqClear, IrqTef, IrqTefConservative, Goto, IrqOff, InIrq, EchoInv, EventInv
  <2>2. UNCHANGED EchoStepVars
    BY <1>4, <2>1 DEF IrqClear, IrqTef, IrqTefConservative, controller, history,
         EchoStepVars, InIrq, EchoInv, EventInv
  <2> QED
    BY <1>1, <2>1, <2>2, EchoFrame
<1>5. ~BusAbort /\ ~IrqAbort
  BY DEF BusAbort, IrqAbort, MaskInv, NoAborts
<1> QED
  BY <1>1, <1>2, <1>3, <1>4, <1>5, EchoXmit, EchoPut, EchoSpi, EchoBus, EchoSort,
     EchoDeliver, EchoState, EchoOpenStop, NoFault DEF Next, IrqThread

(* The echo slots follow the FIFOs through the first session.              *)
THEOREM EchoCorrect ==
  ASSUME ~OneShot, MaxOpens <= 1, MaxLostFaults = 0, MaxSpiFaults = 0
  PROVE  Spec => []EchoInv
<1>1. Init => EchoInv
  <2> SUFFICES ASSUME Init PROVE EchoInv
    OBVIOUS
  <2>1. QueuedFifos = {} /\ FifosDistinct(queuedTef)
    BY FifosOfEmpty DEF Init, QueuedFifos
  <2> QED
    BY <2>1 DEF Init, EchoInv, UnusedInv, IdleInv, XmitInv, SlotInv, EventInv
<1>2. TypeOK /\ MaskInv /\ QueueInv /\ EchoInv /\ [Next]_vars => EchoInv'
  BY EchoNext
<1> QED
  BY <1>1, <1>2, TypeCorrect, MasksCorrect, QueueCorrect, PTL DEF Spec

(* A transmit event finds the frame it is about in the echo slot, or it is *)
(* the event of the frame start_xmit is about to store, or of a FIFO that  *)
(* saw such an event before, as long as no transfer fails and the          *)
(* interface is not opened again.                                          *)
THEOREM EchoFound ==
  ASSUME ~OneShot, MaxOpens <= 1, MaxLostFaults = 0, MaxSpiFaults = 0
  PROVE  Spec => []EchoThereForTef
<1>1. TypeOK /\ MaskInv /\ EchoInv => EchoThereForTef
  <2> SUFFICES ASSUME TypeOK, MaskInv, EchoInv, queuedTef # <<>>, link = "up",
                      Head(queuedTef).fifo \notin InDoubt
               PROVE  echo[Head(queuedTef).fifo] = fifoObj[Head(queuedTef).fifo]
    BY DEF EchoThereForTef, AtTransmitEvent, EchoOf, InDoubt
  <2>1. /\ FifosDistinct(queuedTef)
        /\ queuedTef \in Seq([fifo : TxFifos \cup {None}, ts : Nat])
    BY DEF EchoInv, EventInv, TypeOK, TefTypeOK
  <2>2. Head(queuedTef).fifo \in QueuedFifos
    BY <2>1, FifosOfTail DEF QueuedFifos
  <2> QED
    BY <2>2 DEF EchoInv, SlotInv, OnController
<1> QED
  BY <1>1, TypeCorrect, MasksCorrect, EchoCorrect, PTL

-----------------------------------------------------------------------------
(* The stack is told what went out.                                        *)

(* No frame is number 0, so a wire of increasing frames is no longer than  *)
(* the number of its last one.                                             *)
NumberInv ==
  /\ \A f \in txreq : fifoObj[f] >= 1
  /\ \A i \in 1 .. Len(wire) : i <= wire[i]

(* An event carries the position of its frame on the wire; the frames      *)
(* told, those of the events read and those of the unread ones make up     *)
(* the wire, until the code lets go of the order.                          *)
Kept == late = {} /\ ~straddled
EventOf(e, pos) == e.ts = pos /\ fifoObj[e.fifo] = wire[pos]
ToldInv ==
  Kept =>
    /\ Len(confirmed) <= Len(wire)
    /\ \A i \in 1 .. Len(confirmed) : confirmed[i] = wire[i]
UntoldInv ==
  Kept /\ link = "up" =>
    /\ Len(wire) = Len(confirmed) + Len(queuedTef) + Len(tef)
    /\ \A i \in 1 .. Len(queuedTef) : EventOf(queuedTef[i], Len(confirmed) + i)
    /\ \A i \in 1 .. Len(tef) :
         EventOf(tef[i], Len(confirmed) + Len(queuedTef) + i)
TellInv == NumberInv /\ ToldInv /\ UntoldInv

(* An order that keeps numbers in order is no change.                      *)
LEMMA MonotoneBijection ==
  ASSUME NEW n \in Nat, NEW order \in Bijection(1 .. n, 1 .. n),
         \A i, j \in 1 .. n : i < j => order[i] <= order[j]
  PROVE  \A i \in 1 .. n : order[i] = i
<1> DEFINE D == 1 .. n
           Moved == {i \in D : order[i] # i}
<1>1. /\ \A i \in D : order[i] \in D
      /\ \A i, j \in D : order[i] = order[j] => i = j
      /\ \A i \in D : \E j \in D : order[j] = i
  BY DEF Bijection, Injection, Surjection, IsInjective
<1>2. SUFFICES ASSUME Moved # {} PROVE FALSE
  OBVIOUS
<1>3. Min(Moved) \in Moved /\ \A x \in Moved : Min(Moved) <= x
  <2>1. Moved \subseteq Nat
    OBVIOUS
  <2> HIDE DEF Moved
  <2> QED
    BY <1>2, <2>1, MinOfNat
<1> DEFINE m == Min(Moved)
<1>4. m \in D /\ order[m] # m /\ \A i \in D : i < m => order[i] = i
  <2>1. \A x \in D \ Moved : order[x] = x
    OBVIOUS
  <2>2. m \in D /\ order[m] # m
    BY <1>3
  <2>3. \A i \in D : i < m => i \notin Moved
    <3> HIDE DEF Moved
    <3> SUFFICES ASSUME NEW i \in D, i < m, i \in Moved PROVE FALSE
      OBVIOUS
    <3>1. m <= i
      BY <1>3
    <3> QED
      BY <2>2, <3>1
  <2> QED
    BY <2>1, <2>2, <2>3
<1> HIDE DEF m, Moved
<1>5. order[m] > m
  <2> SUFFICES ASSUME order[m] < m PROVE FALSE
    BY <1>1, <1>4
  <2>1. order[m] \in D /\ order[order[m]] = order[m]
    BY <1>1, <1>4
  <2> QED
    BY <1>1, <1>4, <2>1
<1>6. PICK k \in D : order[k] = m
  BY <1>1, <1>4
<1>7. k > m
  <2>1. k # m
    BY <1>4, <1>6
  <2>2. ~(k < m)
    BY <1>4, <1>6
  <2> QED
    BY <1>4, <2>1, <2>2
<1>8. order[m] <= order[k]
  BY <1>4, <1>7
<1> QED
  BY <1>1, <1>4, <1>5, <1>6, <1>8

(* What TypeOK says of the variables this is about.                        *)
LEMMA TellTypes ==
  ASSUME TypeOK
  PROVE  /\ wire \in Seq(0 .. MaxFrames) /\ confirmed \in Seq(0 .. MaxFrames)
         /\ tef \in Seq([fifo : TxFifos, ts : Nat])
         /\ queuedTef \in Seq([fifo : TxFifos \cup {None}, ts : Nat])
         /\ Len(wire) \in Nat /\ Len(confirmed) \in Nat
         /\ Len(tef) \in Nat /\ Len(queuedTef) \in Nat
         /\ \A i \in 1 .. Len(tef) : tef[i].fifo \in TefFifos
         /\ \A i \in 1 .. Len(queuedTef) : queuedTef[i].fifo \in QueuedFifos
<1>1. /\ wire \in Seq(0 .. MaxFrames) /\ confirmed \in Seq(0 .. MaxFrames)
      /\ tef \in Seq([fifo : TxFifos, ts : Nat])
      /\ queuedTef \in Seq([fifo : TxFifos \cup {None}, ts : Nat])
  BY DEF TypeOK, HistoryTypeOK, TefTypeOK
<1>2. /\ Len(wire) \in Nat /\ Len(confirmed) \in Nat
      /\ Len(tef) \in Nat /\ Len(queuedTef) \in Nat
  BY <1>1, LenProperties
<1> QED
  BY <1>1, <1>2 DEF TefFifos, QueuedFifos, FifosOf

(* Frames are numbered from 1 on.                                          *)
LEMMA NumberNext ==
  ASSUME TypeOK, MaskInv, Order, NumberInv, [Next]_vars, MaxLostFaults = 0
  PROVE  NumberInv'
<1>1. CASE SpiComplete
  <2> DEFINE F == Head(spi).fifo
             M == Head(spi).frame
  <2>1. /\ fifoObj' = [fifoObj EXCEPT ![F] = M] /\ txreq' = txreq \cup {F}
        /\ spi # <<>> /\ UNCHANGED wire
    BY <1>1, NoLostFault DEF SpiComplete, Requested
  <2>2. F \in TxFifos /\ M \in Nat /\ M >= 1
    <3>1. F \in SpiFifos /\ M \in Frames
      BY <2>1, SpiMembers
    <3> HIDE DEF F, M
    <3> QED
      BY <3>1, PlacesApart DEF Frames
  <2> HIDE DEF F, M
  <2>3. /\ fifoObj'[F] = M
        /\ \A f \in TxFifos : f # F => fifoObj'[f] = fifoObj[f]
    BY <2>1, <2>2, OrderTypes
  <2>4. \A f \in txreq' : fifoObj'[f] >= 1
    BY <2>1, <2>2, <2>3, PlacesApart DEF NumberInv
  <2> QED
    BY <2>1, <2>4 DEF NumberInv
<1>2. CASE BusSend
  <2> DEFINE F == Min(txreq)
             M == fifoObj[F]
  <2>1. F \in txreq /\ F \in TxFifos
    BY <1>2, MinOfFifos, OrderTypes DEF BusSend, MayArbitrate
  <2>2. wire' = Append(wire, M) /\ txreq' = txreq \ {F} /\ UNCHANGED fifoObj
    BY <1>2 DEF BusSend, FirstByPriority
  <2> HIDE DEF F
  <2>3. M \in 0 .. MaxFrames /\ M >= 1 /\ \A i \in 1 .. Len(wire) : wire[i] < M
    BY <2>1, OrderTypes DEF NumberInv, Order, OrderInv
  <2> HIDE DEF M
  <2>4. /\ Len(wire') = Len(wire) + 1 /\ Len(wire) \in Nat
        /\ \A i \in 1 .. Len(wire) : wire'[i] = wire[i]
        /\ wire'[Len(wire) + 1] = M
    BY <2>2, <2>3, AppendProperties, LenProperties, OrderTypes
  <2>5. Len(wire) + 1 <= M
    <3>1. CASE Len(wire) = 0
      BY <2>3, <3>1
    <3>2. CASE Len(wire) # 0
      <4>1. Len(wire) \in 1 .. Len(wire)
        BY <2>4, <3>2
      <4>2. Len(wire) <= wire[Len(wire)] /\ wire[Len(wire)] < M /\ wire[Len(wire)] \in Nat
        BY <2>3, <4>1, OrderTypes DEF NumberInv
      <4> QED
        BY <2>3, <2>4, <4>2
    <3> QED
      BY <3>1, <3>2
  <2>6. ASSUME NEW i \in 1 .. Len(wire') PROVE i <= wire'[i]
    <3>1. CASE i \in 1 .. Len(wire)
      BY <2>4, <3>1 DEF NumberInv
    <3>2. CASE i = Len(wire) + 1
      BY <2>4, <2>5, <3>2
    <3> QED
      BY <2>4, <3>1, <3>2
  <2> QED
    BY <2>2, <2>6 DEF NumberInv
<1>3. CASE ~SpiComplete /\ ~BusSend
  <2>1. UNCHANGED <<wire, fifoObj>> /\ txreq' \subseteq txreq
    BY <1>3 DEF Next, XmitBusOff, Xmit, XmitPutEcho, BusAbort, BusErrorState, BusReceive,
         IrqThread, IrqStart, IrqLoop, IrqReadFlags, IrqReadRequests, IrqClear,
         IrqAbort, IrqTef, IrqTefCount, IrqTefConservative, IrqSort, IrqDeliver,
         IrqState, IrqSleep, IrqSpiFault, Open, OpenFails, StopBegin, StopEnd,
         vars, driver, controller, history
  <2> QED
    BY <2>1 DEF NumberInv
<1> QED
  BY <1>1, <1>2, <1>3

(* A step that neither sends, reads nor tells anything keeps the account.  *)
LEMMA TellFrame ==
  ASSUME ToldInv, UntoldInv,
         UNCHANGED <<wire, confirmed, queuedTef, tef, fifoObj, late, straddled>>,
         link' = link \/ link' # "up"
  PROVE  ToldInv' /\ UntoldInv'
BY DEF ToldInv, UntoldInv, EventOf, Kept

(* The controller's new frame is in a FIFO no event is about.              *)
LEMMA TellSpi ==
  ASSUME TypeOK, MaskInv, EchoInv, ToldInv, UntoldInv, SpiComplete, MaxLostFaults = 0
  PROVE  ToldInv' /\ UntoldInv'
<1> DEFINE F == Head(spi).fifo
           M == Head(spi).frame
<1>1. /\ fifoObj' = [fifoObj EXCEPT ![F] = M] /\ spi # <<>>
      /\ UNCHANGED <<link, wire, confirmed, queuedTef, tef, Kept>>
  BY NoLostFault DEF SpiComplete, Requested, Kept
<1>2. F \in SpiFifos
  BY <1>1, SpiMembers
<1> HIDE DEF F, M
<1>3. ToldInv'
  BY <1>1 DEF ToldInv
<1>4. UntoldInv'
  <2> SUFFICES ASSUME link = "up", Kept PROVE UntoldInv'
    BY <1>1 DEF UntoldInv
  <2>1. QueuedFifos \subseteq processed
    BY DEF EchoInv, EventInv
  <2>2. \A f \in TefFifos \cup QueuedFifos : f \in TxFifos /\ f # F
    BY <1>2, <2>1, PlacesApart
  <2>3. \A f \in TefFifos \cup QueuedFifos : fifoObj'[f] = fifoObj[f]
    BY <1>1, <2>2, OrderTypes
  <2>4. /\ \A i \in 1 .. Len(tef) : fifoObj'[tef[i].fifo] = fifoObj[tef[i].fifo]
        /\ \A i \in 1 .. Len(queuedTef) :
             fifoObj'[queuedTef[i].fifo] = fifoObj[queuedTef[i].fifo]
    BY <2>3, TellTypes
  <2>5. /\ Len(wire) = Len(confirmed) + Len(queuedTef) + Len(tef)
        /\ \A i \in 1 .. Len(queuedTef) : EventOf(queuedTef[i], Len(confirmed) + i)
        /\ \A i \in 1 .. Len(tef) : EventOf(tef[i], Len(confirmed) + Len(queuedTef) + i)
    BY DEF UntoldInv
  <2>6. /\ wire' = wire /\ confirmed' = confirmed
        /\ queuedTef' = queuedTef /\ tef' = tef
    BY <1>1
  <2>7. \A i \in 1 .. Len(queuedTef) : EventOf(queuedTef[i], Len(confirmed) + i)'
    BY <2>4, <2>5, <2>6 DEF EventOf
  <2>8. \A i \in 1 .. Len(tef) : EventOf(tef[i], Len(confirmed) + Len(queuedTef) + i)'
    BY <2>4, <2>5, <2>6 DEF EventOf
  <2> QED
    BY <2>5, <2>6, <2>7, <2>8 DEF UntoldInv
<1> QED
  BY <1>3, <1>4

(* The bus sends a frame and stores the event about it.                    *)
LEMMA TellBus ==
  ASSUME TypeOK, ToldInv, UntoldInv, BusSend
  PROVE  ToldInv' /\ UntoldInv'
<1> DEFINE F == Min(txreq)
           M == fifoObj[F]
           Entries == [fifo : TxFifos, ts : Nat]
           e == [fifo |-> F, ts |-> Len(wire) + 1]
<1>1. F \in TxFifos
  BY MinOfFifos, OrderTypes DEF BusSend, MayArbitrate
<1>2. /\ wire' = Append(wire, M) /\ tef' = Append(tef, e)
      /\ UNCHANGED <<link, confirmed, queuedTef, fifoObj, Kept>>
  BY DEF BusSend, FirstByPriority, driver, Kept
<1> HIDE DEF F
<1>3. M \in 0 .. MaxFrames
  BY <1>1, OrderTypes
<1>4. e \in Entries /\ e.fifo = F /\ e.ts = Len(wire) + 1
  BY <1>1, TellTypes
<1>5. fifoObj[F] = M
  OBVIOUS
<1> HIDE DEF M, e, Entries
<1>6. /\ Len(wire') = Len(wire) + 1
      /\ \A i \in 1 .. Len(wire) : wire'[i] = wire[i]
      /\ wire'[Len(wire) + 1] = M
  BY <1>2, <1>3, AppendProperties, TellTypes
<1>7. /\ Len(tef') = Len(tef) + 1
      /\ \A i \in 1 .. Len(tef) : tef'[i] = tef[i]
      /\ tef'[Len(tef) + 1] = e
  <2>1. tef \in Seq(Entries)
    BY TellTypes DEF Entries
  <2> QED
    BY <1>2, <1>4, <2>1, AppendProperties
<1>8. ToldInv'
  BY <1>2, <1>6, TellTypes DEF ToldInv
<1>9. UntoldInv'
  <2> SUFFICES ASSUME link = "up", Kept PROVE UntoldInv'
    BY <1>2 DEF UntoldInv
  <2> DEFINE C == Len(confirmed)
             Q == Len(queuedTef)
  <2>1. /\ Len(wire) = C + Q + Len(tef)
        /\ \A i \in 1 .. Q : EventOf(queuedTef[i], C + i)
        /\ \A i \in 1 .. Len(tef) : EventOf(tef[i], C + Q + i)
    BY DEF UntoldInv
  <2>2. C \in Nat /\ Q \in Nat /\ Len(tef) \in Nat
    BY TellTypes
  <2>3. Len(confirmed') = C /\ Len(queuedTef') = Q
    BY <1>2
  <2> HIDE DEF C, Q
  <2>4. ASSUME NEW i \in 1 .. Q PROVE EventOf(queuedTef[i], C + i)'
    <3>1. C + i \in 1 .. Len(wire) /\ EventOf(queuedTef[i], C + i)
      BY <2>1, <2>2
    <3>2. C' = C
      BY <1>2 DEF C
    <3> QED
      BY <1>2, <1>6, <3>1, <3>2 DEF EventOf
  <2>5. ASSUME NEW i \in 1 .. Len(tef') PROVE EventOf(tef[i], C + Q + i)'
    <3>1. C' = C /\ Q' = Q
      BY <1>2 DEF C, Q
    <3>2. CASE i \in 1 .. Len(tef)
      <4>1. C + Q + i \in 1 .. Len(wire) /\ EventOf(tef[i], C + Q + i)
        BY <2>1, <2>2, <3>2
      <4> QED
        BY <1>2, <1>6, <1>7, <3>1, <3>2, <4>1 DEF EventOf
    <3>3. CASE i = Len(tef) + 1
      <4>1. C + Q + i = Len(wire) + 1
        BY <2>1, <2>2, <3>3
      <4> QED
        BY <1>2, <1>4, <1>5, <1>6, <1>7, <3>1, <3>3, <4>1 DEF EventOf
    <3> QED
      BY <1>7, <2>2, <3>2, <3>3
  <2>6. Len(wire') = C + Q + Len(tef')
    BY <1>6, <1>7, <2>1, <2>2
  <2> QED
    BY <1>2, <2>3, <2>4, <2>5, <2>6 DEF UntoldInv, C, Q
<1> QED
  BY <1>8, <1>9

(* The thread moves the oldest event to the end of its queue.              *)
LEMMA TellReadTef ==
  ASSUME TypeOK, MaskInv, ToldInv, UntoldInv, MaxLostFaults = 0,
         ReadTefEntry(0), tef # <<>>,
         UNCHANGED <<link, wire, confirmed, fifoObj, late, straddled>>
  PROVE  ToldInv' /\ UntoldInv'
<1> DEFINE C == Len(confirmed)
           Q == Len(queuedTef)
           Queued == [fifo : TxFifos \cup {None}, ts : Nat]
           e == Head(tef)
<1>1. tef' = Tail(tef) /\ queuedTef' = Append(queuedTef, e) /\ e \in Queued
  BY ReadTefEffect
<1>2. C \in Nat /\ Q \in Nat /\ Len(tef) \in Nat /\ queuedTef \in Seq(Queued)
  BY TellTypes
<1>3. /\ Len(tef) # 0 /\ Len(tef') = Len(tef) - 1 /\ e = tef[1]
      /\ \A i \in 1 .. Len(tef') : tef'[i] = tef[i + 1]
  BY <1>1, TellTypes, HeadTailProperties, EmptySeq
<1> HIDE DEF e, Queued
<1>4. /\ Len(queuedTef') = Q + 1 /\ queuedTef'[Q + 1] = e
      /\ \A i \in 1 .. Q : queuedTef'[i] = queuedTef[i]
  BY <1>1, <1>2, AppendProperties
<1> HIDE DEF C, Q
<1>5. C' = C
  BY DEF C
<1>6. UntoldInv'
  <2> SUFFICES ASSUME link = "up", Kept PROVE UntoldInv'
    BY DEF UntoldInv, Kept
  <2>1. /\ Len(wire) = C + Q + Len(tef)
        /\ \A i \in 1 .. Q : EventOf(queuedTef[i], C + i)
        /\ \A i \in 1 .. Len(tef) : EventOf(tef[i], C + Q + i)
    BY DEF UntoldInv, C, Q
  <2>2. ASSUME NEW i \in 1 .. Len(queuedTef')
        PROVE  EventOf(queuedTef'[i], C + i)
    <3>1. CASE i \in 1 .. Q
      BY <1>4, <2>1, <3>1
    <3>2. CASE i = Q + 1
      <4>1. EventOf(tef[1], C + Q + 1)
        BY <1>2, <1>3, <2>1
      <4>2. C + i = C + Q + 1
        BY <1>2, <3>2
      <4> QED
        BY <1>3, <1>4, <3>2, <4>1, <4>2
    <3> QED
      BY <1>2, <1>4, <3>1, <3>2
  <2>3. ASSUME NEW i \in 1 .. Len(tef')
        PROVE  EventOf(tef'[i], C + Len(queuedTef') + i)
    <3>1. i + 1 \in 1 .. Len(tef) /\ tef'[i] = tef[i + 1]
      BY <1>2, <1>3
    <3>2. C + Q + (i + 1) = C + Len(queuedTef') + i
      BY <1>2, <1>4
    <3>3. EventOf(tef[i + 1], C + Q + (i + 1))
      BY <2>1, <3>1
    <3> QED
      BY <3>1, <3>2, <3>3
  <2>4. Len(wire) = C + Len(queuedTef') + Len(tef')
    BY <1>2, <1>3, <1>4, <2>1
  <2> QED
    BY <1>5, <2>2, <2>3, <2>4 DEF UntoldInv, EventOf, C
<1>7. ToldInv'
  BY DEF ToldInv, Kept
<1> QED
  BY <1>6, <1>7

(* Stamps of one era compare as they are.                                  *)
LEMMA SameEraOrder ==
  ASSUME NEW a \in Nat, NEW b \in Nat, Era(a) = Era(b)
  PROVE  SignedTs(a) <= SignedTs(b) => a <= b
<1>1. 2 * TsHalf \in Nat \ {0} /\ a + TsHalf \in Nat /\ b + TsHalf \in Nat
  BY Mcp25xxfdTxAssumption
<1>2. Era(a) \in Int /\ Era(b) \in Int
  <2> DEFINE d == 2 * TsHalf
  <2>1. \A n \in Nat : n \div d \in Int
    <3> HIDE DEF d
    <3>1. d \in Nat \ {0}
      BY <1>1 DEF d
    <3> QED
      BY <3>1
  <2> QED
    BY <1>1, <2>1 DEF Era
<1> DEFINE k == 2 * TsHalf * Era(a)
<1>3. k \in Int
  BY <1>1, <1>2
<1>4. SignedTs(a) = a - k /\ SignedTs(b) = b - k
  BY DEF SignedTs
<1> HIDE DEF k
<1> QED
  BY <1>3, <1>4

(* The events of one era are sorted already.                               *)
LEMMA TellSort ==
  ASSUME TypeOK, ToldInv, UntoldInv, IrqSort
  PROVE  ToldInv' /\ UntoldInv'
<1> DEFINE C == Len(confirmed)
           Q == Len(queuedTef)
<1>1. /\ UNCHANGED <<link, wire, confirmed, tef, fifoObj>>
      /\ Kept' => Kept /\ SameEra(queuedTef)
  BY DEF IrqSort, controller, Kept
<1>2. ToldInv'
  BY <1>1 DEF ToldInv
<1>3. ASSUME link = "up", Kept' PROVE UNCHANGED queuedTef
  <2>1. PICK order \in Bijection(1 .. Q, 1 .. Q) :
          /\ queuedTef' = [i \in 1 .. Q |-> queuedTef[order[i]]]
          /\ SortedByTs(queuedTef')
    BY DEF IrqSort
  <2>2. C \in Nat /\ Q \in Nat /\ Len(tef) \in Nat /\ Len(wire) \in Nat
    BY TellTypes
  <2>3. \A i \in 1 .. Q : queuedTef[i].ts = C + i
    BY <1>1, <1>3 DEF UntoldInv, EventOf
  <2> HIDE DEF C, Q
  <2>6. \A i \in 1 .. Q : order[i] \in 1 .. Q
    BY DEF Bijection, Injection
  <2>7. Len(queuedTef') = Q
    BY <2>1, <2>2
  <2>8. \A i \in 1 .. Q : queuedTef'[i] = queuedTef[order[i]]
    BY <2>1
  <2>9. ASSUME NEW i \in 1 .. Q, NEW j \in 1 .. Q, i < j PROVE order[i] <= order[j]
    <3>1. SignedTs(queuedTef'[i].ts) <= SignedTs(queuedTef'[j].ts)
      BY <2>1, <2>7, <2>9 DEF SortedByTs
    <3>2. SignedTs(queuedTef[order[i]].ts) <= SignedTs(queuedTef[order[j]].ts)
      BY <2>8, <3>1
    <3>3. /\ order[i] \in 1 .. Q /\ order[j] \in 1 .. Q
          /\ order[i] \in Nat /\ order[j] \in Nat
      BY <2>6
    <3>4. Era(C + order[i]) = Era(C + order[j])
      BY <1>1, <1>3, <2>3, <3>3 DEF SameEra, Q
    <3>5. SignedTs(C + order[i]) <= SignedTs(C + order[j])
      BY <2>3, <3>2, <3>3
    <3>6. C + order[i] <= C + order[j]
      BY <2>2, <3>3, <3>4, <3>5, SameEraOrder
    <3> QED
      BY <2>2, <3>3, <3>6
  <2>10. \A i \in 1 .. Q : order[i] = i
    BY <2>2, <2>9, MonotoneBijection
  <2>11. \A i \in 1 .. Q : queuedTef'[i] = queuedTef[i]
    BY <2>8, <2>10
  <2>12. queuedTef = [i \in 1 .. Q |-> queuedTef[i]]
    BY TellTypes DEF Q
  <2>13. queuedTef' = [i \in 1 .. Q |-> queuedTef[i]]
    BY <2>1, <2>10
  <2> QED
    BY <2>12, <2>13
<1>4. UntoldInv'
  BY <1>1, <1>3 DEF UntoldInv, EventOf
<1> QED
  BY <1>2, <1>4

(* The frame of the oldest event is the next one of the wire.              *)
LEMMA TellDeliver ==
  ASSUME TypeOK, MaskInv, EchoInv, NumberInv, ToldInv, UntoldInv, IrqDeliver
  PROVE  ToldInv' /\ UntoldInv'
<1> SUFFICES ASSUME Kept' PROVE ToldInv' /\ UntoldInv'
  BY DEF ToldInv, UntoldInv
<1> DEFINE C == Len(confirmed)
           Q == Len(queuedTef)
           F == Head(queuedTef).fifo
<1>1. /\ queuedTef # <<>> /\ queuedTef' = Tail(queuedTef) /\ confirmed' = Release(F)
      /\ UNCHANGED <<link, wire, tef, fifoObj>> /\ Kept
      /\ late = {} /\ (F # None => F # xmit)
  BY DEF IrqDeliver, controller, Kept, LateWith
<1>2. C \in Nat /\ Q \in Nat /\ Len(tef) \in Nat /\ Len(wire) \in Nat
  BY TellTypes
<1>3. /\ Q # 0 /\ Len(queuedTef') = Q - 1 /\ Head(queuedTef) = queuedTef[1]
      /\ \A i \in 1 .. Len(queuedTef') : queuedTef'[i] = queuedTef[i + 1]
  BY <1>1, TellTypes, HeadTailProperties, EmptySeq
<1>4. F \in TxFifos \cup {None}
  <2> DEFINE Queued == [fifo : TxFifos \cup {None}, ts : Nat]
  <2>1. queuedTef \in Seq(Queued) /\ 1 \in 1 .. Len(queuedTef)
    BY <1>2, <1>3, TellTypes
  <2>2. Head(queuedTef) \in Queued
    <3> HIDE DEF Queued
    <3> QED
      BY <1>3, <2>1, ElementOfSeq
  <2> QED
    BY <2>2
<1> HIDE DEF F
<1>5. CASE link # "up"
  <2>1. F = None \/ echo[F] = None
    BY <1>4, <1>5 DEF EchoInv, IdleInv
  <2>2. confirmed' = confirmed
    BY <1>1, <2>1 DEF Release
  <2> QED
    BY <1>1, <1>5, <2>2 DEF ToldInv, UntoldInv
<1>6. CASE link = "up"
  <2>1. /\ Len(wire) = C + Q + Len(tef)
        /\ \A i \in 1 .. Q : EventOf(queuedTef[i], C + i)
        /\ \A i \in 1 .. Len(tef) : EventOf(tef[i], C + Q + i)
    BY <1>1, <1>6 DEF UntoldInv
  <2>2. 1 \in 1 .. Q /\ C + 1 \in 1 .. Len(wire)
    BY <1>2, <1>3, <2>1
  <2>3. fifoObj[F] = wire[C + 1] /\ wire[C + 1] >= 1 /\ wire[C + 1] \in 0 .. MaxFrames
    <3>1. EventOf(queuedTef[1], C + 1)
      BY <2>1, <2>2
    <3>2. fifoObj[F] = wire[C + 1]
      BY <1>3, <3>1 DEF EventOf, F
    <3>3. wire[C + 1] \in 0 .. MaxFrames /\ C + 1 <= wire[C + 1]
      BY <2>2, TellTypes, ElementOfSeq DEF NumberInv
    <3> QED
      BY <1>2, <3>2, <3>3
  <2>4. F \in QueuedFifos
    BY <1>3, <2>2, TellTypes DEF F
  <2>5. F # None /\ F # xmit
    <3>1. QueuedFifos \subseteq processed
      BY <1>6 DEF EchoInv, EventInv
    <3>2. F \in TxFifos
      BY <2>4, <3>1, PlacesApart
    <3> QED
      BY <1>1, <3>2, NoneIsNoFifo
  <2>6. echo[F] = wire[C + 1]
    BY <1>1, <1>6, <2>3, <2>4, <2>5 DEF EchoInv, SlotInv, InDoubt, OnController
  <2>7. confirmed' = Append(confirmed, wire[C + 1])
    BY <1>1, <2>3, <2>5, <2>6 DEF Release, None
  <2>8. /\ Len(confirmed') = C + 1 /\ confirmed'[C + 1] = wire[C + 1]
        /\ \A i \in 1 .. C : confirmed'[i] = confirmed[i]
    BY <2>3, <2>7, AppendProperties, TellTypes
  <2> HIDE DEF C, Q
  <2>9. ToldInv'
    <3>1. \A i \in 1 .. Len(confirmed') : confirmed'[i] = wire[i]
      <4> SUFFICES ASSUME NEW i \in 1 .. Len(confirmed') PROVE confirmed'[i] = wire[i]
        OBVIOUS
      <4>1. i = C + 1 \/ i \in 1 .. C
        BY <1>2, <2>8
      <4> QED
        BY <1>1, <2>8, <4>1 DEF ToldInv, C
    <3>2. Len(confirmed') <= Len(wire)
      BY <2>2, <2>8
    <3> QED
      BY <1>1, <3>1, <3>2 DEF ToldInv
  <2>10. ASSUME NEW i \in 1 .. Len(queuedTef')
         PROVE  EventOf(queuedTef'[i], Len(confirmed') + i)
    <3>1. i + 1 \in 1 .. Q /\ queuedTef'[i] = queuedTef[i + 1]
      BY <1>2, <1>3
    <3>2. EventOf(queuedTef[i + 1], C + (i + 1))
      BY <2>1, <3>1
    <3>3. Len(confirmed') + i = C + (i + 1)
      BY <1>2, <2>8
    <3> QED
      BY <3>1, <3>2, <3>3
  <2>11. ASSUME NEW i \in 1 .. Len(tef)
         PROVE  EventOf(tef[i], Len(confirmed') + Len(queuedTef') + i)
    <3>1. Len(confirmed') + Len(queuedTef') + i = C + Q + i
      BY <1>2, <1>3, <2>8
    <3> QED
      BY <2>1, <3>1
  <2>12. Len(wire) = Len(confirmed') + Len(queuedTef') + Len(tef)
    BY <1>2, <1>3, <2>1, <2>8
  <2>13. UntoldInv'
    BY <1>1, <2>10, <2>11, <2>12 DEF UntoldInv, EventOf
  <2> QED
    BY <2>9, <2>13
<1> QED
  BY <1>5, <1>6

(* Every step of the first session keeps the account.                      *)
LEMMA TellNext ==
  ASSUME TypeOK, MaskInv, QueueInv, EchoInv, NumberInv, ToldInv, UntoldInv, [Next]_vars,
         ~OneShot, MaxOpens <= 1, MaxLostFaults = 0, MaxSpiFaults = 0
  PROVE  ToldInv' /\ UntoldInv'
<1>1. CASE IrqTefCount \/ (IrqTefConservative /\ tef # <<>>)
  <2>1. tefSkew = 0
    BY DEF MaskInv, NoAborts
  <2>2. tef # <<>>
    <3>1. IrqTefCount => irq.left \in 1 .. Len(tef)
      BY DEF IrqTefCount, MaskInv, TefExpected, InIrq
    <3> QED
      BY <1>1, <3>1
  <2>3. /\ ReadTefEntry(0)
        /\ UNCHANGED <<link, wire, confirmed, fifoObj, late, straddled>>
    BY <1>1, <2>1, <2>2 DEF IrqTefCount, IrqTefConservative
  <2> QED
    BY <2>2, <2>3, TellReadTef
<1>2. CASE Open
  <2>1. used.opens = 0
    BY <1>2, OpensCount
  <2>2. /\ queuedTef = <<>> /\ wire = <<>> /\ confirmed = <<>>
    BY <2>1 DEF EchoInv, UnusedInv
  <2>3. /\ tef' = <<>> /\ UNCHANGED <<queuedTef, wire, confirmed>>
    BY <1>2 DEF Open
  <2> QED
    BY <2>2, <2>3 DEF ToldInv, UntoldInv
<1>3. CASE \/ XmitBusOff \/ Xmit \/ XmitPutEcho \/ BusErrorState \/ BusReceive
           \/ IrqStart \/ IrqLoop \/ IrqReadFlags \/ IrqReadRequests \/ IrqTef
           \/ IrqClear \/ (IrqTefConservative /\ tef = <<>>) \/ IrqState \/ IrqSleep
           \/ StopBegin \/ StopEnd \/ UNCHANGED vars
  <2>1. /\ UNCHANGED <<wire, confirmed, tef, fifoObj, late, straddled>>
        /\ link' = link \/ link' # "up"
    BY <1>3 DEF XmitBusOff, Xmit, XmitPutEcho, BusErrorState, BusReceive, IrqStart,
         IrqLoop, IrqReadFlags, IrqReadRequests, IrqTef, IrqClear,
         IrqTefConservative, IrqState, IrqSleep, StopBegin, StopEnd, vars, driver,
         controller, history
  <2>2. UNCHANGED queuedTef
    <3>1. CASE IrqClear
      BY <3>1 DEF IrqClear, InIrq, EchoInv, EventInv
    <3>2. CASE ~IrqClear
      BY <1>3, <3>2 DEF XmitBusOff, Xmit, XmitPutEcho, BusErrorState, BusReceive,
         IrqStart, IrqLoop, IrqReadFlags, IrqReadRequests, IrqTef,
         IrqTefConservative, IrqState, IrqSleep, StopBegin, StopEnd, vars, driver,
         controller, history
    <3> QED
      BY <3>1, <3>2
  <2> QED
    BY <2>1, <2>2, TellFrame
<1>4. ~BusAbort /\ ~IrqAbort
  BY DEF BusAbort, IrqAbort, MaskInv, NoAborts
<1> QED
  BY <1>1, <1>2, <1>3, <1>4, TellSpi, TellBus, TellSort, TellDeliver, NoFault
  DEF Next, IrqThread

(* The stack is told of exactly the frames that went out, in wire order,   *)
(* until an event is handled before start_xmit stored its frame or a pass  *)
(* sorts events from both sides of a change of sign of the time stamp, as  *)
(* long as no transfer fails and the interface is not opened again.        *)
THEOREM ConfirmedInOrder ==
  ASSUME ~OneShot, MaxOpens <= 1, MaxLostFaults = 0, MaxSpiFaults = 0
  PROVE  Spec => []ConfirmedFollowsWire
<1>1. Init => TellInv
  <2> SUFFICES ASSUME Init PROVE TellInv
    OBVIOUS
  <2>1. wire = <<>> /\ confirmed = <<>> /\ txreq = {} /\ link = "down"
    BY DEF Init
  <2> QED
    BY <2>1 DEF TellInv, NumberInv, ToldInv, UntoldInv
<1>2. TypeOK /\ MaskInv /\ Order /\ QueueInv /\ EchoInv /\ TellInv /\ [Next]_vars => TellInv'
  BY NumberNext, TellNext DEF TellInv
<1>3. TypeOK /\ TellInv => ConfirmedFollowsWire
  <2> SUFFICES ASSUME TypeOK, ToldInv, Kept PROVE IsPrefix(confirmed, wire)
    BY DEF ConfirmedFollowsWire, TellInv, Kept
  <2>1. Len(confirmed) \in Nat /\ Len(wire) \in Nat
    BY TellTypes
  <2>2. Len(confirmed) <= Len(wire) /\ \A i \in 1 .. Len(confirmed) : confirmed[i] = wire[i]
    BY DEF ToldInv
  <2> DEFINE n == Len(confirmed)
             p == SubSeq(confirmed, 1, n)
             q == SubSeq(wire, 1, n)
  <2>3. /\ p \in Seq(0 .. MaxFrames) /\ q \in Seq(0 .. MaxFrames)
        /\ Len(p) = n /\ Len(q) = n
        /\ \A i \in 1 .. n : p[i] = confirmed[i] /\ q[i] = wire[i]
    <3>1. /\ wire \in Seq(0 .. MaxFrames) /\ confirmed \in Seq(0 .. MaxFrames)
          /\ n \in Nat /\ n <= Len(wire) /\ 1 \in Int /\ n \in Int
      BY <2>1, <2>2, TellTypes
    <3>2. ASSUME NEW s \in Seq(0 .. MaxFrames), n <= Len(s)
          PROVE  /\ SubSeq(s, 1, n) \in Seq(0 .. MaxFrames) /\ Len(SubSeq(s, 1, n)) = n
                 /\ \A i \in 1 .. n : SubSeq(s, 1, n)[i] = s[i]
      <4> HIDE DEF n
      <4>1. \A i \in 1 .. n : s[i] \in 0 .. MaxFrames
        BY <3>1, <3>2, LenProperties, ElementOfSeq
      <4> QED
        BY <3>1, <4>1, SubSeqProperties
    <3> HIDE DEF n
    <3> QED
      BY <2>2, <3>1, <3>2 DEF n
  <2>4. p = q
    <3>1. \A i \in 1 .. n : p[i] = q[i]
      BY <2>2, <2>3
    <3> HIDE DEF p, q, n
    <3> QED
      BY <2>3, <3>1, SeqEqual
  <2> QED
    BY <2>2, <2>4 DEF IsPrefix
<1> QED
  BY <1>1, <1>2, <1>3, TypeCorrect, MasksCorrect, OrderCorrect, QueueCorrect, EchoCorrect,
     PTL DEF Spec

-----------------------------------------------------------------------------
(* The ordered queue.                                                      *)

(* A sequence that lists the FIFOs of a set, lowest first.                 *)
Lists(s, S) ==
  /\ s \in Seq(S)
  /\ \A i, j \in 1 .. Len(s) : i < j => s[i] < s[j]
  /\ \A f \in S : \E i \in 1 .. Len(s) : s[i] = f

(* It is as long as the set is large.                                      *)
LEMMA ListsBijection ==
  ASSUME NEW S, S \subseteq TxFifos, NEW s, Lists(s, S)
  PROVE  /\ s \in Bijection(1 .. Len(s), S)
         /\ Len(s) \in Nat /\ IsFiniteSet(S) /\ Cardinality(S) = Len(s)
<1>1. s \in Seq(S) /\ Len(s) \in Nat /\ s \in [1 .. Len(s) -> S]
  BY LenProperties DEF Lists
<1>2. \A i \in 1 .. Len(s) : s[i] \in Nat
  BY <1>1, TxFifosFinite
<1>3. ASSUME NEW i \in 1 .. Len(s), NEW j \in 1 .. Len(s), s[i] = s[j]
      PROVE  i = j
  <2>1. ~(i < j) /\ ~(j < i)
    BY <1>2, <1>3 DEF Lists
  <2>2. i \in Int /\ j \in Int
    OBVIOUS
  <2> QED
    BY <2>1, <2>2
<1>4. s \in Bijection(1 .. Len(s), S)
  BY <1>1, <1>3 DEF Lists, Bijection, Injection, Surjection, IsInjective
<1>5. IsFiniteSet(1 .. Len(s)) /\ Cardinality(1 .. Len(s)) = Len(s)
  <2>1. /\ IsFiniteSet(1 .. Len(s))
        /\ Cardinality(1 .. Len(s)) = IF 1 > Len(s) THEN 0 ELSE Len(s) - 1 + 1
    BY <1>1, FS_Interval
  <2> QED
    BY <1>1, <2>1
<1>6. ExistsBijection(1 .. Len(s), S)
  BY <1>4 DEF ExistsBijection
<1> QED
  BY <1>1, <1>4, <1>5, <1>6, FS_Bijection

(* There is only one, so the model's choice is it.                         *)
LEMMA ListIsChosen ==
  ASSUME NEW S, S \subseteq TxFifos, NEW s, Lists(s, S)
  PROVE  InFifoOrder(S) = s /\ Cardinality(S) = Len(s)
<1> DEFINE n == Len(s)
           D == 1 .. n
           Increasing(t) == \A i, j \in 1 .. n : i < j => t[i] < t[j]
<1>1. s \in Bijection(D, S) /\ n \in Nat /\ Cardinality(S) = n
  BY ListsBijection
<1>2. Increasing(s)
  BY DEF Lists
<1>3. ASSUME NEW t \in Bijection(D, S), Increasing(t)
      PROVE  t = s
  <2>1. /\ \A i \in D : t[i] \in S /\ t[i] \in Nat
        /\ \A i, j \in D : t[i] = t[j] => i = j
        /\ \A f \in S : \E i \in D : t[i] = f
        /\ t = [i \in D |-> t[i]]
    BY <1>3, TxFifosFinite DEF Bijection, Injection, Surjection, IsInjective
  <2>2. /\ \A i \in D : s[i] \in S /\ s[i] \in Nat
        /\ \A i, j \in D : s[i] = s[j] => i = j
        /\ \A f \in S : \E i \in D : s[i] = f
        /\ s = [i \in D |-> s[i]]
    BY <1>1, TxFifosFinite DEF Bijection, Injection, Surjection, IsInjective
  <2> DEFINE place == [i \in D |-> CHOOSE j \in D : s[j] = t[i]]
  <2>3. \A i \in D : place[i] \in D /\ s[place[i]] = t[i]
    BY <2>1, <2>2
  <2>4. \A j \in D : \E i \in D : place[i] = j
    <3> SUFFICES ASSUME NEW j \in D PROVE \E i \in D : place[i] = j
      OBVIOUS
    <3>1. PICK i \in D : t[i] = s[j]
      BY <2>1, <2>2
    <3> HIDE DEF place
    <3>2. place[i] = j
      BY <2>2, <2>3, <3>1
    <3> QED
      BY <3>2
  <2>5. place \in [D -> D]
    BY <2>3
  <2> HIDE DEF place
  <2>6. ASSUME NEW i \in D, NEW j \in D, place[i] = place[j] PROVE i = j
    <3>1. t[i] = t[j]
      BY <2>3, <2>6, Zenon
    <3> QED
      BY <2>1, <3>1, Zenon
  <2>7. place \in Bijection(D, D)
    BY <2>4, <2>5, <2>6 DEF Bijection, Injection, Surjection, IsInjective
  <2>8. ASSUME NEW i \in D, NEW j \in D, i < j PROVE place[i] <= place[j]
    <3>1. s[place[i]] < s[place[j]]
      BY <1>3, <2>3, <2>8
    <3>2. ~(place[j] < place[i])
      <4>1. place[j] < place[i] => s[place[j]] < s[place[i]]
        BY <1>2, <2>3
      <4>2. s[place[i]] \in Nat /\ s[place[j]] \in Nat
        BY <2>2, <2>3
      <4> QED
        BY <3>1, <4>1, <4>2
    <3> QED
      BY <1>1, <2>3, <3>2
  <2>9. \A i \in D : place[i] = i
    BY <1>1, <2>7, <2>8, MonotoneBijection
  <2>10. \A i \in D : t[i] = s[i]
    BY <2>3, <2>9
  <2> QED
    BY <2>1, <2>2, <2>10
<1> HIDE DEF Increasing
<1>4. InFifoOrder(S) = CHOOSE t \in Bijection(D, S) : Increasing(t)
  BY <1>1 DEF InFifoOrder, Increasing
<1> HIDE DEF D
<1> QED
  BY <1>1, <1>2, <1>3, <1>4

(* One more FIFO above the others.                                         *)
LEMMA ListsAppend ==
  ASSUME NEW S, S \subseteq TxFifos, NEW s, Lists(s, S),
         NEW f \in TxFifos, \A g \in S : g < f
  PROVE  Lists(Append(s, f), S \cup {f})
<1> DEFINE r == Append(s, f)
           T == S \cup {f}
<1>1. s \in Seq(S) /\ s \in Seq(T) /\ f \in T
  BY DEF Lists
<1>2. /\ r \in Seq(T) /\ Len(r) = Len(s) + 1 /\ Len(s) \in Nat
      /\ \A i \in 1 .. Len(s) : r[i] = s[i] /\ s[i] \in S
      /\ r[Len(s) + 1] = f
  <2>1. \A i \in 1 .. Len(s) : s[i] \in S
    BY <1>1, ElementOfSeq
  <2> HIDE DEF T
  <2> QED
    BY <1>1, <2>1, AppendProperties, LenProperties
<1> HIDE DEF r
<1>3. ASSUME NEW i \in 1 .. Len(r), NEW j \in 1 .. Len(r), i < j PROVE r[i] < r[j]
  <2>1. i \in 1 .. Len(s)
    BY <1>2, <1>3
  <2>2. CASE j \in 1 .. Len(s)
    BY <1>2, <1>3, <2>1, <2>2 DEF Lists
  <2>3. CASE j = Len(s) + 1
    BY <1>2, <2>1, <2>3
  <2> QED
    BY <1>2, <2>2, <2>3
<1>4. ASSUME NEW g \in T PROVE \E i \in 1 .. Len(r) : r[i] = g
  <2>1. CASE g = f
    <3>1. Len(s) + 1 \in 1 .. Len(r)
      BY <1>2
    <3> QED
      BY <1>2, <2>1, <3>1
  <2>2. CASE g \in S
    <3>1. PICK i \in 1 .. Len(s) : s[i] = g
      BY <2>2 DEF Lists
    <3>2. i \in 1 .. Len(r) /\ r[i] = g
      BY <1>2, <3>1
    <3> QED
      BY <3>2
  <2> QED
    BY <2>1, <2>2
<1> QED
  BY <1>2, <1>3, <1>4 DEF Lists, r

(* Without its lowest FIFO.                                                *)
LEMMA ListsTail ==
  ASSUME NEW S, S \subseteq TxFifos, S # {}, NEW s, Lists(s, S)
  PROVE  /\ s # <<>> /\ Head(s) = Min(S) /\ Lists(Tail(s), S \ {Min(S)})
<1>1. s \in Seq(S) /\ Len(s) \in Nat
  BY LenProperties DEF Lists
<1>2. \A i \in 1 .. Len(s) : s[i] \in S /\ s[i] \in Nat
  BY <1>1, ElementOfSeq, TxFifosFinite
<1>3. s # <<>> /\ Len(s) # 0
  <2>1. \E i \in 1 .. Len(s) : TRUE
    BY DEF Lists
  <2> QED
    BY <1>1, <2>1
<1> DEFINE r == Tail(s)
<1>4. /\ Head(s) = s[1] /\ r \in Seq(S) /\ Len(r) = Len(s) - 1
      /\ \A i \in 1 .. Len(r) : r[i] = s[i + 1]
  BY <1>1, <1>3, HeadTailProperties
<1> HIDE DEF r
<1>5. 1 \in 1 .. Len(s) /\ \A i \in 1 .. Len(r) : i + 1 \in 1 .. Len(s)
  BY <1>1, <1>3, <1>4
<1>6. \A i \in 1 .. Len(r) : s[1] < s[i + 1]
  <2> SUFFICES ASSUME NEW i \in 1 .. Len(r) PROVE s[1] < s[i + 1]
    OBVIOUS
  <2>1. i + 1 \in 1 .. Len(s) /\ 1 < i + 1
    BY <1>4, <1>5
  <2> QED
    BY <1>5, <2>1 DEF Lists
<1>7. \A i \in 1 .. Len(s) : i = 1 \/ i - 1 \in 1 .. Len(r)
  BY <1>1, <1>4
<1>8. s[1] = Min(S)
  <2>1. Min(S) \in S /\ Min(S) <= s[1] /\ Min(S) \in Nat
    BY <1>2, <1>5, MinOfFifos, TxFifosFinite
  <2>2. PICK i \in 1 .. Len(s) : s[i] = Min(S)
    BY <2>1 DEF Lists
  <2>3. i = 1 \/ s[1] < s[i]
    <3>1. CASE i - 1 \in 1 .. Len(r)
      <4>1. i = (i - 1) + 1
        BY <1>1
      <4> QED
        BY <1>6, <3>1, <4>1
    <3> QED
      BY <1>7, <3>1
  <2> QED
    BY <1>2, <1>5, <2>1, <2>2, <2>3
<1>9. Lists(r, S \ {s[1]})
  <2>1. \A i \in 1 .. Len(r) : r[i] \in S \ {s[1]}
    BY <1>2, <1>4, <1>5, <1>6
  <2>2. r \in Seq(S \ {s[1]})
    <3>1. r \in [1 .. Len(r) -> S \ {s[1]}] /\ Len(r) \in Nat
      BY <1>4, <2>1, LenProperties
    <3> QED
      BY <3>1, FunctionIsSeq
  <2>3. ASSUME NEW i \in 1 .. Len(r), NEW j \in 1 .. Len(r), i < j PROVE r[i] < r[j]
    <3>1. i + 1 \in 1 .. Len(s) /\ j + 1 \in 1 .. Len(s) /\ i + 1 < j + 1
      BY <1>5, <2>3
    <3> QED
      BY <1>4, <3>1 DEF Lists
  <2>4. ASSUME NEW f \in S \ {s[1]} PROVE \E i \in 1 .. Len(r) : r[i] = f
    <3>1. PICK i \in 1 .. Len(s) : s[i] = f
      BY DEF Lists
    <3>2. i - 1 \in 1 .. Len(r) /\ i = (i - 1) + 1
      BY <1>1, <1>7, <3>1
    <3> QED
      BY <1>4, <3>1, <3>2
  <2> QED
    BY <2>2, <2>3, <2>4 DEF Lists
<1> QED
  BY <1>3, <1>4, <1>8, <1>9 DEF r

(* Every set of transmit FIFOs can be listed: a smallest one that could    *)
(* not would still be without its highest FIFO.                            *)
LEMMA ListExists ==
  ASSUME NEW S, S \subseteq TxFifos
  PROVE  \E s : Lists(s, S)
<1> DEFINE Unlisted(T) == T \subseteq TxFifos /\ \A s : ~Lists(s, T)
           Sizes == {n \in Nat : \E T \in SUBSET TxFifos : Unlisted(T) /\ Cardinality(T) = n}
<1>1. \A T \in SUBSET TxFifos : IsFiniteSet(T) /\ Cardinality(T) \in Nat
  BY TxFifosFinite, FS_Subset, FS_CardinalityType
<1>2. SUFFICES ASSUME Unlisted(S) PROVE FALSE
  OBVIOUS
<1>3. Cardinality(S) \in Sizes
  BY <1>1, <1>2
<1>4. Min(Sizes) \in Sizes /\ \A n \in Sizes : Min(Sizes) <= n
  <2>1. Sizes \subseteq Nat
    OBVIOUS
  <2> HIDE DEF Sizes
  <2> QED
    BY <1>3, <2>1, MinOfNat
<1>5. PICK T \in SUBSET TxFifos : Unlisted(T) /\ Cardinality(T) = Min(Sizes)
  BY <1>4
<1>6. \A T2 \in SUBSET TxFifos : Unlisted(T2) => Cardinality(T) <= Cardinality(T2)
  <2> SUFFICES ASSUME NEW T2 \in SUBSET TxFifos, Unlisted(T2)
               PROVE  Cardinality(T2) \in Sizes
    BY <1>4, <1>5
  <2> QED
    BY <1>1
<1> HIDE DEF Sizes
<1>7. T # {}
  <2>1. Lists(<<>>, {})
    BY DEF Lists
  <2> QED
    BY <1>5, <2>1
<1> DEFINE f == Max(T)
           R == T \ {f}
<1>8. f \in T /\ \A g \in T : g <= f
  <2>1. T \subseteq Nat /\ TxFifoStart + NTxFifos - 1 \in Nat
    BY TxFifosFinite
  <2>2. \A g \in T : g <= TxFifoStart + NTxFifos - 1
    BY DEF TxFifos
  <2> QED
    BY <1>7, <2>1, <2>2, MaxOfNat
<1> HIDE DEF f
<1>9. Cardinality(R) = Cardinality(T) - 1 /\ Cardinality(T) \in Nat
  BY <1>1, <1>8, FS_RemoveElement
<1>10. R \in SUBSET TxFifos /\ f \in TxFifos /\ R \cup {f} = T
  BY <1>8
<1>11. \A g \in R : g < f
  <2> SUFFICES ASSUME NEW g \in T, g # f PROVE g < f
    OBVIOUS
  <2>1. g \in Nat /\ f \in Nat /\ g <= f
    BY <1>8, <1>10, TxFifosFinite
  <2> QED
    BY <2>1
<1>12. PICK s : Lists(s, R)
  <2>1. ~Unlisted(R)
    <3> HIDE DEF R, Unlisted
    <3> QED
      BY <1>6, <1>9, <1>10
  <2> QED
    BY <1>10, <2>1
<1> HIDE DEF R
<1>13. Lists(Append(s, f), T)
  BY <1>10, <1>11, <1>12, ListsAppend
<1> QED
  BY <1>5, <1>13

(* Frame by frame, what waits: the requested FIFOs, then the messages.     *)
Waiting(s, obj, messages) ==
  [i \in 1 .. Len(s) |-> obj[s[i]]] \o [i \in 1 .. Len(messages) |-> messages[i].frame]
Messages == [fifo : TxFifos, frame : Frames]

(* The requested frames come first, then the queued ones.                  *)
LEMMA WaitingElements ==
  ASSUME NEW s \in Seq(TxFifos), NEW obj \in [TxFifos -> 0 .. MaxFrames],
         NEW q \in Seq(Messages)
  PROVE  /\ Waiting(s, obj, q) \in Seq(0 .. MaxFrames)
         /\ Len(s) \in Nat /\ Len(q) \in Nat
         /\ Len(Waiting(s, obj, q)) = Len(s) + Len(q)
         /\ \A i \in 1 .. Len(s) : Waiting(s, obj, q)[i] = obj[s[i]]
         /\ \A k \in 1 .. Len(q) : Waiting(s, obj, q)[Len(s) + k] = q[k].frame
<1> DEFINE a == [i \in 1 .. Len(s) |-> obj[s[i]]]
           b == [i \in 1 .. Len(q) |-> q[i].frame]
<1>1. Len(s) \in Nat /\ Len(q) \in Nat
  BY LenProperties
<1>2. a \in Seq(0 .. MaxFrames) /\ Len(a) = Len(s) /\ \A i \in 1 .. Len(s) : a[i] = obj[s[i]]
  <2>1. \A i \in 1 .. Len(s) : obj[s[i]] \in 0 .. MaxFrames
    BY ElementOfSeq
  <2>2. a \in [1 .. Len(s) -> 0 .. MaxFrames]
    BY <2>1
  <2>3. \A i \in 1 .. Len(s) : a[i] = obj[s[i]]
    OBVIOUS
  <2> HIDE DEF a
  <2> QED
    BY <1>1, <2>2, <2>3, FunctionIsSeq
<1>3. b \in Seq(0 .. MaxFrames) /\ Len(b) = Len(q) /\ \A i \in 1 .. Len(q) : b[i] = q[i].frame
  <2>1. \A i \in 1 .. Len(q) : q[i].frame \in 0 .. MaxFrames
    <3>1. \A i \in 1 .. Len(q) : q[i] \in Messages
      BY ElementOfSeq
    <3> QED
      BY <3>1 DEF Messages, Frames
  <2>2. b \in [1 .. Len(q) -> 0 .. MaxFrames]
    BY <2>1
  <2>3. \A i \in 1 .. Len(q) : b[i] = q[i].frame
    OBVIOUS
  <2> HIDE DEF b
  <2> QED
    BY <1>1, <2>2, <2>3, FunctionIsSeq
<1>4. Waiting(s, obj, q) = a \o b
  BY DEF Waiting
<1> HIDE DEF a, b
<1>5. /\ a \o b \in Seq(0 .. MaxFrames) /\ Len(a \o b) = Len(s) + Len(q)
      /\ \A i \in 1 .. Len(s) + Len(q) :
           (a \o b)[i] = IF i <= Len(s) THEN a[i] ELSE b[i - Len(s)]
  <2>1. /\ a \o b \in Seq(0 .. MaxFrames) /\ Len(a \o b) = Len(a) + Len(b)
        /\ \A i \in 1 .. Len(a) + Len(b) :
             (a \o b)[i] = IF i <= Len(a) THEN a[i] ELSE b[i - Len(a)]
    <3>1. a \in Seq(0 .. MaxFrames) /\ b \in Seq(0 .. MaxFrames)
      BY <1>2, <1>3
    <3> QED
      BY <3>1, ConcatProperties, Zenon
  <2>2. Len(a) = Len(s) /\ Len(b) = Len(q)
    BY <1>2, <1>3
  <2> QED
    BY <2>1, <2>2, Zenon
<1>6. \A i \in 1 .. Len(s) : (a \o b)[i] = a[i]
  BY <1>1, <1>5
<1>7. \A k \in 1 .. Len(q) : (a \o b)[Len(s) + k] = b[k]
  <2> SUFFICES ASSUME NEW k \in 1 .. Len(q) PROVE (a \o b)[Len(s) + k] = b[k]
    OBVIOUS
  <2>1. Len(s) + k \in 1 .. Len(s) + Len(q) /\ ~(Len(s) + k <= Len(s)) /\ Len(s) + k - Len(s) = k
    BY <1>1
  <2> QED
    BY <1>5, <2>1
<1> QED
  BY <1>1, <1>2, <1>3, <1>4, <1>5, <1>6, <1>7

(* A list of transmit FIFOs is a sequence of them.                         *)
LEMMA ListType ==
  ASSUME NEW S, S \subseteq TxFifos, NEW s, Lists(s, S)
  PROVE  s \in Seq(TxFifos)
<1>1. s \in Seq(S) /\ Len(s) \in Nat
  BY LenProperties DEF Lists
<1>2. \A i \in 1 .. Len(s) : s[i] \in TxFifos
  BY <1>1, ElementOfSeq
<1>3. s \in [1 .. Len(s) -> TxFifos]
  BY <1>1, <1>2
<1> QED
  BY <1>1, <1>3, FunctionIsSeq

(* What waits, by a list of the requested FIFOs: in a state ...            *)
LEMMA WaitingIs ==
  ASSUME TypeOK, NEW s, Lists(s, txreq)
  PROVE  /\ WaitingFrames = Waiting(s, fifoObj, spi)
         /\ s \in Seq(TxFifos) /\ spi \in Seq(Messages)
         /\ fifoObj \in [TxFifos -> 0 .. MaxFrames]
<1>1. txreq \subseteq TxFifos
  BY DEF TypeOK, ControllerTypeOK
<1>2. InFifoOrder(txreq) = s /\ Cardinality(txreq) = Len(s)
  BY <1>1, ListIsChosen
<1>3. WaitingFrames = Waiting(s, fifoObj, spi)
  BY <1>2 DEF WaitingFrames, Waiting
<1> QED
  BY <1>1, <1>3, ListType DEF TypeOK, ControllerTypeOK, Messages

(* ... and after a step.                                                   *)
LEMMA WaitingBecomes ==
  ASSUME TypeOK', NEW s, Lists(s, txreq')
  PROVE  /\ WaitingFrames' = Waiting(s, fifoObj', spi')
         /\ s \in Seq(TxFifos) /\ spi' \in Seq(Messages)
         /\ fifoObj' \in [TxFifos -> 0 .. MaxFrames]
<1>1. txreq' \subseteq TxFifos
  BY DEF TypeOK, ControllerTypeOK
<1>2. InFifoOrder(txreq') = s /\ Cardinality(txreq') = Len(s)
  BY <1>1, ListIsChosen
<1>3. WaitingFrames' = Waiting(s, fifoObj', spi')
  BY <1>2 DEF WaitingFrames, Waiting
<1> QED
  BY <1>1, <1>3, ListType DEF TypeOK, ControllerTypeOK, Messages

(* There is room for one more when start_xmit finds a FIFO: those that     *)
(* wait are in other FIFOs.                                                *)
LEMMA RoomForFrame ==
  ASSUME TypeOK, MaskInv, NEW F \in TxFifos, F \notin submitted,
         NEW s, Lists(s, txreq)
  PROVE  Len(s) + Len(spi) < NTxFifos
<1> DEFINE n == Len(s) + Len(spi)
           others == TxFifos \ {F}
           place == [i \in 1 .. n |-> IF i <= Len(s) THEN s[i] ELSE spi[i - Len(s)].fifo]
<1>1. s \in Bijection(1 .. Len(s), txreq) /\ Len(s) \in Nat /\ Len(spi) \in Nat
  BY ListsBijection, OrderTypes
<1>2. /\ \A i \in 1 .. Len(s) : s[i] \in txreq
      /\ \A i, j \in 1 .. Len(s) : s[i] = s[j] => i = j
  BY <1>1 DEF Bijection, Injection, IsInjective
<1>3. /\ \A k \in 1 .. Len(spi) : spi[k].fifo \in SpiFifos
      /\ \A k, l \in 1 .. Len(spi) : spi[k].fifo = spi[l].fifo => k = l
  BY SpiMembers DEF MaskInv, FifoNotReused, FifosDistinct
<1>4. txreq \cap SpiFifos = {} /\ txreq \cup SpiFifos \subseteq others
  BY PlacesApart
<1>5. \A i \in 1 .. n : i \in 1 .. Len(s) \/ (~(i <= Len(s)) /\ i - Len(s) \in 1 .. Len(spi))
  BY <1>1
<1> HIDE DEF n, others
<1>6. \A i \in 1 .. n :
        \/ i \in 1 .. Len(s) /\ place[i] = s[i]
        \/ i - Len(s) \in 1 .. Len(spi) /\ place[i] = spi[i - Len(s)].fifo
  BY <1>5
<1> HIDE DEF place
<1>7. \A i \in 1 .. n : place[i] \in others
  BY <1>2, <1>3, <1>4, <1>6
<1>8. ASSUME NEW i \in 1 .. n, NEW j \in 1 .. n, place[i] = place[j] PROVE i = j
  <2>1. CASE i \in 1 .. Len(s) /\ place[i] = s[i]
    <3>1. j \in 1 .. Len(s) /\ place[j] = s[j]
      BY <1>2, <1>3, <1>4, <1>6, <1>8, <2>1
    <3> QED
      BY <1>2, <1>8, <2>1, <3>1
  <2>2. CASE i - Len(s) \in 1 .. Len(spi) /\ place[i] = spi[i - Len(s)].fifo
    <3>1. j - Len(s) \in 1 .. Len(spi) /\ place[j] = spi[j - Len(s)].fifo
      BY <1>2, <1>3, <1>4, <1>6, <1>8, <2>2
    <3>2. i - Len(s) = j - Len(s)
      BY <1>3, <1>8, <2>2, <3>1
    <3> QED
      BY <1>1, <3>2 DEF n
  <2> QED
    BY <1>6, <2>1, <2>2
<1>9. place \in Injection(1 .. n, others)
  <2>1. place \in [1 .. n -> others]
    BY <1>7 DEF place
  <2> QED
    BY <1>8, <2>1 DEF Injection, IsInjective
<1>10. IsFiniteSet(others) /\ Cardinality(others) = NTxFifos - 1
  <2>1. IsFiniteSet(TxFifos) /\ Cardinality(TxFifos) = NTxFifos
    <3>1. /\ IsFiniteSet(TxFifoStart .. TxFifoStart + NTxFifos - 1)
          /\ Cardinality(TxFifoStart .. TxFifoStart + NTxFifos - 1)
               = IF TxFifoStart > TxFifoStart + NTxFifos - 1 THEN 0
                 ELSE TxFifoStart + NTxFifos - 1 - TxFifoStart + 1
      BY FS_Interval
    <3> QED
      BY <3>1 DEF TxFifos
  <2> QED
    BY <2>1, FS_RemoveElement DEF others
<1>11. Cardinality(1 .. n) <= Cardinality(others)
  BY <1>9, <1>10, FS_Injection
<1>12. Cardinality(1 .. n) = n /\ n \in Nat
  <2>1. n \in Nat
    BY <1>1 DEF n
  <2>2. Cardinality(1 .. n) = IF 1 > n THEN 0 ELSE n - 1 + 1
    BY <2>1, FS_Interval
  <2> QED
    BY <2>1, <2>2
<1> QED
  BY <1>10, <1>11, <1>12 DEF n

(* start_xmit accepts a frame, unless the SPI core refuses the message.    *)
LEMMA QueueAccepts ==
  ASSUME TypeOK, TypeOK', MaskInv, Xmit
  PROVE  Ordered!Accept \/ UNCHANGED Ordered!vars
<1> DEFINE F == NextFifo
           msg == [fifo |-> F, frame |-> next]
<1>1. F \in TxFifos /\ F \notin submitted
  <2>1. F \in TxFifos /\ \A f \in Taken : f < F
    BY NextFifoIsFree DEF Xmit, Taken, TypeOK, MasksTypeOK
  <2>2. F \in Nat
    BY <2>1, TxFifosFinite
  <2> HIDE DEF F
  <2> QED
    BY <2>1, <2>2 DEF Taken
<1>2. /\ next \in Frames /\ UNCHANGED <<wire, txreq, fifoObj>>
      /\ \/ spi' = spi /\ next' = next
         \/ spi' = Append(spi, msg) /\ next' = next + 1
  BY DEF Xmit, MayXmit, controller
<1> HIDE DEF F
<1>3. txreq \subseteq TxFifos
  BY OrderTypes
<1>4. PICK s : Lists(s, txreq)
  BY <1>3, ListExists
<1>5. /\ WaitingFrames = Waiting(s, fifoObj, spi)
      /\ WaitingFrames' = Waiting(s, fifoObj', spi')
      /\ s \in Seq(TxFifos) /\ spi \in Seq(Messages) /\ spi' \in Seq(Messages)
      /\ fifoObj \in [TxFifos -> 0 .. MaxFrames]
  BY <1>2, <1>4, WaitingIs, WaitingBecomes
<1>6. CASE spi' = spi /\ next' = next
  <2>1. WaitingFrames' = WaitingFrames /\ next' - 1 = next - 1 /\ wire' = wire
    BY <1>2, <1>5, <1>6
  <2> QED
    BY <2>1 DEF Ordered!vars
<1>7. CASE spi' = Append(spi, msg) /\ next' = next + 1
  <2> DEFINE w == Waiting(s, fifoObj, spi)
             v == Waiting(s, fifoObj, spi')
             n == Len(s) + Len(spi)
  <2>1. msg \in Messages /\ msg.frame = next /\ next \in 0 .. MaxFrames
    BY <1>1, <1>2 DEF Messages, Frames
  <2>2. /\ Len(spi') = Len(spi) + 1
        /\ \A k \in 1 .. Len(spi) : spi'[k] = spi[k]
        /\ spi'[Len(spi) + 1] = msg
    <3> HIDE DEF msg
    <3> QED
      BY <1>5, <1>7, <2>1, AppendProperties
  <2> HIDE DEF msg
  <2>3. /\ w \in Seq(0 .. MaxFrames) /\ Len(w) = n /\ Len(s) \in Nat /\ Len(spi) \in Nat
        /\ \A i \in 1 .. Len(s) : w[i] = fifoObj[s[i]]
        /\ \A k \in 1 .. Len(spi) : w[Len(s) + k] = spi[k].frame
    BY <1>5, WaitingElements
  <2>4. /\ v \in Seq(0 .. MaxFrames) /\ Len(v) = n + 1
        /\ \A i \in 1 .. Len(s) : v[i] = fifoObj[s[i]]
        /\ \A k \in 1 .. Len(spi') : v[Len(s) + k] = spi'[k].frame
    <3>1. /\ v \in Seq(0 .. MaxFrames) /\ Len(v) = Len(s) + Len(spi')
          /\ \A i \in 1 .. Len(s) : v[i] = fifoObj[s[i]]
          /\ \A k \in 1 .. Len(spi') : v[Len(s) + k] = spi'[k].frame
      BY <1>5, WaitingElements
    <3>2. Len(spi') = Len(spi) + 1 /\ Len(s) \in Nat /\ Len(spi) \in Nat
      BY <2>2, <2>3
    <3>3. Len(s) + Len(spi') = n + 1
      BY <3>2
    <3> HIDE DEF v, n
    <3> QED
      BY <3>1, <3>3, Zenon
  <2> HIDE DEF w, v
  <2>5. /\ Append(w, next) \in Seq(0 .. MaxFrames) /\ Len(Append(w, next)) = n + 1
        /\ \A i \in 1 .. n : Append(w, next)[i] = w[i]
        /\ Append(w, next)[n + 1] = next
    <3>1. w \in Seq(0 .. MaxFrames) /\ Len(w) = n /\ next \in 0 .. MaxFrames
      BY <2>1, <2>3
    <3>2. /\ Append(w, next) \in Seq(0 .. MaxFrames) /\ Len(Append(w, next)) = Len(w) + 1
          /\ \A i \in 1 .. Len(w) : Append(w, next)[i] = w[i]
          /\ Append(w, next)[Len(w) + 1] = next
      BY <3>1, AppendProperties
    <3> HIDE DEF n
    <3> QED
      BY <3>1, <3>2, Zenon
  <2>6. \A i \in 1 .. n + 1 : v[i] = Append(w, next)[i]
    <3> SUFFICES ASSUME NEW i \in 1 .. n + 1 PROVE v[i] = Append(w, next)[i]
      OBVIOUS
    <3>1. CASE i \in 1 .. Len(s)
      <4>1. i \in 1 .. n
        BY <2>3, <3>1
      <4>2. Append(w, next)[i] = w[i]
        BY <2>5, <4>1
      <4>3. v[i] = w[i]
        BY <2>3, <2>4, <3>1
      <4> QED
        BY <4>2, <4>3
    <3>2. CASE i - Len(s) \in 1 .. Len(spi)
      <4> DEFINE k == i - Len(s)
      <4>1. i \in 1 .. n /\ k \in 1 .. Len(spi') /\ Len(s) + k = i
        BY <2>2, <2>3, <3>2
      <4>2. v[i] = spi'[k].frame /\ w[i] = spi[k].frame /\ spi'[k] = spi[k]
        BY <2>2, <2>3, <2>4, <3>2, <4>1
      <4> QED
        BY <2>5, <4>1, <4>2
    <3>3. CASE i = n + 1
      <4>1. Len(spi) + 1 \in 1 .. Len(spi') /\ Len(s) + (Len(spi) + 1) = i
        BY <2>2, <2>3, <3>3
      <4>2. v[i] = spi'[Len(spi) + 1].frame
        BY <2>4, <4>1
      <4> QED
        BY <2>1, <2>2, <2>5, <3>3, <4>2
    <3>4. i \in 1 .. Len(s) \/ i - Len(s) \in 1 .. Len(spi) \/ i = n + 1
      <4>1. Len(s) \in Nat /\ Len(spi) \in Nat
        BY <2>3
      <4> QED
        BY <4>1
    <3> QED
      BY <3>1, <3>2, <3>3, <3>4
  <2>7. v = Append(w, next)
    BY <2>4, <2>5, <2>6, SeqEqual
  <2>8. Len(w) < NTxFifos
    BY <1>1, <1>4, <2>3, RoomForFrame
  <2>9. WaitingFrames = w /\ WaitingFrames' = v
    BY <1>2, <1>5 DEF w, v
  <2>10. next' - 1 = next /\ (next - 1) + 1 = next
    BY <1>2, <1>7 DEF Frames
  <2> HIDE DEF n
  <2> QED
    BY <1>2, <2>7, <2>8, <2>9, <2>10 DEF Ordered!Accept
<1> QED
  BY <1>2, <1>6, <1>7

(* The SPI core runs the oldest message: its frame leaves the messages and *)
(* is in the highest requested FIFO, where it was in the queue before.     *)
LEMMA QueueMoves ==
  ASSUME TypeOK, TypeOK', MaskInv, Order, SpiComplete, MaxLostFaults = 0
  PROVE  UNCHANGED Ordered!vars
<1> DEFINE F == spi[1].fifo
           M == spi[1].frame
<1>1. /\ Head(spi) = spi[1] /\ Len(spi) \in Nat \ {0} /\ spi' = Tail(spi)
      /\ Len(spi') = Len(spi) - 1
      /\ \A k \in 1 .. Len(spi') : k + 1 \in 1 .. Len(spi) /\ spi'[k] = spi[k + 1]
  <2>1. spi \in Seq([fifo : TxFifos, frame : Frames]) /\ spi # <<>> /\ spi' = Tail(spi)
    BY OrderTypes DEF SpiComplete, Requested
  <2>2. /\ Len(spi) \in Nat \ {0} /\ Len(spi') = Len(spi) - 1
        /\ \A k \in 1 .. Len(spi') : spi'[k] = spi[k + 1]
    BY <2>1, HeadTailProperties, EmptySeq
  <2> QED
    BY <2>1, <2>2
<1>2. /\ fifoObj' = [fifoObj EXCEPT ![F] = M] /\ txreq' = txreq \cup {F}
      /\ UNCHANGED <<wire, next>>
  BY <1>1, NoLostFault DEF SpiComplete, Requested
<1>3. 1 \in 1 .. Len(spi) /\ F \in TxFifos /\ F \in Nat /\ txreq \subseteq TxFifos
  BY <1>1, OrderTypes
<1>4. \A f \in txreq : f < F /\ f # F
  BY <1>3, OrderTypes DEF Order, OrderInv
<1> HIDE DEF F, M
<1>5. /\ fifoObj'[F] = M
      /\ \A f \in txreq : fifoObj'[f] = fifoObj[f]
  BY <1>2, <1>3, <1>4, OrderTypes
<1>6. PICK s : Lists(s, txreq)
  BY <1>3, ListExists
<1> DEFINE r == Append(s, F)
<1>7. Lists(r, txreq')
  BY <1>2, <1>3, <1>4, <1>6, ListsAppend
<1>8. /\ s \in Seq(txreq) /\ s \in Seq(TxFifos) /\ spi \in Seq(Messages)
      /\ WaitingFrames = Waiting(s, fifoObj, spi)
      /\ fifoObj \in [TxFifos -> 0 .. MaxFrames]
  BY <1>6, WaitingIs DEF Lists
<1>9. /\ Len(s) \in Nat /\ Len(r) = Len(s) + 1 /\ r[Len(s) + 1] = F
      /\ \A i \in 1 .. Len(s) : r[i] = s[i] /\ s[i] \in txreq
  <2>1. /\ Len(r) = Len(s) + 1 /\ r[Len(s) + 1] = F
        /\ \A i \in 1 .. Len(s) : r[i] = s[i]
    BY <1>3, <1>8, AppendProperties
  <2> QED
    BY <1>8, <2>1, LenProperties, ElementOfSeq
<1> HIDE DEF r
<1>10. /\ r \in Seq(TxFifos) /\ spi' \in Seq(Messages)
       /\ WaitingFrames' = Waiting(r, fifoObj', spi')
       /\ fifoObj' \in [TxFifos -> 0 .. MaxFrames]
  BY <1>7, WaitingBecomes
<1> DEFINE w == Waiting(s, fifoObj, spi)
           v == Waiting(r, fifoObj', spi')
           n == Len(s) + Len(spi)
<1>11. /\ w \in Seq(0 .. MaxFrames) /\ Len(w) = n
       /\ \A i \in 1 .. Len(s) : w[i] = fifoObj[s[i]]
       /\ \A k \in 1 .. Len(spi) : w[Len(s) + k] = spi[k].frame
  BY <1>8, WaitingElements
<1>12. /\ v \in Seq(0 .. MaxFrames) /\ Len(v) = Len(r) + Len(spi')
       /\ \A i \in 1 .. Len(r) : v[i] = fifoObj'[r[i]]
       /\ \A k \in 1 .. Len(spi') : v[Len(r) + k] = spi'[k].frame
  BY <1>10, WaitingElements
<1>13. WaitingFrames = w /\ WaitingFrames' = v
  BY <1>8, <1>10
<1> HIDE DEF w, v
<1>14. Len(r) + Len(spi') = n
  BY <1>1, <1>9
<1>15. \A i \in 1 .. n : v[i] = w[i]
  <2> SUFFICES ASSUME NEW i \in 1 .. n PROVE v[i] = w[i]
    OBVIOUS
  <2>1. CASE i \in 1 .. Len(s)
    <3>1. i \in 1 .. Len(r)
      BY <1>9, <2>1
    <3>2. v[i] = fifoObj'[s[i]] /\ w[i] = fifoObj[s[i]] /\ s[i] \in txreq
      BY <1>9, <1>11, <1>12, <2>1, <3>1
    <3> QED
      BY <1>5, <3>2
  <2>2. CASE i = Len(s) + 1
    <3>1. i \in 1 .. Len(r) /\ v[i] = M
      <4>1. i \in 1 .. Len(r)
        BY <1>9, <2>2
      <4>2. v[i] = fifoObj'[F]
        BY <1>9, <1>12, <2>2, <4>1
      <4> QED
        BY <1>5, <4>1, <4>2
    <3>2. w[i] = spi[1].frame
      BY <1>3, <1>11, <2>2
    <3> QED
      BY <3>1, <3>2 DEF M
  <2>3. CASE i - Len(r) \in 1 .. Len(spi')
    <3> DEFINE k == i - Len(r)
    <3>1. /\ k \in 1 .. Len(spi') /\ Len(r) + k = i
          /\ k + 1 \in 1 .. Len(spi) /\ Len(s) + (k + 1) = i /\ spi'[k] = spi[k + 1]
      <4>1. k + 1 \in 1 .. Len(spi) /\ spi'[k] = spi[k + 1]
        BY <1>1, <2>3
      <4>2. Len(r) = Len(s) + 1 /\ Len(s) \in Nat
        BY <1>9
      <4>3. Len(r) + k = i /\ Len(s) + (k + 1) = i
        BY <4>2
      <4> QED
        BY <2>3, <4>1, <4>3
    <3> HIDE DEF k
    <3>2. v[i] = spi'[k].frame /\ w[i] = spi[k + 1].frame
      BY <1>11, <1>12, <3>1
    <3> QED
      BY <3>1, <3>2
  <2>4. i \in 1 .. Len(s) \/ i = Len(s) + 1 \/ i - Len(r) \in 1 .. Len(spi')
    <3>1. Len(s) \in Nat /\ Len(spi) \in Nat /\ Len(r) = Len(s) + 1 /\ Len(spi') = Len(spi) - 1
      BY <1>1, <1>9
    <3> QED
      BY <3>1
  <2> QED
    BY <2>1, <2>2, <2>3, <2>4
<1>16. v = w
  <2>1. Len(v) = n
    BY <1>12, <1>14
  <2> QED
    BY <1>11, <1>12, <1>15, <2>1, SeqEqual
<1>17. WaitingFrames' = WaitingFrames /\ next' - 1 = next - 1 /\ wire' = wire
  BY <1>2, <1>13, <1>16
<1> QED
  BY <1>17 DEF Ordered!vars

(* The bus sends the frame at the head of the queue.                       *)
LEMMA QueueTransmits ==
  ASSUME TypeOK, TypeOK', BusSend
  PROVE  Ordered!Transmit
<1> DEFINE F == Min(txreq)
<1>1. /\ wire' = Append(wire, fifoObj[F]) /\ txreq' = txreq \ {F} /\ txreq # {}
      /\ spi' = spi /\ next' = next /\ fifoObj' = fifoObj
  BY DEF BusSend, MayArbitrate, FirstByPriority, driver
<1>2. txreq \subseteq TxFifos
  BY OrderTypes
<1>3. PICK s : Lists(s, txreq)
  BY <1>2, ListExists
<1> DEFINE r == Tail(s)
<1>4. s # <<>> /\ Head(s) = F /\ Lists(r, txreq')
  BY <1>1, <1>2, <1>3, ListsTail
<1>5. /\ s \in Seq(TxFifos) /\ spi \in Seq(Messages)
      /\ WaitingFrames = Waiting(s, fifoObj, spi)
      /\ fifoObj \in [TxFifos -> 0 .. MaxFrames]
  BY <1>3, WaitingIs
<1>6. /\ Len(s) \in Nat \ {0} /\ s[1] = F /\ r \in Seq(TxFifos) /\ Len(r) = Len(s) - 1
      /\ \A i \in 1 .. Len(r) : r[i] = s[i + 1]
  <2>1. Len(s) \in Nat /\ Len(s) # 0
    BY <1>4, <1>5, LenProperties, EmptySeq
  <2> QED
    BY <1>4, <1>5, <2>1, HeadTailProperties
<1> HIDE DEF r, F
<1>7. WaitingFrames' = Waiting(r, fifoObj, spi)
  BY <1>1, <1>4, WaitingBecomes
<1> DEFINE w == Waiting(s, fifoObj, spi)
           v == Waiting(r, fifoObj, spi)
           n == Len(r) + Len(spi)
<1>8. /\ w \in Seq(0 .. MaxFrames) /\ Len(w) = Len(s) + Len(spi) /\ Len(spi) \in Nat
      /\ \A i \in 1 .. Len(s) : w[i] = fifoObj[s[i]]
      /\ \A k \in 1 .. Len(spi) : w[Len(s) + k] = spi[k].frame
  BY <1>5, WaitingElements
<1>9. /\ v \in Seq(0 .. MaxFrames) /\ Len(v) = n /\ Len(r) \in Nat
      /\ \A i \in 1 .. Len(r) : v[i] = fifoObj[r[i]]
      /\ \A k \in 1 .. Len(spi) : v[Len(r) + k] = spi[k].frame
  BY <1>5, <1>6, WaitingElements
<1>10. WaitingFrames = w /\ WaitingFrames' = v
  BY <1>5, <1>7
<1> HIDE DEF w, v
<1>11. Len(s) = Len(r) + 1 /\ Len(w) = n + 1 /\ n \in Nat /\ 1 \in 1 .. Len(s)
  BY <1>6, <1>8, <1>9
<1>12. w # <<>> /\ Head(w) = fifoObj[F]
  <2>1. Len(w) # 0
    BY <1>11
  <2>2. w # <<>>
    BY <1>8, <2>1, EmptySeq
  <2>3. Head(w) = w[1]
    BY <1>8, <2>2, HeadTailProperties
  <2>4. w[1] = fifoObj[F]
    BY <1>6, <1>8, <1>11
  <2> QED
    BY <2>2, <2>3, <2>4
<1>13. /\ Tail(w) \in Seq(0 .. MaxFrames) /\ Len(Tail(w)) = n
       /\ \A i \in 1 .. n : Tail(w)[i] = w[i + 1]
  <2>1. /\ Tail(w) \in Seq(0 .. MaxFrames) /\ Len(Tail(w)) = Len(w) - 1
        /\ \A i \in 1 .. Len(Tail(w)) : Tail(w)[i] = w[i + 1]
    BY <1>8, <1>12, HeadTailProperties
  <2>2. Len(w) - 1 = n
    BY <1>11
  <2> QED
    BY <2>1, <2>2, Zenon
<1>14. \A i \in 1 .. n : v[i] = w[i + 1]
  <2> SUFFICES ASSUME NEW i \in 1 .. n PROVE v[i] = w[i + 1]
    OBVIOUS
  <2>1. CASE i \in 1 .. Len(r)
    <3>1. i + 1 \in 1 .. Len(s)
      BY <1>6, <1>9, <2>1
    <3>2. v[i] = fifoObj[r[i]] /\ w[i + 1] = fifoObj[s[i + 1]]
      BY <1>8, <1>9, <2>1, <3>1
    <3>3. r[i] = s[i + 1]
      BY <1>6, <2>1
    <3> QED
      BY <3>2, <3>3
  <2>2. CASE i - Len(r) \in 1 .. Len(spi)
    <3> DEFINE k == i - Len(r)
    <3>1. k \in 1 .. Len(spi) /\ Len(r) + k = i /\ Len(s) + k = i + 1
      BY <1>9, <1>11, <2>2
    <3> HIDE DEF k
    <3>2. v[i] = spi[k].frame /\ w[i + 1] = spi[k].frame
      BY <1>8, <1>9, <3>1
    <3> QED
      BY <3>2
  <2>3. i \in 1 .. Len(r) \/ i - Len(r) \in 1 .. Len(spi)
    <3>1. Len(r) \in Nat /\ Len(spi) \in Nat
      BY <1>8, <1>9
    <3> QED
      BY <3>1
  <2> QED
    BY <2>1, <2>2, <2>3
<1>15. v = Tail(w)
  <2>1. \A i \in 1 .. n : v[i] = Tail(w)[i]
    BY <1>13, <1>14
  <2> QED
    BY <1>9, <1>13, <2>1, SeqEqual
<1> QED
  BY <1>1, <1>10, <1>12, <1>15 DEF Ordered!Transmit

(* Nothing requested and no message queued: nothing waits.                 *)
LEMMA NothingWaits ==
  /\ TypeOK /\ txreq = {} /\ spi = <<>> => WaitingFrames = <<>>
  /\ TypeOK' /\ txreq' = {} /\ spi' = <<>> => WaitingFrames' = <<>>
<1>1. Lists(<<>>, {})
  BY DEF Lists
<1>2. ASSUME NEW obj \in [TxFifos -> 0 .. MaxFrames] PROVE Waiting(<<>>, obj, <<>>) = <<>>
  <2>1. <<>> \in Seq(TxFifos) /\ <<>> \in Seq(Messages)
    OBVIOUS
  <2>2. /\ Waiting(<<>>, obj, <<>>) \in Seq(0 .. MaxFrames)
        /\ Len(Waiting(<<>>, obj, <<>>)) = Len(<<>>) + Len(<<>>)
    BY <2>1, WaitingElements, Zenon
  <2>3. Len(<<>>) + Len(<<>>) = 0
    OBVIOUS
  <2> QED
    BY <2>2, <2>3, EmptySeq
<1>3. TypeOK /\ txreq = {} /\ spi = <<>> => WaitingFrames = <<>>
  BY <1>1, <1>2, WaitingIs
<1>4. TypeOK' /\ txreq' = {} /\ spi' = <<>> => WaitingFrames' = <<>>
  BY <1>1, <1>2, WaitingBecomes
<1> QED
  BY <1>3, <1>4

(* ndo_open drops what an earlier session left in the FIFOs.               *)
LEMMA QueueCloses ==
  ASSUME TypeOK, TypeOK', MaskInv, Open \/ OpenFails
  PROVE  Ordered!Close \/ UNCHANGED Ordered!vars
<1>1. spi = <<>> /\ UNCHANGED <<spi, next, wire, fifoObj>>
  BY DEF Open, OpenFails, MaskInv, DownIsQuiet
<1>2. txreq' = {} \/ txreq' = txreq
  BY DEF Open, OpenFails
<1>3. CASE txreq' = txreq
  <2>1. WaitingFrames' = WaitingFrames /\ next' - 1 = next - 1 /\ wire' = wire
    BY <1>1, <1>3 DEF WaitingFrames
  <2> QED
    BY <2>1 DEF Ordered!vars
<1>4. CASE txreq' = {}
  <2>1. WaitingFrames' = <<>>
    BY <1>1, <1>4, NothingWaits
  <2>2. next' - 1 = next - 1 /\ wire' = wire
    BY <1>1
  <2>3. CASE WaitingFrames = <<>>
    BY <2>1, <2>2, <2>3 DEF Ordered!vars
  <2>4. CASE WaitingFrames # <<>>
    BY <2>1, <2>2, <2>4 DEF Ordered!Close
  <2> QED
    BY <2>3, <2>4
<1> QED
  BY <1>2, <1>3, <1>4

(* Every step of the driver and the controller is one of the queue or      *)
(* leaves the queue alone.                                                 *)
LEMMA QueueStep ==
  ASSUME TypeOK, TypeOK', MaskInv, Order, [Next]_vars, ~OneShot, MaxLostFaults = 0
  PROVE  [Ordered!Next]_Ordered!vars
<1> DEFINE others ==
      \/ XmitBusOff \/ XmitPutEcho \/ BusErrorState \/ BusReceive
      \/ IrqThread \/ IrqSpiFault \/ StopBegin \/ StopEnd
<1>1. CASE others \/ UNCHANGED vars
  <2>1. UNCHANGED <<txreq, fifoObj, spi, next, wire>>
    BY <1>1 DEF XmitBusOff, XmitPutEcho, BusErrorState, BusReceive,
         IrqThread, IrqStart, IrqLoop, IrqReadFlags, IrqReadRequests, IrqClear,
         IrqAbort, IrqTef, IrqTefCount, IrqTefConservative, IrqSort, IrqDeliver,
         IrqState, IrqSleep, IrqSpiFault, StopBegin, StopEnd,
         vars, driver, controller, history
  <2>2. WaitingFrames' = WaitingFrames /\ next' - 1 = next - 1 /\ wire' = wire
    BY <2>1 DEF WaitingFrames
  <2> QED
    BY <2>2 DEF Ordered!vars
<1>2. ~BusAbort
  BY DEF BusAbort
<1> QED
  BY <1>1, <1>2, QueueAccepts, QueueMoves, QueueTransmits, QueueCloses
  DEF Next, Ordered!Next

(* The driver and the controller implement an ordered queue of as many     *)
(* frames as there are transmit FIFOs: a frame that start_xmit accepted    *)
(* waits behind all those accepted before it, through the completion       *)
(* callback, bus errors, reported SPI faults, bus-off and reopening.       *)
THEOREM QueueOfFifos ==
  ASSUME ~OneShot, MaxLostFaults = 0
  PROVE  Spec => ImplementsCanTxQueue
<1>1. Init => Ordered!Init
  <2> SUFFICES ASSUME Init PROVE Ordered!Init
    OBVIOUS
  <2>1. WaitingFrames = <<>>
    BY NothingWaits, TypeInit DEF Init
  <2> QED
    BY <2>1 DEF Init, Ordered!Init
<1>2. /\ TypeOK /\ TypeOK' /\ MaskInv /\ Order /\ [Next]_vars
      => [Ordered!Next]_Ordered!vars
  BY QueueStep
<1> QED
  BY <1>1, <1>2, TypeCorrect, MasksCorrect, OrderCorrect, PTL
  DEF Spec, ImplementsCanTxQueue, Ordered!Spec
=============================================================================
