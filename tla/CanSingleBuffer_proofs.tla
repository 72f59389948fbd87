------------------------ MODULE CanSingleBuffer_proofs -----------------------
(***************************************************************************)
(* Proofs about CanSingleBuffer, for any number of frames, errors and      *)
(* openings: every variable keeps its type, both drivers are a queue of    *)
(* one frame, what they report was on the wire, and the error state they   *)
(* report is the controller's.                                             *)
(***************************************************************************)
EXTENDS CanSingleBuffer, ProofLemmas

(* sun4i's handler will wake the queue for a frame that was transmitted.   *)
SunDone ==
  \/ "TBUF_VLD" \in irq.isrc /\ irq.pc \in {"status", "tx"}
  \/ "TBUF_VLD" \in flags \ irq.isrc

(* A frame is either in start_xmit, in the transmit buffer or done, and    *)
(* while it is any of these the queue is stopped.  A restart could wake it:*)
(* it comes after bus-off, when the frame in the buffer is not done, and   *)
(* what has told the driver of bus-off is not pending a second time; until *)
(* it wakes the queue there is no frame at all.                            *)
SunControl ==
  /\ irq.pc = "idle" => irq.isrc = {}
  /\ irq.pc = "tx" => "TBUF_VLD" \in irq.isrc
  /\ link = "down" => irq.pc = "idle" /\ start = "idle" /\ ~due

SunFrame ==
  /\ link # "up" => ~txreq /\ xmit = None
  /\ xmit # None => ~txreq /\ txbuf = xmit
  /\ xmit # None \/ txreq => queue = "stopped"
  /\ link = "up" /\ bus = BusOff => txreq
  /\ link = "up" /\ SunDone => ~txreq /\ xmit = None /\ queue = "stopped"

SunStarting ==
  /\ start # "idle" => ~txreq /\ xmit = None
  /\ link = "up" /\ start # "idle" => ~SunDone
  /\ link = "up" /\ start = "restart" => queue = "stopped"
  /\ start = "idle" => ~told

SunOff ==
  /\ link = "up" /\ due
       => /\ bus = BusOff
          /\ "ERR_WRN" \notin flags \ irq.isrc
          /\ "ERR_WRN" \in irq.isrc => irq.pc = "clear"
  /\ link = "up" /\ irq.pc \in {"tx", "rx", "err"} /\ irq.bus = BusOff
       => bus = BusOff \/ "ERR_WRN" \notin irq.isrc

SunInv == SunControl /\ SunFrame /\ SunStarting /\ SunOff

(* The same for the banged driver, whose handler gives up after bus-off.   *)
BangedDone == "TX0IF" \in intf \cup ist.intf
BangedInv ==
  /\ ist.pc = "idle" => ist.intf = {}
  /\ link = "down" => ist.pc = "idle" /\ ~txreq
  /\ inXmit => link = "up" /\ queue = "stopped" /\ ~txreq
  /\ xmit # None => inXmit
  /\ BangedDone => ~txreq /\ ~inXmit
  /\ ist.pc = "state" => "TX0IF" \notin intf \cap ist.intf
  /\ link = "up" /\ (txreq \/ BangedDone) => queue = "stopped"

(* A receive buffer whose flag is set holds a frame.                       *)
FullHold == \A b \in 0 .. 1 : RxFlag[b] \in intf => rxb[b] # None

Inv ==
  /\ TypeOK /\ FullHold
  /\ driver = "sun4i" => SunInv
  /\ driver = "mcp2515" => BangedInv

ErrorStates == ErrorActive .. BusOff

-----------------------------------------------------------------------------
(* Types.                                                                  *)

LEMMA Constants ==
  /\ None \notin Frames /\ Frames \subseteq Nat
  /\ ErrorStates = {0, 1, 2, 3} /\ ErrorActive .. Stopped = {0, 1, 2, 3, 4}
  BY CanNetDevAssumption DEF None, Frames, ErrorStates, ErrorActive, BusOff, Stopped

(* What a sequence holds is of its type.                                   *)
LEMMA RangeType ==
  ASSUME NEW S, NEW q \in Seq(S)
  PROVE  Range(q) \subseteq S
  BY DEF Range

LEMMA NothingType ==
  ASSUME NEW S PROVE <<>> \in Seq(S)
  OBVIOUS

LEMMA ErrorStepType ==
  TypeOK /\ ErrorStep => bus' \in ErrorActive .. BusOff /\ errors' \in Nat
  BY DEF TypeOK, CanTypeOK, ErrorStep

LEMMA ResetType ==
  TypeOK /\ ResetMode => missed' \subseteq 1 .. MaxArrivals
  BY RangeType DEF TypeOK, CanTypeOK, SunTypeOK, ResetMode

(* What sun4i's driver, the bus and the CAN core do keeps the types.       *)
LEMMA SunTypeStep ==
  TypeOK /\ SunNext /\ UNCHANGED bangedVars => TypeOK'
<1> SUFFICES ASSUME TypeOK, SunNext, UNCHANGED bangedVars PROVE TypeOK'
  OBVIOUS
<1> USE DEF TypeOK, setup, stack, chip, sent, reports, received, bounds, starting
<1>b. BangedTypeOK'
  BY DEF BangedTypeOK, bangedVars
<1>1. CASE SunXmit
  BY <1>1, <1>b, Constants DEF SunXmit, MayXmit, StopQueue, PutEcho, sunVars, CanTypeOK, SunTypeOK
<1>2. CASE SunRequest
  BY <1>2, <1>b DEF SunRequest, sunVars, CanTypeOK, SunTypeOK
<1>3. CASE SunTransmit
  <2>1. wire' \in Seq(Frames \cup {None})
    BY <1>3, AppendType DEF SunTransmit, Transmit, CanTypeOK
  <2>2. flags' \subseteq Flags /\ overtaken' \subseteq {"tx", "rx", "err"}
    BY <1>3 DEF SunTransmit, Overtakes, CanTypeOK, SunTypeOK, Flags
  <2>3. CanTypeOK'
    BY <1>3, <2>1, <2>2 DEF SunTransmit, Transmit, CanTypeOK
  <2>4. SunTypeOK'
    BY <1>3, <2>2 DEF SunTransmit, SunTypeOK
  <2> QED BY <1>b, <2>3, <2>4
<1>4. CASE SunArrive
  <2>1. arrived + 1 \in 1 .. MaxArrivals /\ arrived' \in 0 .. MaxArrivals
    BY <1>4, CanNetDevAssumption DEF SunArrive, CanTypeOK
  <2>2. flags' \subseteq Flags /\ overtaken' \subseteq {"tx", "rx", "err"}
    BY <1>4 DEF SunArrive, Overtakes, CanTypeOK, SunTypeOK, Flags
  <2>3. fifo' \in Seq(1 .. MaxArrivals) /\ missed' \subseteq 1 .. MaxArrivals
    <3>1. CASE Len(fifo) < RxSlots
      <4>1. Append(fifo, arrived + 1) \in Seq(1 .. MaxArrivals)
        BY <2>1, AppendType DEF SunTypeOK
      <4> QED BY <1>4, <3>1, <4>1 DEF SunArrive, CanTypeOK
    <3>2. CASE ~(Len(fifo) < RxSlots)
      BY <1>4, <2>1, <3>2 DEF SunArrive, CanTypeOK, SunTypeOK
    <3> QED BY <3>1, <3>2
  <2> QED BY <1>4, <1>b, <2>1, <2>2, <2>3 DEF SunArrive, CanTypeOK, SunTypeOK
<1>5. CASE SunError
  <2>1. bus' \in ErrorActive .. BusOff /\ errors' \in Nat
    BY <1>5, ErrorStepType DEF SunError
  <2>2. flags' \subseteq Flags /\ overtaken' \subseteq {"tx", "rx", "err"}
    BY <1>5 DEF SunError, Overtakes, CanTypeOK, SunTypeOK, Flags, ErrorFlags
  <2>3. CanTypeOK'
    BY <1>5, <2>1, <2>2 DEF SunError, ErrorStep, CanTypeOK
  <2>4. SunTypeOK'
    BY <1>5, <2>2 DEF SunError, SunTypeOK
  <2> QED BY <1>b, <2>3, <2>4
<1>6. CASE SunIrqRead
  <2>1. CanTypeOK'
    BY <1>6 DEF SunIrqRead, canVars, CanTypeOK
  <2>2. SunTypeOK'
    BY <1>6 DEF SunIrqRead, SunTypeOK
  <2> QED BY <1>b, <2>1, <2>2
<1>7. CASE SunIrqStatus
  <2>1. irq' \in [pc : {"idle", "status", "tx", "rx", "err", "clear"},
                  isrc : SUBSET Flags, bus : ErrorActive .. BusOff, rdy : BOOLEAN]
    BY <1>7 DEF SunIrqStatus, RxOr, AfterRx, SunTypeOK, CanTypeOK
  <2>2. CanTypeOK'
    BY <1>7 DEF SunIrqStatus, canVars, CanTypeOK
  <2>3. SunTypeOK'
    BY <1>7, <2>1 DEF SunIrqStatus, SunTypeOK
  <2> QED BY <1>b, <2>2, <2>3
<1>8. CASE SunIrqTx
  <2>1. looped' \in Seq(Frames) /\ echo' \in Frames \cup {None} /\ reported' \in Nat
    BY <1>8, AppendType DEF SunIrqTx, GetEcho, EchoGone, CanTypeOK
  <2>2. irq' \in [pc : {"idle", "status", "tx", "rx", "err", "clear"},
                  isrc : SUBSET Flags, bus : ErrorActive .. BusOff, rdy : BOOLEAN]
    BY <1>8 DEF SunIrqTx, RxOr, AfterRx, SunTypeOK
  <2>3. CanTypeOK'
    BY <1>8, <2>1 DEF SunIrqTx, CanTypeOK
  <2>4. SunTypeOK'
    BY <1>8, <2>2 DEF SunIrqTx, SunTypeOK
  <2> QED BY <1>b, <2>3, <2>4
<1>9. CASE SunIrqRx
  <2>1. fifo' \in Seq(1 .. MaxArrivals)
    BY <1>9, TailType DEF SunIrqRx, Release, SunTypeOK
  <2>2. (IF fifo = <<>> THEN None ELSE Head(fifo)) \in 0 .. MaxArrivals
    <3>1. fifo # <<>> => Head(fifo) \in 1 .. MaxArrivals
      BY TailType DEF SunTypeOK
    <3> QED BY <3>1, CanNetDevAssumption DEF None
  <2>3. delivered' \in Seq(0 .. MaxArrivals)
    BY <1>9, <2>2, AppendType DEF SunIrqRx, CanTypeOK
  <2>4. irq' \in [pc : {"idle", "status", "tx", "rx", "err", "clear"},
                  isrc : SUBSET Flags, bus : ErrorActive .. BusOff, rdy : BOOLEAN]
    BY <1>9 DEF SunIrqRx, RxOr, AfterRx, SunTypeOK, CanTypeOK
  <2>5. CanTypeOK'
    BY <1>9, <2>3 DEF SunIrqRx, CanTypeOK
  <2>6. SunTypeOK'
    BY <1>9, <2>1, <2>4 DEF SunIrqRx, SunTypeOK
  <2> QED BY <1>b, <2>5, <2>6
<1>10. CASE SunIrqErr
  <2>1. due' \in BOOLEAN /\ told' \in BOOLEAN
    BY <1>10, Zenon DEF SunIrqErr, SunTypeOK
  <2>2. canState' \in ErrorActive .. Stopped
    BY <1>10, Constants DEF SunIrqErr, NewCanState, WarningState, CanTypeOK, ErrorActive, ErrorWarning,
       ErrorPassive, BusOff
  <2>3. CanTypeOK'
    BY <1>10, <2>2 DEF SunIrqErr, CanTypeOK
  <2>4. SunTypeOK'
    BY <1>10, <2>1 DEF SunIrqErr, SunTypeOK
  <2> QED BY <1>b, <2>3, <2>4
<1>11. CASE SunIrqClear
  <2>1. flags' \subseteq Flags
    BY <1>11 DEF SunIrqClear, Cleared, SunTypeOK
  <2>2. IrqIdle \in [pc : {"idle", "status", "tx", "rx", "err", "clear"},
                    isrc : SUBSET Flags, bus : ErrorActive .. BusOff, rdy : BOOLEAN]
    BY DEF IrqIdle, ErrorActive, BusOff
  <2> QED BY <1>11, <1>b, <2>1, <2>2 DEF SunIrqClear, canVars, CanTypeOK, SunTypeOK
<1>n. ASSUME NEW why, EnterNormal(why)
      PROVE  /\ missed' \subseteq 1 .. MaxArrivals /\ fifo' \in Seq(1 .. MaxArrivals)
             /\ overtaken' \subseteq {"tx", "rx", "err"}
             /\ bus' \in ErrorActive .. BusOff /\ start' = why
  BY <1>n, ResetType, NothingType DEF EnterNormal, ResetMode, CanTypeOK, ErrorActive, BusOff
<1>12. CASE SunRestart
  <2>1. EnterNormal("restart")
    BY <1>12 DEF SunRestart
  <2> QED
    BY <1>12, <1>b, <1>n, <2>1 DEF SunRestart, EnterNormal, ResetMode, CanTypeOK, SunTypeOK
<1>13. CASE SunOpen
  <2>1. EnterNormal("open")
    BY <1>13 DEF SunOpen
  <2>2. link' = "up" /\ opens' \in Nat
    BY <1>13 DEF SunOpen, CanTypeOK
  <2> QED
    BY <1>13, <1>b, <1>n, <2>1, <2>2 DEF SunOpen, EnterNormal, ResetMode, CanTypeOK, SunTypeOK
<1>16. CASE SunStarted
  <2>1. overtaken' \subseteq {"tx", "rx", "err"}
    BY <1>16 DEF SunStarted, Overtakes, CanTypeOK
  <2>2. canState' \in ErrorActive .. Stopped
    BY <1>16 DEF SunStarted, ErrorActive, Stopped
  <2>3. CanTypeOK'
    BY <1>16, <2>1, <2>2 DEF SunStarted, CanTypeOK
  <2>4. start' = "idle" /\ told' = FALSE /\ due' = due /\ UNCHANGED <<flags, fifo, irq>>
    BY <1>16 DEF SunStarted
  <2>5. SunTypeOK'
    BY <2>4 DEF SunTypeOK
  <2> QED BY <1>b, <2>3, <2>5
<1>14. CASE SunClose
  <2>1. missed' \subseteq 1 .. MaxArrivals
    BY <1>14, ResetType DEF SunClose
  <2>2. fifo' \in Seq(1 .. MaxArrivals)
    BY <1>14, NothingType DEF SunClose, ResetMode
  <2>3. CanTypeOK'
    BY <1>14, <2>1, Constants DEF SunClose, ResetMode, CanTypeOK, ErrorActive, Stopped, BusOff
  <2>4. SunTypeOK'
    BY <1>14, <2>2 DEF SunClose, ResetMode, SunTypeOK
  <2> QED BY <1>b, <2>3, <2>4
<1>15. CASE SunClosed
  BY <1>15, <1>b DEF SunClosed, sunVars, CanTypeOK, SunTypeOK
<1> QED
  BY <1>1, <1>2, <1>3, <1>4, <1>5, <1>6, <1>7, <1>8, <1>9, <1>10, <1>11, <1>12, <1>13,
     <1>14, <1>15, <1>16 DEF SunNext, SunIrq

IstType == [pc : {"idle", "loop", "eflag", "rx0", "rx1", "clear", "state"},
            intf : SUBSET IntFlags, eflag : ErrorActive .. BusOff]

(* What the banged driver, its controller and the CAN core do keeps them.  *)
LEMMA BangedTypeStep ==
  TypeOK /\ FullHold /\ BangedNext /\ UNCHANGED sunVars => TypeOK' /\ FullHold'
<1> SUFFICES ASSUME TypeOK, FullHold, BangedNext, UNCHANGED sunVars
             PROVE  TypeOK' /\ FullHold'
  OBVIOUS
<1> USE DEF TypeOK, setup, stack, chip, sent, reports, received, bounds, control, line
<1>s. SunTypeOK'
  BY DEF SunTypeOK, sunVars, starting
<1>b. 0 .. 1 = {0, 1} /\ RxFlag[0] = "RX0IF" /\ RxFlag[1] = "RX1IF"
  BY DEF RxFlag
<1>i. IstIdle \in IstType /\ ist \in IstType
  BY DEF IstIdle, IstType, ErrorActive, BusOff, BangedTypeOK
<1>g. /\ \A pc \in {"loop", "clear", "state"} : Goto(pc) => ist' \in IstType
      /\ \A f \in SUBSET IntFlags : [ist EXCEPT !.pc = "eflag", !.intf = f] \in IstType
      /\ \A e \in ErrorActive .. BusOff : [ist EXCEPT !.pc = Rx0Or, !.eflag = e] \in IstType
      /\ Goto(Rx1Or) => ist' \in IstType
      /\ Goto(ClearOr) => ist' \in IstType
      /\ [IstIdle EXCEPT !.pc = "loop"] \in IstType
  BY <1>i DEF Goto, IstType, Rx0Or, Rx1Or, ClearOr
<1>m. EmptyBuffers => /\ rxb' \in [0 .. 1 -> 0 .. MaxArrivals]
                      /\ intf' \subseteq IntFlags /\ edge' \in BOOLEAN
                      /\ missed' \subseteq 1 .. MaxArrivals
                      /\ FullHold'
  <2>1. NoFrames \in [0 .. 1 -> 0 .. MaxArrivals]
    BY CanNetDevAssumption DEF NoFrames, None
  <2>2. \A b \in FullBuffers : rxb[b] \in 1 .. MaxArrivals
    BY CanNetDevAssumption DEF FullBuffers, FullHold, None, BangedTypeOK
  <2> QED BY <2>1, <2>2 DEF EmptyBuffers, CanTypeOK, FullHold
<1>c. ErrorActive \in ErrorActive .. BusOff /\ ErrorActive \in ErrorActive .. Stopped
      /\ Stopped \in ErrorActive .. Stopped
  BY DEF ErrorActive, BusOff, Stopped
<1>f. /\ \A f \in {"TX0IF", "ERRIF"} : SetIntf(f) /\ UNCHANGED rxb => FullHold'
      /\ \A f \in IntFlags : SetIntf(f) => intf' \subseteq IntFlags /\ edge' \in BOOLEAN
      /\ intf' \subseteq intf /\ UNCHANGED rxb => FullHold'
  BY <1>b DEF SetIntf, FullHold, IntFlags, BangedTypeOK
<1>1. CASE BangedXmit
  BY <1>1, <1>s, <1>f, Constants DEF BangedXmit, MayXmit, CanTypeOK, BangedTypeOK
<1>2. CASE BangedLoad
  BY <1>2, <1>s, <1>f DEF BangedLoad, Clean, CanTypeOK, BangedTypeOK
<1>3. CASE BangedTransmit
  <2>1. wire' \in Seq(Frames \cup {None})
    BY <1>3, AppendType DEF BangedTransmit, Transmit, CanTypeOK
  <2>2. intf' \subseteq IntFlags /\ edge' \in BOOLEAN /\ FullHold'
    BY <1>3, <1>f DEF BangedTransmit, IntFlags
  <2>3. BangedTypeOK'
    BY <1>3, <2>2 DEF BangedTransmit, BangedTypeOK
  <2>4. CanTypeOK'
    BY <1>3, <2>1 DEF BangedTransmit, Transmit, CanTypeOK
  <2> QED BY <1>s, <2>2, <2>3, <2>4
<1>4. CASE BangedArrive
  <2>1. arrived + 1 \in 1 .. MaxArrivals /\ arrived' \in 0 .. MaxArrivals
    BY <1>4, CanNetDevAssumption DEF BangedArrive, CanTypeOK
  <2>2. missed' \subseteq 1 .. MaxArrivals
    BY <1>4, <2>1 DEF BangedArrive, CanTypeOK
  <2>3. /\ rxb' \in [0 .. 1 -> 0 .. MaxArrivals] /\ FullHold'
        /\ intf' \subseteq IntFlags /\ edge' \in BOOLEAN
    <3>1. CASE \E b \in 0 .. 1 :
                 rxb' = [rxb EXCEPT ![b] = arrived + 1] /\ SetIntf(RxFlag[b])
      <4>1. PICK b \in 0 .. 1 :
                 rxb' = [rxb EXCEPT ![b] = arrived + 1] /\ SetIntf(RxFlag[b])
        BY <3>1
      <4>2. RxFlag[b] \in IntFlags
        BY <1>b DEF IntFlags
      <4>3. intf' \subseteq IntFlags /\ edge' \in BOOLEAN
        BY <4>1, <4>2, <1>f
      <4>4. rxb' \in [0 .. 1 -> 0 .. MaxArrivals]
        BY <2>1, <4>1 DEF BangedTypeOK
      <4>5. FullHold'
        BY <2>1, <4>1, <1>b DEF FullHold, SetIntf, BangedTypeOK, None
      <4> QED BY <4>3, <4>4, <4>5
    <3>2. CASE SetIntf("ERRIF") /\ UNCHANGED rxb
      BY <3>2, <1>f DEF IntFlags, BangedTypeOK
    <3> QED BY <1>4, <3>1, <3>2 DEF BangedArrive
  <2> QED BY <1>4, <1>s, <2>1, <2>2, <2>3 DEF BangedArrive, CanTypeOK, BangedTypeOK
<1>5. CASE BangedError
  <2>1. bus' \in ErrorActive .. BusOff /\ errors' \in Nat
    BY <1>5, ErrorStepType DEF BangedError
  <2>2. intf' \subseteq IntFlags /\ edge' \in BOOLEAN /\ FullHold'
    BY <1>5, <1>f DEF BangedError, IntFlags
  <2> QED BY <1>5, <1>s, <2>1, <2>2 DEF BangedError, ErrorStep, CanTypeOK, BangedTypeOK
<1>6. CASE BangedRecover
  <2>1. intf' \subseteq IntFlags /\ edge' \in BOOLEAN /\ FullHold'
    BY <1>6, <1>f DEF BangedRecover, IntFlags
  <2> QED BY <1>6, <1>s, <1>c, <2>1 DEF BangedRecover, CanTypeOK, BangedTypeOK
<1>7. CASE IstStart
  <2>1. ist' \in IstType
    BY <1>7, <1>g DEF IstStart
  <2>2. CanTypeOK' /\ FullHold'
    BY <1>7, <1>f DEF IstStart, canVars, CanTypeOK
  <2>3. BangedTypeOK'
    BY <1>7, <2>1 DEF IstStart, IstType, BangedTypeOK
  <2> QED BY <1>s, <2>2, <2>3
<1>8. CASE IstReadFlags
  <2>1. ist' \in IstType
    BY <1>8, <1>i, <1>g DEF IstReadFlags, BangedTypeOK
  <2> QED BY <1>8, <1>s, <1>f, <2>1 DEF IstReadFlags, IstOnly, IstType, canVars, CanTypeOK, BangedTypeOK
<1>9. CASE IstReadErrors
  <2>1. ist' \in IstType
    BY <1>9, <1>g DEF IstReadErrors, CanTypeOK
  <2> QED BY <1>9, <1>s, <1>f, <2>1 DEF IstReadErrors, IstOnly, IstType, canVars, CanTypeOK, BangedTypeOK
<1>10. CASE IstRx0 \/ IstRx1
  <2>1. ist' \in IstType
    BY <1>10, <1>g DEF IstRx0, IstRx1, IstRx
  <2>2. rxb[0] \in 0 .. MaxArrivals /\ rxb[1] \in 0 .. MaxArrivals
    BY DEF BangedTypeOK
  <2>3. delivered' \in Seq(0 .. MaxArrivals)
    <3>1. \A x \in 0 .. MaxArrivals : Append(delivered, x) \in Seq(0 .. MaxArrivals)
      BY AppendType DEF CanTypeOK
    <3> QED BY <1>10, <2>2, <3>1 DEF IstRx0, IstRx1, IstRx
  <2>4. intf' \subseteq intf
    BY <1>10 DEF IstRx0, IstRx1, IstRx, Freed
  <2>5. rxb' = rxb /\ intf' \subseteq IntFlags /\ FullHold'
    BY <1>10, <1>f, <2>4 DEF IstRx0, IstRx1, IstRx, BangedTypeOK
  <2>6. BangedTypeOK'
    BY <1>10, <2>1, <2>5 DEF IstRx0, IstRx1, IstRx, IstType, BangedTypeOK
  <2>7. CanTypeOK'
    BY <1>10, <2>3 DEF IstRx0, IstRx1, IstRx, CanTypeOK
  <2> QED BY <1>s, <2>5, <2>6, <2>7
<1>12. CASE IstClear
  <2>1. ist' \in IstType
    BY <1>12, <1>g DEF IstClear
  <2>2. intf' \subseteq intf
    BY <1>12 DEF IstClear
  <2> QED BY <1>12, <1>s, <1>f, <2>1, <2>2 DEF IstClear, IstType, canVars, CanTypeOK, BangedTypeOK
<1>13. CASE IstState
  <2>1. ist' \in IstType
    BY <1>13, <1>i, <1>g DEF IstState
  <2>2. canState' \in ErrorActive .. Stopped /\ forceQuit' \in BOOLEAN
    BY <1>13, Constants DEF IstState, BangedTypeOK, ErrorStates
  <2>3. reported' \in Nat /\ txLen' \in BOOLEAN /\ queue' \in {"running", "stopped"}
    <3>1. CASE TxDone
      <4>1. reported' = reported + 1 /\ txLen' = FALSE /\ queue' = "running"
        BY <1>13, <3>1 DEF IstState
      <4>2. reported' \in Nat
        BY <4>1 DEF CanTypeOK
      <4> QED BY <4>1, <4>2
    <3>2. CASE ~TxDone
      <4>1. UNCHANGED <<reported, txLen, queue>>
        BY <1>13, <3>2 DEF IstState
      <4> QED BY <4>1 DEF CanTypeOK, BangedTypeOK
    <3> QED BY <3>1, <3>2
  <2>4. CanTypeOK'
    BY <1>13, <2>2, <2>3 DEF IstState, CanTypeOK
  <2>5. BangedTypeOK' /\ FullHold'
    BY <1>13, <1>f, <2>1, <2>2, <2>3 DEF IstState, IstType, BangedTypeOK
  <2> QED BY <1>s, <2>4, <2>5
<1>14. CASE BangedRestart
  <2>1. CanTypeOK' /\ FullHold'
    BY <1>14, <1>c, <1>f DEF BangedRestart, Clean, CanTypeOK
  <2>2. BangedTypeOK'
    BY <1>14 DEF BangedRestart, Clean, BangedTypeOK
  <2> QED BY <1>s, <2>1, <2>2
<1>15. CASE BangedOpen
  <2>1. opens' \in Nat
    BY <1>15 DEF BangedOpen, CanTypeOK
  <2>2. BangedTypeOK' /\ FullHold'
    BY <1>15, <1>m DEF BangedOpen, Clean, BangedTypeOK
  <2>3. CanTypeOK'
    BY <1>15, <1>m, <1>c, <2>1, Constants DEF BangedOpen, Clean, CanTypeOK
  <2> QED BY <1>s, <2>2, <2>3
<1>16. CASE BangedStop
  BY <1>16, <1>s, <1>f DEF BangedStop, CanTypeOK, BangedTypeOK
<1>17. CASE BangedStopped
  BY <1>17, <1>s, <1>m, <1>c DEF BangedStopped, Clean, CanTypeOK, BangedTypeOK
<1> QED
  BY <1>1, <1>2, <1>3, <1>4, <1>5, <1>6, <1>7, <1>8, <1>9, <1>10, <1>12, <1>13,
     <1>14, <1>15, <1>16, <1>17 DEF BangedNext, Ist

-----------------------------------------------------------------------------
(* The one frame.                                                          *)

LEMMA SunStep ==
  TypeOK /\ SunInv /\ SunNext => SunInv'
<1> SUFFICES ASSUME TypeOK, SunInv, SunNext PROVE SunInv'
  OBVIOUS
<1> USE DEF SunInv, SunControl, SunFrame, SunStarting, SunOff, SunDone, starting, setup, stack, chip, sent, reports, received, bounds
<1>t. irq \in [pc : {"idle", "status", "tx", "rx", "err", "clear"},
              isrc : SUBSET Flags, bus : ErrorActive .. BusOff, rdy : BOOLEAN]
  BY DEF TypeOK, SunTypeOK
<1>o. start \in {"idle", "open", "restart"}
  BY DEF TypeOK, SunTypeOK
<1>e. ErrorActive # BusOff /\ ErrorWarning # BusOff /\ ErrorPassive # BusOff /\ Stopped # BusOff
  BY DEF ErrorActive, ErrorWarning, ErrorPassive, BusOff, Stopped
<1>1. CASE SunXmit
  <2>1. /\ link = "up" /\ link' = "up" /\ queue = "running" /\ queue' = "stopped"
        /\ txbuf' = xmit' /\ UNCHANGED <<txreq, bus, flags, irq, due, start, told>>
    BY <1>1 DEF SunXmit, MayXmit, StopQueue, sunVars
  <2>2. start = "idle" /\ ~txreq /\ ~SunDone
    BY <1>1, <1>o, <2>1 DEF SunXmit
  <2> QED BY <2>1, <2>2
<1>2. CASE SunRequest
  BY <1>2 DEF SunRequest, sunVars
<1>3. CASE SunTransmit
  BY <1>3 DEF SunTransmit, Transmit
<1>4. CASE SunArrive
  BY <1>4 DEF SunArrive
<1>5. CASE SunError
  BY <1>5 DEF SunError, ErrorStep
<1>6. CASE SunIrqRead
  BY <1>6, <1>t DEF SunIrqRead, canVars
<1>7. CASE SunIrqStatus
  <2>1. /\ irq'.isrc = irq.isrc /\ irq'.bus = bus
        /\ irq'.pc \in {"tx", "rx", "err", "clear"}
        /\ irq'.pc = "tx" <=> "TBUF_VLD" \in irq.isrc
    BY <1>7, <1>t DEF SunIrqStatus, RxOr, AfterRx
  <2> QED BY <1>7, <2>1 DEF SunIrqStatus, canVars
<1>8. CASE SunIrqTx
  <2>1. /\ irq'.isrc = irq.isrc /\ irq'.bus = irq.bus
        /\ irq'.pc \in {"rx", "err", "clear"}
    BY <1>8, <1>t DEF SunIrqTx, RxOr, AfterRx
  <2>2. "TBUF_VLD" \in irq.isrc
    BY <1>8 DEF SunIrqTx
  <2>3. ~txreq /\ xmit = None /\ ~SunDone'
    BY <1>8, <2>1, <2>2 DEF SunIrqTx
  <2>4. SunFrame' /\ SunStarting'
    BY <1>8, <2>3 DEF SunIrqTx
  <2>5. SunControl' /\ SunOff'
    BY <1>8, <2>1 DEF SunIrqTx
  <2> QED BY <2>4, <2>5
<1>9. CASE SunIrqRx
  <2>1. /\ irq'.isrc = irq.isrc /\ irq'.bus = bus
        /\ irq'.pc \in {"rx", "err", "clear"}
    BY <1>9, <1>t DEF SunIrqRx, RxOr, AfterRx
  <2>2. SunControl'
    BY <1>9, <2>1 DEF SunIrqRx
  <2>3. SunFrame' /\ SunStarting'
    BY <1>9, <2>1 DEF SunIrqRx
  <2>4. SunOff'
    BY <1>9, <2>1 DEF SunIrqRx
  <2> QED BY <2>2, <2>3, <2>4
<1>10. CASE SunIrqErr
  <2>1. irq'.isrc = irq.isrc /\ irq'.bus = irq.bus /\ irq'.pc = "clear"
    BY <1>10, <1>t DEF SunIrqErr
  <2>2. due' =>
          \/ due
          \/ "ERR_WRN" \in irq.isrc /\ irq.bus = BusOff
    BY <1>10, <1>e DEF SunIrqErr, NewCanState, WarningState
  <2>3. SunControl'
    BY <1>10, <2>1 DEF SunIrqErr
  <2>4. SunFrame' /\ SunStarting'
    BY <1>10, <2>1 DEF SunIrqErr
  <2>5. SunOff'
    BY <1>10, <2>1, <2>2 DEF SunIrqErr
  <2> QED BY <2>3, <2>4, <2>5
<1>11. CASE SunIrqClear
  BY <1>11, <1>t DEF SunIrqClear, Cleared, IrqIdle, canVars
<1>12. CASE SunRestart
  BY <1>12, <1>t, <1>e DEF SunRestart, EnterNormal, ResetMode
<1>13. CASE SunOpen
  <2>1. /\ link = "down" /\ link' = "up" /\ flags' = {} /\ irq' = irq /\ irq.isrc = {}
        /\ irq.pc = "idle" /\ txreq' = FALSE /\ xmit = None /\ xmit' = None
        /\ bus' = ErrorActive /\ start' = "open" /\ told' = told /\ due' = due /\ ~due
    BY <1>13 DEF SunOpen, EnterNormal, ResetMode
  <2> QED BY <2>1, <1>e
<1>16. CASE SunStarted
  BY <1>16, <1>t, <1>e DEF SunStarted
<1>14. CASE SunClose
  <2>1. /\ link' = "closing" /\ queue' = "stopped" /\ xmit = None /\ xmit' = None
        /\ txreq' = FALSE /\ irq' = irq /\ start' = start /\ told' = told
    BY <1>14 DEF SunClose, ResetMode
  <2>2. SunControl'
    BY <2>1
  <2>3. SunFrame' /\ SunStarting'
    BY <2>1
  <2>4. SunOff'
    BY <2>1
  <2> QED BY <2>2, <2>3, <2>4
<1>15. CASE SunClosed
  BY <1>15, <1>t DEF SunClosed, sunVars
<1> QED
  BY <1>1, <1>2, <1>3, <1>4, <1>5, <1>6, <1>7, <1>8, <1>9, <1>10, <1>11, <1>12, <1>13,
     <1>14, <1>15, <1>16 DEF SunNext, SunIrq

LEMMA BangedStep ==
  TypeOK /\ BangedInv /\ BangedNext => BangedInv'
<1> SUFFICES ASSUME TypeOK, BangedInv, BangedNext PROVE BangedInv'
  OBVIOUS
<1> USE DEF BangedInv, BangedDone, setup, stack, chip, sent, reports, received, bounds, control, line
<1>t. ist \in IstType
  BY DEF TypeOK, BangedTypeOK, IstType
<1>1. CASE BangedXmit
  BY <1>1 DEF BangedXmit, MayXmit
<1>2. CASE BangedLoad
  BY <1>2 DEF BangedLoad, Clean
<1>3. CASE BangedTransmit
  BY <1>3 DEF BangedTransmit, Transmit, SetIntf
<1>4. CASE BangedArrive
  <2>1. "TX0IF" \in intf' => "TX0IF" \in intf
    BY <1>4 DEF BangedArrive, SetIntf, RxFlag
  <2> QED BY <1>4, <2>1 DEF BangedArrive
<1>5. CASE BangedError
  BY <1>5 DEF BangedError, ErrorStep, SetIntf
<1>6. CASE BangedRecover
  BY <1>6 DEF BangedRecover, SetIntf
<1>7. CASE IstStart
  BY <1>7, <1>t DEF IstStart, IstType, Goto, canVars
<1>8. CASE IstReadFlags
  BY <1>8, <1>t DEF IstReadFlags, IstType, IstIdle, IstOnly, canVars
<1>9. CASE IstReadErrors
  BY <1>9, <1>t DEF IstReadErrors, IstType, IstOnly, Rx0Or, Rx1Or, ClearOr, canVars
<1>10. CASE IstRx0 \/ IstRx1
  BY <1>10, <1>t DEF IstRx0, IstRx1, IstRx, IstType, Freed, Goto, Rx1Or, ClearOr
<1>12. CASE IstClear
  BY <1>12, <1>t DEF IstClear, IstType, Goto, canVars
<1>13. CASE IstState
  <2>1. ist'.intf = {} /\ ist'.pc \in {"idle", "loop"} /\ ist.pc # "idle"
    BY <1>13 DEF IstState, IstIdle
  <2>2. CASE TxDone
    <3>1. BangedDone /\ ~txreq /\ ~inXmit /\ xmit = None
      BY <2>2 DEF TxDone
    <3>2. UNCHANGED <<txreq, inXmit, xmit, link, intf>> /\ (BangedDone' => "TX0IF" \in intf)
      BY <1>13, <2>1 DEF IstState
    <3>3. "TX0IF" \notin intf
      BY <1>13, <2>2 DEF IstState, TxDone
    <3> QED BY <2>1, <3>1, <3>2, <3>3
  <2>3. CASE ~TxDone
    BY <1>13, <2>1, <2>3 DEF IstState
  <2> QED BY <2>2, <2>3
<1>14. CASE BangedRestart
  BY <1>14 DEF BangedRestart, Clean
<1>15. CASE BangedOpen
  BY <1>15 DEF BangedOpen, EmptyBuffers, Clean
<1>16. CASE BangedStop
  BY <1>16 DEF BangedStop
<1>17. CASE BangedStopped
  BY <1>17 DEF BangedStopped, EmptyBuffers, Clean
<1> QED
  BY <1>1, <1>2, <1>3, <1>4, <1>5, <1>6, <1>7, <1>8, <1>9, <1>10, <1>12, <1>13,
     <1>14, <1>15, <1>16, <1>17 DEF BangedNext, Ist

LEMMA Initially == Init => Inv
  <1> SUFFICES ASSUME Init PROVE Inv
    OBVIOUS
  <1>1. CanTypeOK
    <2>1. /\ <<>> \in Seq(Frames \cup {None}) /\ <<>> \in Seq(Frames)
          /\ <<>> \in Seq(0 .. MaxArrivals)
      BY NothingType
    <2>2. /\ 1 \in Nat \ {0} /\ 0 \in Nat /\ 0 \in 0 .. MaxArrivals
          /\ ErrorActive \in ErrorActive .. BusOff /\ Stopped \in ErrorActive .. Stopped
      BY CanNetDevAssumption DEF ErrorActive, Stopped, BusOff
    <2> QED BY <2>1, <2>2 DEF Init, CanInit, CanTypeOK
  <1>2. SunTypeOK
    <2>1. due \in BOOLEAN /\ start \in {"idle", "open", "restart"} /\ told \in BOOLEAN
      BY Zenon DEF Init, SunInit
    <2>2. irq \in [pc : {"idle", "status", "tx", "rx", "err", "clear"},
                   isrc : SUBSET Flags, bus : ErrorActive .. BusOff, rdy : BOOLEAN]
      BY DEF Init, SunInit, IrqIdle, ErrorActive, BusOff
    <2>3. flags \subseteq Flags /\ fifo \in Seq(1 .. MaxArrivals)
      BY NothingType DEF Init, SunInit
    <2> QED BY <2>1, <2>2, <2>3 DEF SunTypeOK
  <1>3. BangedTypeOK /\ FullHold
    <2>1. NoFrames \in [0 .. 1 -> 0 .. MaxArrivals]
      BY CanNetDevAssumption DEF NoFrames, None
    <2>2. IstIdle \in IstType
      BY DEF IstIdle, IstType, ErrorActive, BusOff
    <2> QED BY <2>1, <2>2 DEF Init, BangedInit, BangedTypeOK, FullHold, IstType
  <1>4. SunInv
    BY DEF Init, CanInit, SunInit, IrqIdle, SunInv, SunControl, SunFrame, SunStarting, SunOff, SunDone
  <1>5. BangedInv
    BY DEF Init, CanInit, BangedInit, IstIdle, BangedInv, BangedDone
  <1> QED BY <1>1, <1>2, <1>3, <1>4, <1>5 DEF Inv, TypeOK

LEMMA DriverStays == [Next]_vars => driver' = driver
  BY DEF Next, vars, canVars, setup, SunNext, SunIrq, SunXmit, SunRequest, SunTransmit, SunArrive,
     SunError, SunIrqRead, SunIrqStatus, SunIrqTx, SunIrqRx, SunIrqErr, SunIrqClear, SunRestart,
     SunOpen, SunStarted, SunClose, SunClosed, BangedNext, Ist, BangedXmit, BangedLoad, BangedTransmit,
     BangedArrive, BangedError, BangedRecover, IstStart, IstReadFlags, IstReadErrors, IstRx0,
     IstRx1, IstRx, IstClear, IstState, IstOnly, BangedRestart, BangedOpen, BangedStop, BangedStopped

LEMMA Step == Inv /\ [Next]_vars => Inv'
<1> SUFFICES ASSUME Inv, [Next]_vars PROVE Inv'
  OBVIOUS
<1>0. driver' = driver
  BY DriverStays
<1>1. CASE driver = "sun4i" /\ SunNext /\ UNCHANGED bangedVars
  <2>1. TypeOK'
    BY <1>1, SunTypeStep DEF Inv
  <2>2. SunInv'
    BY <1>1, SunStep DEF Inv
  <2>3. FullHold'
    BY <1>1 DEF Inv, FullHold, bangedVars
  <2> QED BY <1>0, <1>1, <2>1, <2>2, <2>3 DEF Inv
<1>2. CASE driver = "mcp2515" /\ BangedNext /\ UNCHANGED sunVars
  <2>1. TypeOK' /\ FullHold'
    BY <1>2, BangedTypeStep DEF Inv
  <2>2. BangedInv'
    BY <1>2, BangedStep DEF Inv
  <2> QED BY <1>0, <1>2, <2>1, <2>2 DEF Inv
<1>3. CASE UNCHANGED vars
  <2>1. TypeOK'
    BY <1>3 DEF Inv, TypeOK, CanTypeOK, SunTypeOK, BangedTypeOK, vars, canVars, sunVars, bangedVars,
       setup, stack, chip, sent, reports, received, bounds, starting
  <2>2. FullHold' /\ (SunInv => SunInv') /\ (BangedInv => BangedInv')
    BY <1>3 DEF Inv, FullHold, SunInv, SunControl, SunFrame, SunStarting, SunOff, SunDone, starting, BangedInv, BangedDone,
       vars, canVars, sunVars, bangedVars, stack, chip
  <2> QED BY <1>0, <2>1, <2>2 DEF Inv
<1> QED BY <1>1, <1>2, <1>3 DEF Next

(* For any number of frames, arrivals, errors and openings, and any size of*)
(* the receive FIFO, every variable of both drivers keeps its type.        *)
THEOREM TypeCorrect == Spec => []TypeOK
<1>1. Inv => TypeOK
  BY DEF Inv
<1> QED BY Initially, Step, <1>1, PTL DEF Spec

-----------------------------------------------------------------------------
(* The queue of one frame.                                                 *)

Waiting == Waits(txbuf, txreq) \o Waits(xmit, xmit # None)

LEMMA ConcatOne ==
  ASSUME NEW x
  PROVE  <<x>> \o <<>> = <<x>> /\ <<>> \o <<x>> = <<x>> /\ <<>> \o <<>> = <<>>
  BY ConcatEmptySeq

(* A frame waits in one place only.                                        *)
LEMMA OnePlace ==
  Inv => /\ txreq => xmit = None /\ Waiting = <<txbuf>>
         /\ ~txreq /\ xmit # None => Waiting = <<xmit>>
         /\ ~txreq /\ xmit = None => Waiting = <<>>
<1> SUFFICES ASSUME Inv
             PROVE  /\ txreq => xmit = None /\ Waiting = <<txbuf>>
                    /\ ~txreq /\ xmit # None => Waiting = <<xmit>>
                    /\ ~txreq /\ xmit = None => Waiting = <<>>
  OBVIOUS
<1>1. txreq => xmit = None
  BY DEF Inv, TypeOK, CanTypeOK, SunInv, SunFrame, BangedInv
<1>2. CASE txreq
  BY <1>1, <1>2, ConcatOne DEF Waiting, Waits
<1>3. CASE ~txreq /\ xmit # None
  BY <1>3, ConcatOne DEF Waiting, Waits
<1>4. CASE ~txreq /\ xmit = None
  BY <1>4, ConcatOne DEF Waiting, Waits
<1> QED BY <1>1, <1>2, <1>3, <1>4

(* A step that takes nothing in and sends nothing either moves the frame   *)
(* from start_xmit to the transmit buffer or drops it.                     *)
Keeps ==
  /\ UNCHANGED <<next, wire>>
  /\ \/ UNCHANGED <<txbuf, txreq, xmit>>
     \/ ~txreq' /\ xmit' = None
     \/ xmit # None /\ ~txreq /\ txbuf' = xmit /\ txreq' /\ xmit' = None

LEMMA KeepsOrCloses ==
  Inv /\ Keeps => [TxQueue!Next]_TxQueue!vars
<1> SUFFICES ASSUME Inv, Keeps PROVE [TxQueue!Next]_TxQueue!vars
  OBVIOUS
<1>1. Waiting' = Waiting \/ Waiting' = <<>>
  <2>1. CASE UNCHANGED <<txbuf, txreq, xmit>>
    BY <2>1 DEF Waiting, Waits
  <2>2. CASE ~txreq' /\ xmit' = None
    BY <2>2, ConcatOne DEF Waiting, Waits
  <2>3. CASE xmit # None /\ ~txreq /\ txbuf' = xmit /\ txreq' /\ xmit' = None
    BY <2>3, ConcatOne DEF Waiting, Waits
  <2> QED BY <2>1, <2>2, <2>3 DEF Keeps
<1>2. next' = next /\ wire' = wire
  BY DEF Keeps
<1> QED BY <1>1, <1>2 DEF TxQueue!Next, TxQueue!Close, TxQueue!vars, Waiting

(* Every step of either driver keeps the frame, takes one in when there is *)
(* none, or sends the one in the transmit buffer.                          *)
Accepts ==
  /\ xmit = None /\ ~txreq /\ ~txreq'
  /\ xmit' = next /\ next \in Frames /\ next' = next + 1
  /\ UNCHANGED wire
Sends ==
  /\ txreq /\ ~txreq' /\ wire' = Append(wire, txbuf)
  /\ UNCHANGED <<xmit, next>>

LEMMA SunMoves ==
  Inv /\ driver = "sun4i" /\ SunNext => Accepts \/ Sends \/ Keeps
<1> SUFFICES ASSUME Inv, driver = "sun4i", SunNext PROVE Accepts \/ Sends \/ Keeps
  OBVIOUS
<1> USE DEF Accepts, Sends, Keeps, stack, chip, sent
<1>i. SunFrame /\ SunOff
  BY DEF Inv, SunInv
<1>1. CASE SunXmit
  BY <1>1, <1>i DEF SunXmit, MayXmit, SunFrame
<1>2. CASE SunRequest
  BY <1>2, <1>i DEF SunRequest, SunFrame
<1>3. CASE SunTransmit
  BY <1>3 DEF SunTransmit, Transmit
<1>4. CASE SunArrive \/ SunError
  BY <1>4 DEF SunArrive, SunError, ErrorStep
<1>5. CASE SunIrq
  BY <1>5 DEF SunIrq, SunIrqRead, SunIrqStatus, SunIrqTx, SunIrqRx, SunIrqErr, SunIrqClear, canVars
<1>6. CASE SunRestart
  BY <1>6, <1>i DEF SunRestart, EnterNormal, ResetMode, SunFrame, SunOff
<1>7. CASE SunOpen \/ SunClose
  BY <1>7, <1>i DEF SunOpen, EnterNormal, SunClose, ResetMode, SunFrame
<1>8. CASE SunStarted \/ SunClosed
  BY <1>8 DEF SunStarted, SunClosed
<1> QED BY <1>1, <1>2, <1>3, <1>4, <1>5, <1>6, <1>7, <1>8 DEF SunNext

LEMMA BangedMoves ==
  Inv /\ driver = "mcp2515" /\ BangedNext => Accepts \/ Sends \/ Keeps
<1> SUFFICES ASSUME Inv, driver = "mcp2515", BangedNext PROVE Accepts \/ Sends \/ Keeps
  OBVIOUS
<1> USE DEF Accepts, Sends, Keeps, stack, chip, sent
<1>i. BangedInv
  BY DEF Inv
<1>1. CASE BangedXmit
  BY <1>1, <1>i DEF BangedXmit, MayXmit, BangedInv
<1>2. CASE BangedLoad
  BY <1>2, <1>i DEF BangedLoad, Clean, BangedInv
<1>3. CASE BangedTransmit
  BY <1>3 DEF BangedTransmit, Transmit
<1>4. CASE BangedArrive \/ BangedError \/ BangedRecover
  BY <1>4 DEF BangedArrive, BangedError, BangedRecover, ErrorStep
<1>5. CASE Ist
  BY <1>5 DEF Ist, IstStart, IstReadFlags, IstReadErrors, IstOnly, IstRx0, IstRx1, IstRx, IstClear,
     IstState, canVars
<1>6. CASE BangedRestart
  BY <1>6, <1>i DEF BangedRestart, Clean, BangedInv
<1>7. CASE BangedOpen \/ BangedStopped
  BY <1>7, <1>i DEF BangedOpen, BangedStopped, Clean
<1>8. CASE BangedStop
  BY <1>8 DEF BangedStop
<1> QED BY <1>1, <1>2, <1>3, <1>4, <1>5, <1>6, <1>7, <1>8 DEF BangedNext

LEMMA QueueStep ==
  Inv /\ [Next]_vars => [TxQueue!Next]_TxQueue!vars
<1> SUFFICES ASSUME Inv, [Next]_vars PROVE [TxQueue!Next]_TxQueue!vars
  OBVIOUS
<1>1. Accepts \/ Sends \/ Keeps
  BY SunMoves, BangedMoves DEF Next, Keeps, vars, canVars, chip, sent
<1>n. next \in Nat
  BY DEF Inv, TypeOK, CanTypeOK
<1>2. CASE Accepts
  <2>1. Waiting = <<>> /\ Waiting' = <<next>>
    <3>1. Waiting = <<>>
      BY <1>2, OnePlace DEF Accepts
    <3>2. ~txreq' /\ xmit' = next /\ xmit' # None
      BY <1>2, Constants DEF Accepts
    <3> QED BY <3>1, <3>2, ConcatOne DEF Waiting, Waits
  <2>2. next' - 1 = next /\ (next - 1) + 1 = next
    BY <1>2, <1>n DEF Accepts
  <2>3. Len(Waiting) < 1 /\ Waiting' = Append(Waiting, next)
    BY <2>1
  <2> QED BY <1>2, <2>2, <2>3 DEF Accepts, TxQueue!Next, TxQueue!Accept, Waiting
<1>3. CASE Sends
  <2>1. Waiting = <<txbuf>> /\ Waiting' = <<>>
    <3>1. xmit = None /\ Waiting = <<txbuf>>
      BY <1>3, OnePlace DEF Sends
    <3>2. ~txreq' /\ xmit' = None
      BY <1>3, <3>1 DEF Sends
    <3> QED BY <3>1, <3>2, ConcatOne DEF Waiting, Waits
  <2>2. Waiting # <<>> /\ Head(Waiting) = txbuf /\ Waiting' = Tail(Waiting)
    BY <2>1
  <2> QED BY <1>3, <2>2 DEF Sends, TxQueue!Next, TxQueue!Transmit, Waiting
<1> QED BY <1>1, <1>2, <1>3, KeepsOrCloses

(* For any number of frames, arrivals, errors and openings: each driver    *)
(* implements a queue of one frame.  No frame is overwritten in the        *)
(* transmit buffer and frames are sent in order, whatever restarts, resets *)
(* and late interrupts do to the state of the stack's queue.               *)
THEOREM QueueImplemented == Spec => ImplementsCanTxQueue
<1>1. Init => TxQueue!Init
  BY ConcatOne DEF Init, CanInit, TxQueue!Init, Waits
<1> QED BY Initially, Step, QueueStep, <1>1, PTL DEF Spec, ImplementsCanTxQueue, TxQueue!Spec

-----------------------------------------------------------------------------
(* What the stack is told.                                                 *)

(* A transmission whose report is still to come has not been counted.  An  *)
(* echo is younger than all that were looped back; it is the frame in      *)
(* start_xmit, in the transmit buffer or, once that is done, on the wire.  *)
Done == IF driver = "sun4i" THEN SunDone ELSE BangedDone
Reports ==
  /\ ReportsFollowWire
  /\ Done => reported < Len(wire)
  /\ \A i \in 1 .. Len(looped) : looped[i] < next /\ (echo # None => looped[i] < echo)
  /\ driver = "mcp2515" => echo = None

SunEcho ==
  /\ echo < next
  /\ echo # None /\ txreq => echo = txbuf
  /\ echo # None /\ xmit # None => echo = xmit
  /\ echo # None /\ SunDone => echo \in Range(wire)
  /\ queue = "running" => echo = None
  /\ link = "down" \/ start # "idle" => echo = None

ReportInv == Inv /\ Reports /\ (driver = "sun4i" => SunEcho)

LEMMA RangeAppend ==
  ASSUME NEW S, NEW q \in Seq(S), NEW e \in S
  PROVE  Range(Append(q, e)) = Range(q) \cup {e} /\ Len(Append(q, e)) = Len(q) + 1
<1>1. DOMAIN Append(q, e) = 1 .. Len(q) + 1 /\ DOMAIN q = 1 .. Len(q) /\ Len(q) \in Nat
  OBVIOUS
<1>2. \A i \in 1 .. Len(q) + 1 : Append(q, e)[i] = IF i = Len(q) + 1 THEN e ELSE q[i]
  OBVIOUS
<1>3. Range(q) \cup {e} \subseteq Range(Append(q, e))
  BY <1>1, <1>2 DEF Range
<1>4. Range(Append(q, e)) \subseteq Range(q) \cup {e}
  BY <1>1, <1>2 DEF Range
<1> QED BY <1>3, <1>4

(* A step that reports nothing: it may send or flush the echo slot.        *)
LEMMA NothingReported ==
  ASSUME Inv, Reports, UNCHANGED <<reported, looped, driver>>,
         Done' => Done \/ Len(wire') = Len(wire) + 1,
         wire' = wire \/ wire' = Append(wire, txbuf),
         next' \in {next, next + 1}, echo' \in {echo, next, None},
         driver = "mcp2515" => echo' \in {echo, None}
  PROVE  Reports'
<1>1. /\ wire \in Seq(Frames \cup {None}) /\ txbuf \in Frames \cup {None}
      /\ next \in Nat /\ reported \in Nat /\ looped \in Seq(Frames)
  BY DEF Inv, TypeOK, CanTypeOK
<1>2. Len(wire) \in Nat /\ Len(wire') \in {Len(wire), Len(wire) + 1} /\ Range(wire) \subseteq Range(wire')
  <2>1. CASE wire' = wire
    BY <1>1, <2>1
  <2>2. CASE wire' = Append(wire, txbuf)
    <3>1. Range(wire') = Range(wire) \cup {txbuf} /\ Len(wire') = Len(wire) + 1
      BY <1>1, <2>2, RangeAppend
    <3> QED BY <1>1, <3>1
  <2> QED BY <2>1, <2>2
<1>3. ReportsFollowWire'
  BY <1>1, <1>2 DEF Reports, ReportsFollowWire
<1>4. Done' => reported < Len(wire')
  BY <1>1, <1>2 DEF Reports, ReportsFollowWire
<1>5. \A i \in 1 .. Len(looped) : looped[i] \in Nat
  <2>1. \A i \in 1 .. Len(looped) : looped[i] \in Frames
    BY <1>1
  <2> QED BY <2>1, Constants
<1>6. \A i \in 1 .. Len(looped) : looped[i] < next' /\ (echo' # None => looped[i] < echo')
  BY <1>1, <1>5 DEF Reports
<1> QED BY <1>3, <1>4, <1>6 DEF Reports

LEMMA SunReports ==
  ASSUME ReportInv, driver = "sun4i", driver' = driver, SunNext
  PROVE  Reports' /\ SunEcho'
<1> USE DEF stack, chip, sent, reports, starting
<1>i. Inv /\ Reports /\ SunEcho /\ SunControl /\ SunFrame /\ SunStarting /\ SunOff
  BY DEF ReportInv, Inv, SunInv
<1>t. /\ wire \in Seq(Frames \cup {None}) /\ txbuf \in Frames \cup {None}
      /\ next \in Nat \ {0} /\ reported \in Nat /\ looped \in Seq(Frames)
      /\ echo \in Frames \cup {None} /\ Frames \subseteq Nat /\ None \notin Frames /\ None = 0
  BY <1>i, Constants DEF Inv, TypeOK, CanTypeOK, None
<1>r. irq \in [pc : {"idle", "status", "tx", "rx", "err", "clear"},
              isrc : SUBSET Flags, bus : ErrorActive .. BusOff, rdy : BOOLEAN]
  BY <1>i DEF Inv, TypeOK, SunTypeOK
<1>o. start \in {"idle", "open", "restart"}
  BY <1>i DEF Inv, TypeOK, SunTypeOK
<1>d. Done = SunDone /\ Done' = SunDone'
  BY DEF Done
<1>1. CASE SunXmit
  <2>1. /\ echo = None /\ echo' = next /\ xmit' = next /\ txreq' = txreq /\ ~txreq
        /\ SunDone' = SunDone /\ queue' = "stopped" /\ link' = "up" /\ next' = next + 1
        /\ wire' = wire /\ ~SunDone
    BY <1>1, <1>i DEF SunXmit, MayXmit, StopQueue, PutEcho, sunVars, SunEcho, SunFrame, SunDone
  <2>4. start = "idle" /\ start' = start
    BY <1>1, <1>i, <1>o DEF SunXmit, MayXmit, sunVars, SunStarting
  <2>2. UNCHANGED <<reported, looped>>
    BY <1>1 DEF SunXmit
  <2>3. Reports'
    BY <1>i, <1>d, <2>1, <2>2, NothingReported
  <2> QED BY <1>t, <2>1, <2>3, <2>4 DEF SunEcho
<1>2. CASE SunTransmit
  <2>1. txreq /\ xmit = None /\ ~SunDone
    BY <1>2, <1>i DEF SunTransmit, Transmit, SunFrame
  <2>2. /\ wire' = Append(wire, txbuf) /\ ~txreq'
        /\ UNCHANGED <<reported, looped, next, echo, xmit, queue, link, start>>
    BY <1>2 DEF SunTransmit, Transmit
  <2>3. Range(wire') = Range(wire) \cup {txbuf} /\ Len(wire') = Len(wire) + 1
    BY <1>t, <2>2, RangeAppend
  <2>4. Reports'
    BY <1>i, <2>2, <2>3, NothingReported
  <2>5. SunEcho'
    BY <1>i, <2>1, <2>2, <2>3 DEF SunEcho
  <2> QED BY <2>4, <2>5
<1>3. CASE SunIrqTx
  <2>1. /\ SunDone /\ ~SunDone' /\ ~txreq /\ xmit = None
        /\ UNCHANGED <<txreq, xmit, txbuf, wire, next, link>>
        /\ reported' = reported + 1 /\ echo' = None /\ queue' = "running"
        /\ looped' = IF echo = None THEN looped ELSE Append(looped, echo)
    BY <1>3, <1>i, <1>r DEF SunIrqTx, RxOr, AfterRx, GetEcho, EchoGone, SunControl, SunFrame, SunDone
  <2>2. reported' <= Len(wire')
    BY <1>i, <1>t, <1>d, <2>1 DEF Reports
  <2>3. /\ Range(looped') \subseteq Range(wire')
        /\ \A i, j \in 1 .. Len(looped') : i < j => looped'[i] < looped'[j]
        /\ \A i \in 1 .. Len(looped') : looped'[i] < next'
    <3>1. CASE echo = None
      BY <1>i, <2>1, <3>1 DEF Reports, ReportsFollowWire
    <3>2. CASE echo # None
      <4>1. looped' = Append(looped, echo) /\ echo \in Frames
        BY <1>t, <2>1, <3>2
      <4>2. Range(looped') = Range(looped) \cup {echo} /\ Len(looped') = Len(looped) + 1
        BY <1>t, <4>1, RangeAppend
      <4>3. Range(looped') \subseteq Range(wire')
        BY <1>i, <2>1, <3>2, <4>2 DEF Reports, ReportsFollowWire, SunEcho
      <4>4. \A i \in 1 .. Len(looped') :
               looped'[i] = IF i = Len(looped) + 1 THEN echo ELSE looped[i]
        BY <1>t, <4>1
      <4>5. Len(looped) \in Nat /\ echo < next
        BY <1>i, <1>t DEF SunEcho
      <4>6. /\ \A i \in 1 .. Len(looped) : looped[i] < next /\ looped[i] < echo
            /\ \A i, j \in 1 .. Len(looped) : i < j => looped[i] < looped[j]
        BY <1>i, <3>2 DEF Reports, ReportsFollowWire
      <4> QED BY <2>1, <4>2, <4>3, <4>4, <4>5, <4>6
    <3> QED BY <3>1, <3>2
  <2>4. Reports'
    BY <1>d, <2>1, <2>2, <2>3 DEF Reports, ReportsFollowWire
  <2>5. SunEcho'
    BY <1>t, <2>1 DEF SunEcho
  <2> QED BY <2>4, <2>5
<1>4. CASE SunRestart \/ SunClosed \/ SunOpen \/ SunStarted
  <2>1. /\ echo' = None
        /\ UNCHANGED <<reported, looped, wire, next>> /\ (SunDone' => SunDone)
    BY <1>4, <1>i DEF SunRestart, SunClosed, SunOpen, SunStarted, EnterNormal, ResetMode, SunDone, SunEcho, sunVars
  <2>2. Reports'
    BY <1>i, <1>d, <2>1, NothingReported
  <2> QED BY <1>t, <2>1, <2>2 DEF SunEcho
<1>5. CASE \/ SunRequest \/ SunArrive \/ SunError \/ SunIrqRead \/ SunIrqStatus \/ SunIrqRx
           \/ SunIrqErr \/ SunIrqClear \/ SunClose
  <2>1. UNCHANGED <<reported, looped, wire, next, echo, txbuf, start>>
    BY <1>5 DEF SunRequest, SunArrive, SunError, ErrorStep, SunIrqRead, SunIrqStatus, SunIrqRx,
       SunIrqErr, SunIrqClear, SunClose, ResetMode, canVars, sunVars
  <2>2. /\ queue' \in {queue, "stopped"} /\ link' \in {link, "closing"}
        /\ xmit' # None => xmit' = xmit
    BY <1>5 DEF SunRequest, SunArrive, SunError, ErrorStep, SunIrqRead, SunIrqStatus, SunIrqRx,
       SunIrqErr, SunIrqClear, SunClose, ResetMode, canVars
  <2>6. txreq' => txreq \/ (xmit # None /\ txbuf = xmit)
    <3>1. CASE SunRequest
      BY <3>1, <1>i DEF SunRequest, SunFrame
    <3>2. CASE ~SunRequest
      BY <1>5, <3>2 DEF SunArrive, SunError, ErrorStep, SunIrqRead, SunIrqStatus, SunIrqRx,
         SunIrqErr, SunIrqClear, SunClose, ResetMode, canVars
    <3> QED BY <3>1, <3>2
  <2>3. SunDone' => SunDone
    <3>1. CASE SunRequest \/ SunArrive \/ SunError \/ SunClose
      <4>1. irq' = irq /\ ("TBUF_VLD" \in flags' => "TBUF_VLD" \in flags)
        BY <3>1 DEF SunRequest, SunArrive, SunError, SunClose, ResetMode, sunVars
      <4> QED BY <4>1 DEF SunDone
    <3>2. CASE SunIrqRead \/ SunIrqStatus
      BY <3>2, <1>i, <1>r DEF SunIrqRead, SunIrqStatus, RxOr, AfterRx, SunControl, SunDone
    <3>3. CASE SunIrqRx \/ SunIrqErr
      <4>1. irq'.isrc = irq.isrc /\ irq'.pc \in {"rx", "err", "clear"} /\ flags' = flags
        BY <3>3, <1>r DEF SunIrqRx, SunIrqErr, RxOr, AfterRx
      <4> QED BY <4>1 DEF SunDone
    <3>4. CASE SunIrqClear
      BY <3>4 DEF SunIrqClear, Cleared, IrqIdle, SunDone
    <3> QED BY <1>5, <3>1, <3>2, <3>3, <3>4
  <2>4. Reports'
    BY <1>i, <1>d, <2>1, <2>3, NothingReported
  <2>5. SunEcho'
    BY <1>i, <2>1, <2>2, <2>3, <2>6 DEF SunEcho
  <2> QED BY <2>4, <2>5
<1> QED BY <1>1, <1>2, <1>3, <1>4, <1>5 DEF SunNext, SunIrq

LEMMA BangedReports ==
  ASSUME ReportInv, driver = "mcp2515", driver' = driver, BangedNext
  PROVE  Reports'
<1> USE DEF stack, chip, sent, reports, control, line
<1>i. Inv /\ Reports /\ BangedInv /\ echo = None
  BY DEF ReportInv, Inv, Reports
<1>t. /\ wire \in Seq(Frames \cup {None}) /\ txbuf \in Frames \cup {None}
      /\ reported \in Nat /\ ist \in IstType
  BY <1>i DEF Inv, TypeOK, CanTypeOK, BangedTypeOK, IstType
<1>d. Done = BangedDone /\ Done' = BangedDone'
  BY DEF Done
<1>1. CASE BangedTransmit
  <2>1. wire' = Append(wire, txbuf) /\ UNCHANGED <<reported, looped, next, echo>>
    BY <1>1 DEF BangedTransmit, Transmit
  <2>2. Len(wire') = Len(wire) + 1
    BY <1>t, <2>1, RangeAppend
  <2> QED BY <1>i, <2>1, <2>2, NothingReported
<1>2. CASE IstState
  <2>1. UNCHANGED <<wire, looped, next, echo, intf>> /\ ist'.intf = {}
    BY <1>2 DEF IstState, IstIdle
  <2>2. CASE TxDone
    <3>1. BangedDone /\ ~BangedDone' /\ reported' = reported + 1
      BY <1>2, <1>i, <2>1, <2>2 DEF IstState, TxDone, BangedDone, BangedInv
    <3>2. reported' <= Len(wire')
      BY <1>i, <1>t, <1>d, <2>1, <3>1 DEF Reports
    <3> QED BY <1>i, <1>d, <2>1, <3>1, <3>2 DEF Reports, ReportsFollowWire
  <2>3. CASE ~TxDone
    <3>1. reported' = reported /\ (BangedDone' => BangedDone)
      BY <1>2, <2>1, <2>3 DEF IstState, BangedDone
    <3> QED BY <1>i, <1>d, <2>1, <3>1, NothingReported
  <2> QED BY <2>2, <2>3
<1>3. CASE ~BangedTransmit /\ ~IstState
  <2>1. UNCHANGED <<wire, reported, looped, echo>> /\ next' \in {next, next + 1}
    BY <1>3 DEF BangedNext, Ist, BangedXmit, BangedLoad, BangedArrive, BangedError, BangedRecover,
       ErrorStep, IstStart, IstReadFlags, IstReadErrors, IstRx0, IstRx1, IstRx, IstClear, IstOnly,
       BangedRestart, BangedOpen, BangedStop, BangedStopped, canVars
  <2>2. BangedDone' => BangedDone
    <3>1. CASE BangedArrive \/ BangedError \/ BangedRecover
      <4>1. ist' = ist /\ ("TX0IF" \in intf' => "TX0IF" \in intf)
        BY <3>1 DEF BangedArrive, BangedError, BangedRecover, SetIntf, RxFlag
      <4> QED BY <4>1 DEF BangedDone
    <3>2. CASE Ist
      <4>1. ist'.intf \subseteq ist.intf \cup intf /\ intf' \subseteq intf
        <5>1. CASE IstReadFlags
          BY <1>t, <5>1 DEF IstReadFlags, IstOnly, IstIdle, IstType
        <5>2. CASE IstStart \/ IstReadErrors \/ IstRx0 \/ IstRx1 \/ IstClear
          <6>1. ist'.intf = ist.intf
            BY <1>t, <5>2 DEF IstStart, IstReadErrors, IstRx0, IstRx1, IstRx, IstClear, Goto, IstType
          <6>2. intf' \subseteq intf
            BY <5>2 DEF IstStart, IstReadErrors, IstRx0, IstRx1, IstRx, IstClear, IstOnly, Freed
          <6> QED BY <6>1, <6>2
        <5> QED BY <1>3, <3>2, <5>1, <5>2 DEF Ist
      <4> QED BY <4>1 DEF BangedDone
    <3>3. CASE BangedXmit \/ BangedLoad \/ BangedRestart \/ BangedOpen \/ BangedStop \/ BangedStopped
      BY <3>3 DEF BangedXmit, BangedLoad, BangedRestart, BangedOpen, BangedStop, BangedStopped,
         EmptyBuffers, BangedDone
    <3> QED BY <1>3, <3>1, <3>2, <3>3 DEF BangedNext
  <2> QED BY <1>i, <1>d, <2>1, <2>2, NothingReported
<1> QED BY <1>1, <1>2, <1>3

LEMMA ReportStep == ReportInv /\ [Next]_vars => ReportInv'
<1> SUFFICES ASSUME ReportInv, [Next]_vars PROVE ReportInv'
  OBVIOUS
<1>1. Inv'
  BY Step DEF ReportInv
<1>2. driver' = driver
  BY DriverStays
<1>3. CASE driver = "sun4i" /\ SunNext /\ UNCHANGED bangedVars
  BY <1>1, <1>2, <1>3, SunReports DEF ReportInv
<1>4. CASE driver = "mcp2515" /\ BangedNext /\ UNCHANGED sunVars
  BY <1>1, <1>2, <1>4, BangedReports DEF ReportInv
<1>5. CASE UNCHANGED vars
  <2>1. Reports' /\ (SunEcho => SunEcho')
    BY <1>5 DEF ReportInv, Reports, ReportsFollowWire, SunEcho, Done, SunDone, BangedDone, vars, canVars,
       sunVars, starting, bangedVars, setup, stack, chip, sent, reports
  <2> QED BY <1>1, <1>2, <2>1 DEF ReportInv
<1> QED BY <1>3, <1>4, <1>5 DEF Next

(* For any number of frames, arrivals, errors and openings: the stack is   *)
(* never told of more transmissions than there were, and is looped back    *)
(* only frames that were on the wire, each once and in order.              *)
THEOREM ReportsCorrect == Spec => []ReportsFollowWire
<1>1. Init => ReportInv
  <2>1. Init => Inv
    BY Initially
  <2>2. Init => Reports /\ SunEcho
    BY DEF Init, CanInit, SunInit, BangedInit, IrqIdle, IstIdle, Reports, ReportsFollowWire, SunEcho, Done,
       SunDone, BangedDone, Range, None
  <2> QED BY <2>1, <2>2 DEF ReportInv
<1>2. ReportInv => ReportsFollowWire
  BY DEF ReportInv, Reports
<1> QED BY <1>1, <1>2, ReportStep, PTL DEF Spec
-----------------------------------------------------------------------------
(* The state the drivers report.                                           *)

(* Unless a change of the error state came while a flag of an earlier one  *)
(* was set, sun4i has at most one error flag to handle, and it says what   *)
(* separates the state the driver reports from the controller's: a change  *)
(* to or from error passive, or any other, which the handler reads in the  *)
(* status register.  A handler that has only to clear the flag is done.    *)
(* Until the handler reports a state to a driver that starts, the state is *)
(* the one the start will write.                                           *)
ErrPending == Uncleared \cap ErrorFlags
Handled == irq.pc = "clear" /\ irq.isrc \cap ErrorFlags # {}

Shown == IF start # "idle" /\ ~told THEN ErrorActive ELSE canState

SunFollows ==
  link = "up" /\ "err" \notin overtaken =>
    /\ ErrPending \in {{}, {"ERR_WRN"}, {"ERR_PASSIVE"}}
    /\ ErrPending = {} \/ Handled => Shown = bus
    /\ ~Handled /\ "ERR_WRN" \in ErrPending =>
         /\ bus # ErrorPassive
         /\ "ERR_WRN" \in irq.isrc /\ irq.pc \in {"tx", "rx", "err"} => irq.bus = bus
    /\ ~Handled /\ "ERR_PASSIVE" \in ErrPending =>
         {Shown, bus} = {ErrorWarning, ErrorPassive}

(* The banged driver's handler may clear ERRIF after it has read an older  *)
(* state, but then it makes another pass; in its last pass the state it    *)
(* has read is the controller's or ERRIF is set again.  Off the bus and    *)
(* without restart-ms it has given up.                                     *)
BangedFollows ==
  link = "up" =>
    /\ canState = BusOff /\ ~autoRestart => forceQuit
    /\ ist.pc = "idle" /\ ~forceQuit => canState = bus \/ "ERRIF" \in intf
    /\ ist.pc \in {"rx0", "rx1", "clear", "state"} /\ "ERRIF" \notin ist.intf
         => ist.eflag = bus \/ "ERRIF" \in intf

FollowInv ==
  /\ Inv
  /\ driver = "sun4i" => SunFollows
  /\ driver = "mcp2515" => BangedFollows

LEMMA SunFollowStep ==
  ASSUME Inv, SunInv, SunFollows, SunNext
  PROVE  SunFollows'
<1> USE DEF stack, chip, starting
<1> SUFFICES ASSUME link' = "up", "err" \notin overtaken'
             PROVE  /\ ErrPending' \in {{}, {"ERR_WRN"}, {"ERR_PASSIVE"}}
                    /\ ErrPending' = {} \/ Handled' => Shown' = bus'
                    /\ ~Handled' /\ "ERR_WRN" \in ErrPending' =>
                         /\ bus' # ErrorPassive
                         /\ "ERR_WRN" \in irq'.isrc /\ irq'.pc \in {"tx", "rx", "err"}
                              => irq'.bus = bus'
                    /\ ~Handled' /\ "ERR_PASSIVE" \in ErrPending' =>
                         {Shown', bus'} = {ErrorWarning, ErrorPassive}
  BY DEF SunFollows
<1>t. /\ irq \in [pc : {"idle", "status", "tx", "rx", "err", "clear"},
                  isrc : SUBSET Flags, bus : ErrorActive .. BusOff, rdy : BOOLEAN]
      /\ flags \subseteq Flags /\ bus \in {0, 1, 2, 3} /\ Shown \in {0, 1, 2, 3, 4}
  BY Constants DEF Inv, TypeOK, SunTypeOK, CanTypeOK, ErrorStates, Shown, ErrorActive
<1>c. /\ irq.pc = "idle" => irq.isrc = {}
      /\ link = "down" => irq.pc = "idle"
      /\ start = "idle" => ~told
  BY DEF SunInv, SunControl, SunStarting
<1>e. ErrorFlags = {"ERR_WRN", "ERR_PASSIVE"} /\ ErrPending = (flags \cup irq.isrc) \cap ErrorFlags
      /\ ErrPending' = (flags' \cup irq'.isrc) \cap ErrorFlags
  BY DEF ErrorFlags, ErrPending, Uncleared
<1>1. CASE SunXmit \/ SunRequest \/ SunTransmit \/ SunArrive
  <2>1. /\ UNCHANGED <<irq, link, Shown, bus>>
        /\ flags' \cap ErrorFlags = flags \cap ErrorFlags
        /\ "err" \notin overtaken
    BY <1>1 DEF SunXmit, SunRequest, SunTransmit, Transmit, SunArrive, Overtakes, sunVars, ErrorFlags, Shown
  <2>2. ErrPending' = ErrPending /\ Handled' = Handled
    BY <1>e, <2>1 DEF Handled
  <2> QED BY <2>1, <2>2 DEF SunFollows
<1>2. CASE SunError
  <2>1. /\ UNCHANGED <<irq, link, Shown>> /\ bus' \in {bus - 1, bus + 1} \cap {0, 1, 2, 3}
        /\ bus # BusOff /\ "err" \notin overtaken /\ ErrPending = {}
        /\ flags' = flags \cup {IF {bus, bus'} = {ErrorWarning, ErrorPassive}
                                THEN "ERR_PASSIVE" ELSE "ERR_WRN"}
    BY <1>2, Constants DEF SunError, ErrorStep, Overtakes, ErrPending, ErrorStates, Shown
  <2>2. Shown = bus /\ irq.isrc \cap ErrorFlags = {} /\ ~Handled'
    BY <1>e, <2>1 DEF SunFollows, Handled
  <2>3. CASE {bus, bus'} = {ErrorWarning, ErrorPassive}
    BY <1>e, <2>1, <2>2, <2>3
  <2>4. CASE {bus, bus'} # {ErrorWarning, ErrorPassive}
    <3>1. bus' # ErrorPassive
      BY <1>t, <2>1, <2>4 DEF ErrorWarning, ErrorPassive, BusOff
    <3>2. ErrPending' = {"ERR_WRN"} /\ "ERR_WRN" \notin irq.isrc
      BY <1>e, <2>1, <2>2, <2>4
    <3> QED BY <2>1, <2>2, <3>1, <3>2
  <2> QED BY <2>3, <2>4
<1>3. CASE SunIrqRead
  <2>1. /\ UNCHANGED <<flags, link, Shown, bus, overtaken>>
        /\ irq.isrc = {} /\ irq'.isrc = flags /\ irq'.pc = "status" /\ ~Handled /\ ~Handled'
    BY <1>3, <1>c, <1>t DEF SunIrqRead, canVars, Handled, Shown
  <2>2. ErrPending' = ErrPending
    BY <1>e, <2>1
  <2> QED BY <2>1, <2>2 DEF SunFollows
<1>4. CASE SunIrqStatus \/ SunIrqRx
  <2>1. /\ UNCHANGED <<flags, link, Shown, bus, overtaken>>
        /\ irq'.isrc = irq.isrc /\ irq'.bus = bus /\ irq.pc \in {"status", "rx"}
        /\ irq'.pc = "clear" => irq.isrc \cap ErrorFlags = {}
    <3>1. CASE SunIrqStatus
      BY <3>1, <1>t DEF SunIrqStatus, RxOr, AfterRx, canVars, Shown
    <3>2. CASE SunIrqRx
      BY <3>2, <1>t DEF SunIrqRx, RxOr, AfterRx, Shown
    <3> QED BY <1>4, <3>1, <3>2
  <2>2. ErrPending' = ErrPending /\ ~Handled /\ ~Handled'
    BY <1>e, <2>1 DEF Handled
  <2> QED BY <2>1, <2>2 DEF SunFollows
<1>5. CASE SunIrqTx
  <2>1. /\ UNCHANGED <<flags, link, Shown, bus, overtaken>>
        /\ irq'.isrc = irq.isrc /\ irq'.bus = irq.bus /\ irq.pc = "tx"
        /\ irq'.pc = "clear" => irq.isrc \cap ErrorFlags = {}
    BY <1>5, <1>t DEF SunIrqTx, RxOr, AfterRx, Shown
  <2>2. ErrPending' = ErrPending /\ ~Handled /\ ~Handled'
    BY <1>e, <2>1 DEF Handled
  <2> QED BY <2>1, <2>2 DEF SunFollows
<1>6. CASE SunIrqErr
  <2>1. /\ UNCHANGED <<flags, link, bus, overtaken>>
        /\ irq'.isrc = irq.isrc /\ irq'.bus = irq.bus /\ irq.pc = "err" /\ irq'.pc = "clear"
        /\ canState' = NewCanState /\ ~Handled /\ start' = start
        /\ told' = (told \/ (start # "idle" /\ irq.isrc \cap ErrorFlags # {}))
    BY <1>6, <1>t DEF SunIrqErr, Handled
  <2>2. ErrPending' = ErrPending
    BY <1>e, <2>1
  <2>3. CASE irq.isrc \cap ErrorFlags = {}
    <3>1. Shown' = Shown /\ ~Handled'
      BY <1>e, <2>1, <2>3 DEF NewCanState, WarningState, Handled, Shown
    <3>2. "ERR_WRN" \notin irq.isrc
      BY <1>e, <2>3
    <3> QED BY <2>1, <2>2, <3>1, <3>2 DEF SunFollows
  <2>4. CASE irq.isrc \cap ErrorFlags # {}
    <3>1. Handled' /\ ErrPending \in {{"ERR_WRN"}, {"ERR_PASSIVE"}}
      BY <1>e, <2>1, <2>4 DEF Handled, SunFollows
    <3>0. Shown' = NewCanState
      BY <2>1, <2>4 DEF Shown
    <3>2. Shown' = bus
      <4>1. CASE ErrPending = {"ERR_WRN"}
        <5>1. "ERR_WRN" \in irq.isrc /\ "ERR_PASSIVE" \notin irq.isrc
          BY <1>e, <2>4, <4>1
        <5>2. bus # ErrorPassive /\ irq.bus = bus
          BY <2>1, <4>1, <5>1 DEF SunFollows
        <5> QED
          BY <1>t, <2>1, <3>0, <5>1, <5>2
             DEF NewCanState, WarningState, ErrorActive, ErrorWarning, ErrorPassive, BusOff
      <4>2. CASE ErrPending = {"ERR_PASSIVE"}
        <5>1. "ERR_PASSIVE" \in irq.isrc /\ "ERR_WRN" \notin irq.isrc
          BY <1>e, <2>4, <4>2
        <5>2. {Shown, bus} = {ErrorWarning, ErrorPassive}
          BY <2>1, <4>2 DEF SunFollows
        <5>3. canState = Shown
          BY <1>t, <2>1, <4>2, <5>2 DEF Shown, SunFollows, ErrorActive, ErrorWarning, ErrorPassive
        <5> QED
          BY <2>1, <3>0, <5>1, <5>2, <5>3 DEF NewCanState, WarningState, ErrorWarning, ErrorPassive
      <4> QED BY <3>1, <4>1, <4>2
    <3> QED BY <2>1, <2>2, <3>1, <3>2
  <2> QED BY <2>3, <2>4
<1>7. CASE SunIrqClear
  <2>1. /\ UNCHANGED <<link, Shown, bus, overtaken>> /\ irq.pc = "clear"
        /\ flags' = flags \ irq.isrc /\ irq'.isrc = {} /\ irq'.pc = "idle"
    BY <1>7 DEF SunIrqClear, Cleared, IrqIdle, canVars, Shown
  <2>2. CASE Handled
    <3>1. ErrPending' = {} /\ Shown = bus /\ ~Handled'
      BY <1>e, <2>1, <2>2 DEF Handled, SunFollows
    <3> QED BY <2>1, <3>1
  <2>3. CASE ~Handled
    <3>1. ErrPending' = ErrPending /\ ~Handled'
      BY <1>e, <2>1, <2>3 DEF Handled
    <3> QED BY <2>1, <2>3, <3>1 DEF SunFollows
  <2> QED BY <2>2, <2>3
<1>8. CASE SunRestart
  <2>0. /\ due /\ flags' = {} /\ irq' = irq /\ link' = link /\ link = "up"
        /\ start = "idle" /\ start' = "restart" /\ told' = told /\ bus' = ErrorActive
        /\ irq.isrc \cap ErrorFlags = {} \/ "err" \notin overtaken
    BY <1>8 DEF SunRestart, EnterNormal, ResetMode
  <2>1. Shown' = ErrorActive /\ bus = BusOff
    BY <1>c, <2>0 DEF Shown, SunInv, SunOff
  <2>2. CASE irq.isrc \cap ErrorFlags = {}
    BY <1>e, <2>0, <2>1, <2>2
  <2>3. CASE irq.isrc \cap ErrorFlags # {}
    <3>1. Handled
      <4>1. "ERR_WRN" \in irq.isrc => irq.pc = "clear"
        BY <2>0 DEF SunInv, SunOff
      <4>2. ~Handled => "ERR_PASSIVE" \notin irq.isrc
        BY <1>e, <2>0, <2>1, <2>3 DEF SunFollows, ErrorWarning, ErrorPassive, BusOff
      <4> QED BY <1>e, <2>3, <4>1, <4>2 DEF Handled
    <3>2. Handled' /\ ErrPending' \subseteq ErrPending /\ ErrPending' # {}
      BY <1>e, <2>0, <2>3, <3>1 DEF Handled
    <3>3. ErrPending \in {{"ERR_WRN"}, {"ERR_PASSIVE"}}
      BY <1>e, <2>0, <2>3 DEF SunFollows
    <3>4. ErrPending' = ErrPending
      BY <3>2, <3>3
    <3> QED BY <2>0, <2>1, <3>2, <3>3, <3>4
  <2> QED BY <2>0, <2>2, <2>3
<1>9. CASE SunOpen
  <2>1. /\ irq.isrc = {} /\ irq' = irq /\ flags' = {} /\ bus' = ErrorActive
        /\ Shown' = ErrorActive
    BY <1>9, <1>c DEF SunOpen, EnterNormal, ResetMode, Shown
  <2> QED BY <1>e, <2>1
<1>11. CASE SunStarted
  <2>1. /\ UNCHANGED <<irq, flags, link, bus>> /\ "err" \notin overtaken
        /\ ~(told /\ canState # ErrorActive)
        /\ start # "idle" /\ start' = "idle" /\ canState' = ErrorActive
    BY <1>11 DEF SunStarted, Overtakes, WrittenOver
  <2>2. Shown' = Shown /\ ErrPending' = ErrPending /\ Handled' = Handled
    BY <1>e, <2>1 DEF Shown, Handled
  <2> QED BY <2>1, <2>2 DEF SunFollows
<1>10. CASE SunClose \/ SunClosed
  BY <1>10 DEF SunClose, SunClosed
<1> QED
  BY <1>1, <1>2, <1>3, <1>4, <1>5, <1>6, <1>7, <1>8, <1>9, <1>10, <1>11 DEF SunNext, SunIrq

LEMMA BangedFollowStep ==
  ASSUME Inv, BangedInv, BangedFollows, BangedNext
  PROVE  BangedFollows'
<1> USE DEF stack, chip, control, line
<1> SUFFICES ASSUME link' = "up"
             PROVE  /\ canState' = BusOff /\ ~autoRestart' => forceQuit'
                    /\ ist'.pc = "idle" /\ ~forceQuit' => canState' = bus' \/ "ERRIF" \in intf'
                    /\ ist'.pc \in {"rx0", "rx1", "clear", "state"} /\ "ERRIF" \notin ist'.intf
                         => ist'.eflag = bus' \/ "ERRIF" \in intf'
  BY DEF BangedFollows
<1>t. ist \in IstType
  BY DEF Inv, TypeOK, BangedTypeOK, IstType
<1>a. autoRestart' = autoRestart
  BY DEF BangedNext, Ist, BangedXmit, BangedLoad, BangedTransmit, BangedArrive, BangedError,
     BangedRecover, IstStart, IstReadFlags, IstReadErrors, IstRx0, IstRx1, IstRx, IstClear, IstState,
     IstOnly, BangedRestart, BangedOpen, BangedStop, BangedStopped, canVars, setup
<1>1. CASE BangedXmit \/ BangedLoad \/ BangedTransmit \/ BangedArrive
  <2>1. UNCHANGED <<link, canState, forceQuit, bus, ist>> /\ intf \subseteq intf'
    BY <1>1 DEF BangedXmit, BangedLoad, BangedTransmit, Transmit, BangedArrive, SetIntf
  <2> QED BY <1>a, <2>1 DEF BangedFollows
<1>2. CASE BangedError \/ BangedRecover
  <2>1. UNCHANGED <<link, canState, forceQuit, ist>> /\ "ERRIF" \in intf'
    BY <1>2 DEF BangedError, BangedRecover, SetIntf
  <2> QED BY <1>a, <2>1 DEF BangedFollows
<1>3. CASE IstStart \/ IstReadFlags
  <2>1. /\ UNCHANGED <<link, canState, forceQuit, bus, intf>>
        /\ ist'.pc \in {"loop", "eflag"} \/ (ist'.pc = "idle" /\ forceQuit)
    <3>1. CASE IstStart
      BY <3>1, <1>t DEF IstStart, Goto, IstType, canVars
    <3>2. CASE IstReadFlags
      <4>1. UNCHANGED <<link, canState, forceQuit, bus, intf>>
        BY <3>2 DEF IstReadFlags, IstOnly, canVars
      <4>2. CASE forceQuit
        BY <3>2, <4>1, <4>2 DEF IstReadFlags, IstIdle
      <4>3. CASE ~forceQuit
        <5>1. ist' = [ist EXCEPT !.pc = "eflag", !.intf = intf]
          BY <3>2, <4>3 DEF IstReadFlags
        <5> QED BY <1>t, <4>1, <5>1 DEF IstType
      <4> QED BY <4>2, <4>3
    <3> QED BY <1>3, <3>1, <3>2
  <2> QED BY <1>a, <2>1 DEF BangedFollows
<1>4. CASE IstReadErrors
  <2>1. /\ UNCHANGED <<link, canState, forceQuit, bus, intf>>
        /\ ist'.pc # "idle" /\ ist'.eflag = bus
    BY <1>4, <1>t DEF IstReadErrors, IstOnly, Rx0Or, Rx1Or, ClearOr, IstType, canVars
  <2> QED BY <1>a, <2>1 DEF BangedFollows
<1>5. CASE IstRx0 \/ IstRx1 \/ IstClear
  <2>1. /\ UNCHANGED <<link, canState, forceQuit, bus>>
        /\ ist.pc \in {"rx0", "rx1", "clear"} /\ ist'.pc # "idle"
        /\ ist'.intf = ist.intf /\ ist'.eflag = ist.eflag
    BY <1>5, <1>t
       DEF IstRx0, IstRx1, IstRx, IstClear, Goto, Rx1Or, ClearOr, IstType, canVars
  <2>2. "ERRIF" \notin ist.intf /\ "ERRIF" \in intf => "ERRIF" \in intf'
    BY <1>5 DEF IstRx0, IstRx1, IstRx, IstClear, Freed, RxFlag
  <2> QED BY <1>a, <2>1, <2>2 DEF BangedFollows
<1>6. CASE IstState
  <2>1. /\ UNCHANGED <<link, bus, intf>> /\ ist.pc = "state" /\ canState' = ist.eflag
        /\ forceQuit' = (forceQuit \/ GivesUp)
        /\ ist'.pc = IF GivesUp \/ LastPass THEN "idle" ELSE "loop"
    BY <1>6 DEF IstState, IstIdle
  <2>2. canState' = BusOff /\ ~autoRestart' => forceQuit'
    BY <1>a, <2>1 DEF GivesUp
  <2>3. ist'.pc = "idle" /\ ~forceQuit' => canState' = bus' \/ "ERRIF" \in intf'
    <3>1. ist'.pc = "idle" /\ ~forceQuit' => ist.intf = {}
      BY <2>1 DEF LastPass
    <3> QED BY <2>1, <3>1 DEF BangedFollows
  <2> QED BY <2>1, <2>2, <2>3
<1>7. CASE BangedRestart
  <2>1. /\ forceQuit /\ UNCHANGED <<link, forceQuit, bus, ist, intf>> /\ canState' = ErrorActive
    BY <1>7 DEF BangedRestart, BangedFollows
  <2> QED BY <2>1 DEF BangedFollows, ErrorActive, BusOff
<1>8. CASE BangedOpen
  <2>1. canState' = ErrorActive /\ bus' = ErrorActive /\ ist'.pc = "idle"
    BY <1>8 DEF BangedOpen, BangedInv
  <2> QED BY <2>1 DEF ErrorActive, BusOff
<1>9. CASE BangedStop \/ BangedStopped
  BY <1>9 DEF BangedStop, BangedStopped
<1> QED
  BY <1>1, <1>2, <1>3, <1>4, <1>5, <1>6, <1>7, <1>8, <1>9 DEF BangedNext, Ist

LEMMA FollowStep == FollowInv /\ [Next]_vars => FollowInv'
<1> SUFFICES ASSUME FollowInv, [Next]_vars PROVE FollowInv'
  OBVIOUS
<1>1. Inv /\ Inv' /\ driver' = driver
  BY Step, DriverStays DEF FollowInv
<1>2. CASE driver = "sun4i" /\ SunNext /\ UNCHANGED bangedVars
  BY <1>1, <1>2, SunFollowStep DEF FollowInv, Inv
<1>3. CASE driver = "mcp2515" /\ BangedNext /\ UNCHANGED sunVars
  BY <1>1, <1>3, BangedFollowStep DEF FollowInv, Inv
<1>4. CASE UNCHANGED vars
  <2>1. (SunFollows => SunFollows') /\ (BangedFollows => BangedFollows')
    BY <1>4 DEF SunFollows, BangedFollows, ErrPending, Uncleared, Handled, Shown, vars, canVars,
       sunVars, bangedVars, setup, stack, chip, starting
  <2> QED BY <1>1, <2>1 DEF FollowInv
<1> QED BY <1>2, <1>3, <1>4 DEF Next

(* For any number of frames, arrivals, errors and openings: when nothing   *)
(* is left to handle the state the driver reports is the controller's,     *)
(* also after restarts, resets and handlers that use an older reading.     *)
THEOREM StateCorrect == Spec => []StateFollows
<1>1. Init => FollowInv
  <2>1. Init => Inv
    BY Initially
  <2>2. Init => SunFollows /\ BangedFollows
    BY DEF Init, CanInit, SunFollows, BangedFollows
  <2> QED BY <2>1, <2>2 DEF FollowInv
<1>2. FollowInv => StateFollows
  <2> SUFFICES ASSUME FollowInv, link = "up", Settled PROVE canState = bus
    BY DEF StateFollows
  <2>1. driver \in {"sun4i", "mcp2515"}
    BY DEF FollowInv, Inv, TypeOK, CanTypeOK
  <2>2. CASE driver = "sun4i"
    <3>1. SunFollows /\ irq.isrc = {} /\ flags \cap ErrorFlags = {} /\ "err" \notin overtaken
      BY <2>2 DEF FollowInv, Inv, SunInv, SunControl, Settled
    <3>2. ErrPending = {}
      BY <3>1 DEF ErrPending, Uncleared
    <3>3. Shown = canState
      BY <2>2 DEF Settled, Shown
    <3> QED BY <3>1, <3>2, <3>3 DEF SunFollows
  <2>3. CASE driver = "mcp2515"
    BY <2>3 DEF FollowInv, BangedFollows, Settled
  <2> QED BY <2>1, <2>2, <2>3
<1> QED BY <1>1, <1>2, FollowStep, PTL DEF Spec
=============================================================================
