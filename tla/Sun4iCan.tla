------------------------------ MODULE Sun4iCan ------------------------------
(***************************************************************************)
(* The driver of the Allwinner CAN controller.  Its interrupt handler      *)
(* reads the interrupt flags, handles what they say and writes them back   *)
(* to clear them; start_xmit, the bus and the CAN core's restart run beside*)
(* it on other processors.  What sets a flag again before it is cleared is *)
(* not seen; "overtaken" records for which kind of event that happened, as *)
(* well as a state the handler reported and sun4i_can_start wrote over.    *)
(***************************************************************************)
EXTENDS CanNetDev

CONSTANT RxSlots   (* frames the receive FIFO of the controller holds      *)

ASSUME Sun4iCanAssumption == RxSlots \in Nat \ {0}

VARIABLES
  flags,  (* SUN4I_REG_INT: the interrupt flags                            *)
  fifo,   (* the receive FIFO                                              *)
  irq,    (* the handler: pc, isrc, and the status register it has read    *)
  due,    (* restart_work is queued: can_bus_off was called                *)
  start,  (* sun4i_can_start in normal mode, for an open or a restart      *)
  told    (* history: the handler has reported a state meanwhile           *)

starting == <<start, told>>
sunVars == <<flags, fifo, irq, due, starting>>

ErrorFlags == {"ERR_WRN", "ERR_PASSIVE"}
Flags == {"TBUF_VLD", "RBUF_VLD", "DATA_OR"} \cup ErrorFlags
IrqIdle == [pc |-> "idle", isrc |-> {}, bus |-> ErrorActive, rdy |-> FALSE]

SunInit ==
  /\ flags = {} /\ fifo = <<>> /\ irq = IrqIdle
  /\ due = FALSE /\ start = "idle" /\ told = FALSE

(* Flags that are set, or that the handler is about to clear.              *)
Uncleared == flags \cup irq.isrc
Overtakes(kind, hidden) ==
  overtaken' = IF hidden THEN overtaken \cup {kind} ELSE overtaken

-----------------------------------------------------------------------------
(* sun4ican_start_xmit: the frame into the transmit buffer and into the    *)
(* echo slot, then the request.                                            *)

StaysRunning == "running"
StopQueue == "stopped"
SunXmit ==
  /\ MayXmit /\ start # "open" /\ xmit = None
  /\ queue' = StopQueue
  /\ txbuf' = next /\ xmit' = next /\ next' = next + 1
  /\ PutEcho(next)
  /\ UNCHANGED <<setup, link, canState, txreq, bus, wire, reports, received,
                 overtaken, bounds, sunVars>>

SunRequest ==
  /\ xmit # None
  /\ xmit' = None /\ txreq' = (bus # BusOff)
  /\ UNCHANGED <<setup, stack, echo, txbuf, bus, sent, reports, received,
                 overtaken, bounds, sunVars>>

-----------------------------------------------------------------------------
(* The controller.                                                         *)

SunTransmit ==
  /\ link = "up" /\ Transmit
  /\ flags' = flags \cup {"TBUF_VLD"}
  /\ Overtakes("tx", "TBUF_VLD" \in Uncleared)
  /\ UNCHANGED <<setup, stack, xmit, echo, reports, received, bounds, fifo, irq,
                 due, starting>>

(* The handler will clear RBUF_VLD without a further look at the FIFO.     *)
Drained ==
  /\ "RBUF_VLD" \in irq.isrc
  /\ irq.pc \in {"err", "clear"} \/ (irq.pc = "tx" /\ ~irq.rdy)

SunArrive ==
  /\ link = "up" /\ bus # BusOff /\ arrived < MaxArrivals
  /\ arrived' = arrived + 1
  /\ IF Len(fifo) < RxSlots
     THEN /\ fifo' = Append(fifo, arrived + 1)
          /\ flags' = flags \cup {"RBUF_VLD"}
          /\ Overtakes("rx", Drained)
          /\ UNCHANGED missed
     ELSE /\ missed' = missed \cup {arrived + 1}
          /\ flags' = flags \cup {"DATA_OR"}
          /\ UNCHANGED <<fifo, overtaken>>
  /\ UNCHANGED <<setup, stack, xmit, echo, chip, sent, reports, delivered,
                 bounds, irq, due, starting>>

SunError ==
  /\ link = "up" /\ ErrorStep
  /\ flags' = flags \cup
       {IF {bus, bus'} = {ErrorWarning, ErrorPassive} THEN "ERR_PASSIVE"
        ELSE "ERR_WRN"}
  /\ Overtakes("err", Uncleared \cap ErrorFlags # {})
  /\ UNCHANGED <<setup, stack, xmit, echo, sent, reports, received, fifo, irq,
                 due, starting>>

-----------------------------------------------------------------------------
(* sun4i_can_interrupt; one pass of its loop, which ends when no flag is   *)
(* set.  Each part runs when its flags are among those read.               *)
AfterRx ==
  IF irq.isrc \cap (ErrorFlags \cup {"DATA_OR"}) # {} THEN "err" ELSE "clear"
RxOr(rdy) == IF "RBUF_VLD" \in irq.isrc /\ rdy THEN "rx" ELSE AfterRx

SunIrqRead ==
  /\ irq.pc = "idle" /\ link = "up" /\ flags # {}
  /\ irq' = [irq EXCEPT !.pc = "status", !.isrc = flags]
  /\ UNCHANGED <<canVars, flags, fifo, due, starting>>

SunIrqStatus ==
  /\ irq.pc = "status"
  /\ irq' = [irq EXCEPT !.bus = bus, !.rdy = fifo # <<>>,
       !.pc = IF "TBUF_VLD" \in irq.isrc THEN "tx" ELSE RxOr(fifo # <<>>)]
  /\ UNCHANGED <<canVars, flags, fifo, due, starting>>

SunIrqTx ==
  /\ irq.pc = "tx"
  /\ irq' = [irq EXCEPT !.pc = RxOr(irq.rdy)]
  /\ reported' = reported + 1
  /\ GetEcho
  /\ queue' = "running"
  /\ UNCHANGED <<setup, link, canState, xmit, chip, sent, received, overtaken,
                 bounds, flags, fifo, due, starting>>

(* sun4i_can_rx reads the oldest frame, or what is left of an old one when *)
(* the FIFO was reset meanwhile, and releases its buffer; then the status  *)
(* is read again.                                                          *)
Release == IF fifo = <<>> THEN <<>> ELSE Tail(fifo)
SunIrqRx ==
  /\ irq.pc = "rx"
  /\ delivered' = Append(delivered, IF fifo = <<>> THEN None ELSE Head(fifo))
  /\ fifo' = Release
  /\ irq' = [irq EXCEPT !.bus = bus, !.rdy = Release # <<>>,
                        !.pc = RxOr(Release # <<>>)]
  /\ UNCHANGED <<setup, stack, xmit, echo, chip, sent, reports, arrived, missed,
                 overtaken, bounds, flags, due, starting>>

(* sun4i_can_err: an error warning interrupt takes the state from the      *)
(* status register, an error passive interrupt changes it to and fro.      *)
WarningState ==
  IF "ERR_WRN" \notin irq.isrc THEN canState
  ELSE IF irq.bus = BusOff THEN BusOff
  ELSE IF irq.bus = ErrorActive THEN ErrorActive ELSE ErrorWarning

PassiveAlways ==
  IF "ERR_PASSIVE" \notin irq.isrc THEN WarningState ELSE ErrorPassive
NewCanState ==
  IF "ERR_PASSIVE" \notin irq.isrc THEN WarningState
  ELSE IF WarningState = ErrorPassive THEN ErrorWarning ELSE ErrorPassive

SunIrqErr ==
  /\ irq.pc = "err"
  /\ canState' = NewCanState
  /\ due' = (due \/ (NewCanState = BusOff /\ canState # BusOff))
  /\ told' = (told \/ (start # "idle" /\ irq.isrc \cap ErrorFlags # {}))
  /\ irq' = [irq EXCEPT !.pc = "clear"]
  /\ UNCHANGED <<setup, link, queue, xmit, echo, chip, sent, reports, received,
                 overtaken, bounds, flags, fifo, start>>

AllCleared == {}
Cleared == flags \ irq.isrc
SunIrqClear ==
  /\ irq.pc = "clear"
  /\ flags' = Cleared
  /\ irq' = IrqIdle
  /\ UNCHANGED <<canVars, fifo, due, starting>>

-----------------------------------------------------------------------------
(* In reset mode the controller forgets its request, its frames and its    *)
(* interrupt flags.                                                        *)
ResetMode ==
  /\ txreq' = FALSE /\ flags' = {} /\ fifo' = <<>>
  /\ missed' = missed \cup Range(fifo)
  /\ UNCHANGED <<txbuf, arrived, delivered>>

(* sun4i_can_start until it has entered normal mode: whatever runs between *)
(* reset mode and normal mode finds the controller as it does before or    *)
(* after.  A handler that is still busy with an error flag will use what   *)
(* it has read before.                                                     *)
EnterNormal(why) ==
  /\ start = "idle" /\ start' = why
  /\ ResetMode
  /\ bus' = ErrorActive
  /\ overtaken' =
       IF irq.isrc \cap ErrorFlags = {} THEN {} ELSE overtaken \cap {"err"}
  /\ UNCHANGED <<queue, canState, irq, told>>

(* The CAN core restarts the device some time after bus-off: it flushes the*)
(* echo slot and calls sun4ican_set_mode.                                  *)
SunRestart ==
  /\ link # "down" /\ due
  /\ EnterNormal("restart")
  /\ due' = FALSE /\ echo' = None
  /\ UNCHANGED <<setup, link, xmit, sent, reports, bounds>>

SunOpen ==
  /\ link = "down"
  /\ opens < MaxOpens /\ opens' = opens + 1
  /\ EnterNormal("open")
  /\ link' = "up"
  /\ UNCHANGED <<setup, xmit, echo, sent, reports, errors, due>>

(* Interrupts are enabled by now; the end of sun4i_can_start writes over a *)
(* state that the handler has reported.  Then the queue is started, or     *)
(* woken if it is stopped.                                                 *)
WrittenOver == told /\ canState # ErrorActive
SunStarted ==
  /\ start # "idle" /\ start' = "idle" /\ told' = FALSE
  /\ canState' = ErrorActive
  /\ Overtakes("err", WrittenOver)
  /\ queue' = "running"
  /\ UNCHANGED <<setup, link, xmit, echo, chip, sent, reports, received, bounds,
                 flags, fifo, irq, due>>

(* sun4ican_close: the controller is stopped; free_irq then waits for the  *)
(* handler, and close_candev for restart_work or cancels it and flushes the*)
(* echo slot.                                                              *)
SunClose ==
  /\ link = "up" /\ start # "open" /\ xmit = None
  /\ link' = "closing" /\ queue' = "stopped" /\ canState' = Stopped
  /\ ResetMode
  /\ UNCHANGED <<setup, xmit, echo, bus, sent, reports, overtaken, bounds, irq,
                 due, starting>>

SunClosed ==
  /\ link = "closing" /\ irq.pc = "idle" /\ start = "idle"
  /\ link' = "down" /\ echo' = None /\ due' = FALSE
  /\ UNCHANGED <<setup, queue, canState, xmit, chip, sent, reports, received,
                 overtaken, bounds, flags, fifo, irq, starting>>

SunIrq ==
  \/ SunIrqRead \/ SunIrqStatus \/ SunIrqTx \/ SunIrqRx
  \/ SunIrqErr \/ SunIrqClear

SunNext ==
  \/ SunXmit \/ SunRequest
  \/ SunTransmit \/ SunArrive \/ SunError
  \/ SunIrq
  \/ SunRestart \/ SunOpen \/ SunStarted \/ SunClose \/ SunClosed

(* A handler, a start or a start_xmit that has begun goes on, a set flag   *)
(* interrupts, and the bus takes a frame in the end.                       *)
SunFairness ==
  /\ WF_<<canVars, sunVars>>(SunIrq)
  /\ WF_<<canVars, sunVars>>(SunRequest)
  /\ WF_<<canVars, sunVars>>(SunStarted)
  /\ WF_<<canVars, sunVars>>(SunTransmit)
-----------------------------------------------------------------------------
SunTypeOK ==
  /\ flags \subseteq Flags /\ fifo \in Seq(1 .. MaxArrivals)
  /\ irq \in [pc : {"idle", "status", "tx", "rx", "err", "clear"},
              isrc : SUBSET Flags, bus : ErrorActive .. BusOff, rdy : BOOLEAN]
  /\ due \in BOOLEAN /\ start \in {"idle", "open", "restart"} /\ told \in BOOLEAN
=============================================================================
