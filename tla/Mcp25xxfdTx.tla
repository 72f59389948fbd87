---------------------------- MODULE Mcp25xxfdTx ----------------------------
(***************************************************************************)
(* The transmit path of the mcp25xxfd CAN driver: ndo_start_xmit, the      *)
(* completion callback of the asynchronous SPI message, the threaded       *)
(* interrupt handler (transmit events, transmit aborts, state and queue    *)
(* handling), ndo_open and ndo_stop, together with the controller's        *)
(* transmit FIFOs and its transmit event FIFO (TEF).                       *)
(*                                                                         *)
(* Bit masks are sets of FIFO numbers.  A frame is the position of the     *)
(* sk_buff in the order in which the network stack hands frames over.      *)
(*                                                                         *)
(* Grain of atomicity: one SPI message is one step, because the SPI core   *)
(* runs one message at a time and calls its completion callback before it  *)
(* starts the next.  A synchronous transfer of the interrupt thread waits  *)
(* for the messages queued before it; a message that start_xmit queues     *)
(* while the thread waits commutes with the transfer, so such a transfer   *)
(* is a step enabled when the queue is empty.                              *)
(***************************************************************************)
EXTENDS Integers, Sequences, FiniteSets, FiniteSetsExt, SequencesExt

CONSTANTS
  TxFifoStart,   (* fifos.tx_fifo_start: the first transmit FIFO           *)
  NTxFifos,      (* fifos.tx_fifos: how many of them                       *)
  TefSize,       (* fifos.tef_fifos: entries of the TEF ring               *)
  OneShot,       (* CAN_CTRLMODE_ONE_SHOT: the controller may give up      *)
  AutoRestart,   (* can.restart_ms # 0                                     *)
  TsHalf,        (* half the range of a time stamp: 2^23 in the code       *)
  MaxFrames,     (* bound: frames the stack hands over                     *)
  MaxStates,     (* bound: changes of the controller's error state         *)
  MaxSpiFaults,  (* bound: SPI transfers that fail and are reported        *)
  MaxLostFaults, (* bound: SPI transfers whose failure nobody looks at     *)
  MaxOpens       (* bound: how often the interface is opened               *)

ASSUME Mcp25xxfdTxAssumption ==
  /\ TxFifoStart \in Nat \ {0}       \* FIFO 0 is the TEF
  /\ NTxFifos \in Nat \ {0}
  /\ TefSize \in Nat /\ TefSize >= NTxFifos
  /\ OneShot \in BOOLEAN /\ AutoRestart \in BOOLEAN
  /\ TsHalf \in Nat \ {0}
  /\ MaxFrames \in Nat /\ MaxStates \in Nat
  /\ MaxSpiFaults \in Nat /\ MaxLostFaults \in Nat /\ MaxOpens \in Nat

TxFifos == TxFifoStart .. TxFifoStart + NTxFifos - 1   \* fifos.tx_fifo_mask
Frames == 1 .. MaxFrames
None == 0                                \* no frame, no FIFO (FIFO 0 is the TEF)

(* can.state; the first four are also what the TREC register reports.      *)
ErrorActive == 0
ErrorWarning == 1
ErrorPassive == 2
BusOff == 3
Stopped == 4

VARIABLES
  (* the driver's private data *)
  link,        (* "down", "up", or "closing" inside ndo_stop              *)
  queue,       (* the network queue: "running" or "stopped"               *)
  next,        (* the frame the stack hands over next                     *)
  xmit,        (* start_xmit between spi_async and can_put_echo_skb       *)
  submitted,   (* fifos.tx_submitted_mask                                 *)
  pending,     (* fifos.tx_pending_mask                                   *)
  inIrq,       (* fifos.tx_pending_mask_in_irq                            *)
  processed,   (* fifos.tx_processed_mask                                 *)
  echo,        (* can.echo_skb[fifo]                                      *)
  canState,    (* can.state                                               *)
  forceQuit,   (* force_quit                                              *)
  irq,         (* where the interrupt thread is, and its locals           *)
  status,      (* the status registers as the thread last read them       *)
  queuedTef,   (* queued_fifos: TEF entries waiting for the stack         *)
  (* the SPI controller *)
  spi,         (* queued transmit messages, [fifo, frame]                 *)
  (* the CAN controller *)
  fifoObj,     (* the frame in each transmit FIFO                         *)
  txreq,       (* CAN_TXREQ                                               *)
  txatif,      (* CAN_TXATIF                                              *)
  tef,         (* unread TEF entries: FIFO and time stamp                 *)
  tefSkew,     (* tef_address minus TEFUA, in entries                     *)
  cerrif,      (* CERRIF, RXIF, ...: the flags of CAN_INT but TEFIF       *)
  trec,        (* the error state CAN_TREC reports                        *)
  intEn,       (* the interrupt enables of CAN_INT                        *)
  (* history *)
  wire,        (* frames transmitted on the bus, in order                 *)
  confirmed,   (* frames looped back to the stack, in order               *)
  late,        (* FIFOs whose frame was stored after its event was handled *)
  straddled,   (* one pass had events from both sides of a sign change    *)
  misread,     (* an event was taken that is not there, or taken again    *)
  used         (* what the bounds have used up                            *)

Spend(kind, bound) ==
  /\ used[kind] < bound
  /\ used' = [used EXCEPT ![kind] = @ + 1]

driver == <<link, queue, next, xmit, submitted, pending, inIrq, processed,
            echo, canState, forceQuit, irq, status, queuedTef>>
controller == <<fifoObj, txreq, txatif, tef, tefSkew, cerrif, trec, intEn>>
history == <<wire, confirmed, late, straddled, misread, used>>
vars == <<driver, spi, controller, history>>

NoStatus == [tefif |-> FALSE, cerrif |-> FALSE, txatif |-> {}, txreq |-> {},
             trec |-> ErrorActive]
IrqOff == [pc |-> "off", left |-> 0]

Init ==
  /\ link = "down" /\ queue = "stopped" /\ next = 1 /\ xmit = None
  /\ submitted = {} /\ pending = {} /\ inIrq = {} /\ processed = {}
  /\ echo = [f \in TxFifos |-> None]
  /\ canState = Stopped /\ forceQuit = FALSE
  /\ irq = IrqOff /\ status = NoStatus /\ queuedTef = <<>>
  /\ spi = <<>>
  /\ fifoObj = [f \in TxFifos |-> None]
  /\ txreq = {} /\ txatif = {} /\ tef = <<>> /\ tefSkew = 0
  /\ cerrif = FALSE /\ trec = ErrorActive /\ intEn = FALSE
  /\ wire = <<>> /\ confirmed = <<>> /\ late = {} /\ straddled = FALSE
  /\ misread = FALSE
  /\ used = [states |-> 0, faults |-> 0, lost |-> 0, opens |-> 0]

-----------------------------------------------------------------------------
(* ndo_start_xmit, under the transmit lock.                                *)

IsLastTxFifoOffByOne(f) == f = TxFifoStart + NTxFifos
IsLastTxFifo(f) == f = TxFifoStart + NTxFifos - 1

(* The next FIFO: one above the highest FIFO that is taken (fls).          *)
TakenIgnoringSubmitted == pending
Taken == pending \cup submitted

NextFifoLowestFree ==
  IF TxFifos \ txreq = {} THEN TxFifoStart ELSE Min(TxFifos \ txreq)
NextFifo == IF Taken = {} THEN TxFifoStart ELSE Max(Taken) + 1

FifoNotChecked(f) == TRUE
FifoInRange(f) == f < TxFifoStart + NTxFifos

MayXmit == link = "up" /\ queue = "running" /\ xmit = None /\ next \in Frames

(* In bus-off the queue is stopped and the frame goes back to the stack.   *)
XmitBusOff ==
  /\ MayXmit
  /\ canState = BusOff
  /\ queue' = "stopped"
  /\ UNCHANGED <<link, next, xmit, submitted, pending, inIrq, processed, echo,
                 canState, forceQuit, irq, status, queuedTef, spi, controller,
                 history>>

(* Reserve the FIFO and hand the fill-and-trigger message to the SPI core. *)
(* If spi_async fails the frame goes back to the stack, but the FIFO stays *)
(* reserved.  When NextFifo is not a transmit FIFO nothing changes: the    *)
(* frame goes back to the stack (NETDEV_TX_BUSY).                          *)
Xmit ==
  /\ MayXmit
  /\ canState # BusOff
  /\ FifoInRange(NextFifo)
  /\ queue' = IF IsLastTxFifo(NextFifo) THEN "stopped" ELSE queue
  /\ submitted' = submitted \cup {NextFifo}
  /\ \/ /\ spi' = Append(spi, [fifo |-> NextFifo, frame |-> next])
        /\ xmit' = NextFifo
        /\ next' = next + 1
        /\ UNCHANGED used
     \/ /\ Spend("faults", MaxSpiFaults)
        /\ UNCHANGED <<spi, xmit, next>>
  /\ UNCHANGED <<link, pending, inIrq, processed, echo, canState, forceQuit,
                 irq, status, queuedTef, controller, wire, confirmed, late,
                 straddled, misread>>

(* can_put_echo_skb: an occupied slot keeps its frame, the new one is      *)
(* dropped.                                                                *)
XmitPutEcho ==
  /\ xmit # None
  /\ echo' = [echo EXCEPT ![xmit] = IF @ = None THEN next - 1 ELSE @]
  /\ xmit' = None
  /\ UNCHANGED <<link, queue, next, submitted, pending, inIrq, processed,
                 canState, forceQuit, irq, status, queuedTef, spi, controller,
                 history>>

-----------------------------------------------------------------------------
(* The second transfer of the message, to FIFOCON: UINC and TXREQ.         *)
NotRequested(f) == txreq
Requested(f) == txreq \cup {f}

(* The SPI core runs the oldest message: the FIFO is filled, TXREQ set and *)
(* mcp25xxfd_mark_tx_pending called, which does not look at the outcome: a *)
(* message that failed is marked pending too.                              *)
SpiComplete ==
  /\ spi # <<>>
  /\ LET m == Head(spi)
     IN /\ pending' = pending \cup {m.fifo}
        /\ \/ /\ fifoObj' = [fifoObj EXCEPT ![m.fifo] = m.frame]
              /\ txreq' = Requested(m.fifo)
              /\ UNCHANGED used
           \/ /\ Spend("lost", MaxLostFaults)
              /\ UNCHANGED <<fifoObj, txreq>>
  /\ spi' = Tail(spi)
  /\ UNCHANGED <<link, queue, next, xmit, submitted, inIrq, processed, echo,
                 canState, forceQuit, irq, status, queuedTef, txatif, tef,
                 tefSkew, cerrif, trec, intEn, wire, confirmed, late,
                 straddled, misread>>

-----------------------------------------------------------------------------
(* The controller and the bus.  TXPRI is 31 - fifo, so the lowest          *)
(* requested FIFO goes first.                                              *)

HighestFifo(fifos) == Max(fifos)
FirstByPriority(fifos) == Min(fifos)

MayArbitrate == txreq # {} /\ trec # BusOff

BusSend ==
  /\ MayArbitrate
  /\ LET f == FirstByPriority(txreq)
     IN /\ wire' = Append(wire, fifoObj[f])
        /\ txreq' = txreq \ {f}
        /\ tef' = Append(tef, [fifo |-> f, ts |-> Len(wire) + 1])
  /\ UNCHANGED <<driver, spi, fifoObj, txatif, tefSkew, cerrif, trec, intEn,
                 confirmed, late, straddled, misread, used>>

(* One-shot: the frame is given up, after an error (which sets CERRIF) or  *)
(* a lost arbitration (which does not).  An abort leaves no TEF entry.     *)
BusAbort ==
  /\ OneShot
  /\ MayArbitrate
  /\ LET f == FirstByPriority(txreq)
     IN txreq' = txreq \ {f} /\ txatif' = txatif \cup {f}
  /\ cerrif' \in {cerrif, TRUE}
  /\ UNCHANGED <<driver, spi, fifoObj, tef, tefSkew, trec, intEn, history>>

(* The error state changes, which sets CERRIF unless it is a recovery.     *)
BusErrorState ==
  /\ Spend("states", MaxStates)
  /\ \E s \in ErrorActive .. BusOff :
       s # trec /\ trec' = s /\ cerrif' = (cerrif \/ s > trec)
  /\ UNCHANGED <<driver, spi, fifoObj, txreq, txatif, tef, tefSkew, intEn,
                 wire, confirmed, late, straddled, misread>>

(* A frame arrives, or another condition outside this model raises its     *)
(* interrupt flag: the thread may run at any time.                         *)
BusReceive ==
  /\ ~cerrif /\ cerrif' = TRUE
  /\ UNCHANGED <<driver, spi, fifoObj, txreq, txatif, tef, tefSkew, trec, intEn,
                 history>>

-----------------------------------------------------------------------------
(* The threaded interrupt handler (level triggered, oneshot).              *)

Goto(label) == irq' = [IrqOff EXCEPT !.pc = label]
InIrq(label) == irq.pc = label

IntAssertedWithoutTef == intEn /\ cerrif
IntAsserted == intEn /\ (tef # <<>> \/ cerrif)

IrqStart ==
  /\ InIrq("off")
  /\ link = "up"
  /\ IntAsserted
  /\ Goto("loop")
  /\ UNCHANGED <<link, queue, next, xmit, submitted, pending, inIrq, processed,
                 echo, canState, forceQuit, status, queuedTef, spi, controller,
                 history>>

(* while (!force_quit): copy the pending mask before the status is read.   *)
IrqLoop ==
  /\ InIrq("loop")
  /\ IF forceQuit
       THEN Goto("off") /\ UNCHANGED inIrq
       ELSE Goto("flags") /\ inIrq' = pending
  /\ status' = NoStatus
  /\ UNCHANGED <<link, queue, next, xmit, submitted, pending, processed, echo,
                 canState, forceQuit, queuedTef, spi, controller, history>>

(* One SPI read returns CAN_INT ... CAN_BDIAG1, but the registers are      *)
(* sampled while they are clocked out: CAN_INT and CAN_TXATIF before       *)
(* CAN_TXREQ and CAN_TREC.                                                 *)
IrqReadFlags ==
  /\ InIrq("flags")
  /\ spi = <<>>
  /\ status' = [status EXCEPT !.tefif = (tef # <<>>), !.cerrif = cerrif,
                              !.txatif = txatif]
  /\ Goto("requests")
  /\ UNCHANGED <<link, queue, next, xmit, submitted, pending, inIrq, processed,
                 echo, canState, forceQuit, queuedTef, spi, controller,
                 history>>

IrqReadRequests ==
  /\ InIrq("requests")
  /\ IF status.tefif \/ status.cerrif
       THEN /\ status' = [status EXCEPT !.txreq = txreq, !.trec = trec]
            /\ Goto("clear")
       ELSE status' = NoStatus /\ Goto("off")
  /\ UNCHANGED <<link, queue, next, xmit, submitted, pending, inIrq, processed,
                 echo, canState, forceQuit, queuedTef, spi, controller,
                 history>>

(* "clear all the interrupts asap": latched flags are cleared, those that  *)
(* were raised after the status was read included.                         *)
IrqClear ==
  /\ InIrq("clear")
  /\ spi = <<>>
  /\ cerrif' = FALSE
  /\ queuedTef' = <<>>
  /\ Goto("aborts")
  /\ UNCHANGED <<link, queue, next, xmit, submitted, pending, inIrq, processed,
                 echo, canState, forceQuit, status, spi, fifoObj, txreq, txatif,
                 tef, tefSkew, trec, intEn, history>>

(* can_get_echo_skb: hands the frame to the stack if the slot holds one.   *)
(* start_xmit may not have stored it yet.                                  *)
Release(f) == IF f = None \/ echo[f] = None THEN confirmed ELSE Append(confirmed, echo[f])
LateWith(f) == IF f # None /\ f = xmit THEN late \cup {f} ELSE late

(* mcp25xxfd_can_ist_handle_txatif: FIFO by FIFO, lowest first.  Whether   *)
(* the flag could be cleared is not looked at.                             *)
IrqAbort ==
  /\ InIrq("aborts")
  /\ status.txatif # {}
  /\ spi = <<>>
  /\ LET f == Min(status.txatif)
     IN /\ status' = [status EXCEPT !.txatif = @ \ {f}]
        /\ \/ txatif' = txatif \ {f} /\ UNCHANGED <<misread, used>>
           \/ Spend("lost", MaxLostFaults) /\ misread' = TRUE /\ UNCHANGED txatif
        /\ confirmed' = Release(f) /\ late' = LateWith(f)
        /\ echo' = [echo EXCEPT ![f] = None]
        /\ processed' = processed \cup {f}
  /\ UNCHANGED <<link, queue, next, xmit, submitted, pending, inIrq, canState,
                 forceQuit, irq, queuedTef, spi, fifoObj, txreq, tef, tefSkew,
                 cerrif, trec, intEn, wire, straddled>>

TefCountAllPending == Cardinality(inIrq \ processed)
TefCount ==
  LET open == inIrq \ processed
  IN Cardinality(open) - Cardinality(status.txreq \cap open)

(* mcp25xxfd_can_ist_handle_tefif decides how many entries to expect.      *)
IrqTef ==
  /\ InIrq("aborts")
  /\ status.txatif = {}
  /\ CASE ~status.tefif -> Goto("sort")
       [] status.tefif /\ TefCount > 0 ->
            irq' = [pc |-> "tefcount", left |-> TefCount]
       [] OTHER -> Goto("tefsta")
  /\ UNCHANGED <<link, queue, next, xmit, submitted, pending, inIrq, processed,
                 echo, canState, forceQuit, status, queuedTef, spi, controller,
                 history>>

(* mcp25xxfd_can_ist_handle_tefif_handle_single: read the entry at         *)
(* tef_address, which lies skew entries above the controller's own read    *)
(* pointer, and advance both.  An entry the controller has not written is  *)
(* whatever is left in the RAM: an old entry, or the zero of clean_sram.   *)
(* UINC on an empty TEF does not move the controller's pointer.  The       *)
(* outcome of neither transfer is looked at: after a failed read the entry *)
(* is what was read into the buffer before, after a failed UINC only the   *)
(* driver's address advances.                                              *)
OldEntries ==
  [fifo : TxFifos, ts : 1 .. Len(wire)] \cup {[fifo |-> None, ts |-> 0]}

QueueTefEntry(entry) ==
  /\ queuedTef' = Append(queuedTef, entry)
  /\ processed' = processed \cup {entry.fifo}

ReadTefEntry(skew) ==
  LET entries == IF skew < Len(tef) THEN {tef[skew + 1]} ELSE OldEntries
      uinc == /\ tef' = IF tef = <<>> THEN <<>> ELSE Tail(tef)
              /\ tefSkew' = IF tef = <<>> THEN (skew + 1) % TefSize ELSE skew
  IN \/ /\ \E e \in entries : QueueTefEntry(e)
        /\ uinc
        /\ misread' = (misread \/ tef = <<>> \/ skew # 0)
        /\ UNCHANGED used
     \/ /\ Spend("lost", MaxLostFaults)
        /\ misread' = TRUE
        /\ \/ (\E e \in OldEntries : QueueTefEntry(e)) /\ uinc
           \/ /\ \E e \in entries : QueueTefEntry(e)
              /\ tefSkew' = (skew + 1) % TefSize
              /\ UNCHANGED tef

IrqTefCount ==
  /\ InIrq("tefcount")
  /\ spi = <<>>
  /\ ReadTefEntry(tefSkew)
  /\ IF irq.left > 1 THEN irq' = [irq EXCEPT !.left = @ - 1] ELSE Goto("sort")
  /\ UNCHANGED <<link, queue, next, xmit, submitted, pending, inIrq, echo,
                 canState, forceQuit, status, spi, fifoObj, txreq, txatif,
                 cerrif, trec, intEn, wire, confirmed, late, straddled>>

(* ..._tefif_conservative: TEFSTA says whether there is an entry, TEFUA    *)
(* where it is.                                                            *)
IrqTefConservative ==
  /\ InIrq("tefsta")
  /\ spi = <<>>
  /\ IF tef = <<>>
       THEN Goto("sort") /\ UNCHANGED <<queuedTef, processed, tef, tefSkew,
                                        misread, used>>
       ELSE ReadTefEntry(0) /\ UNCHANGED irq
  /\ UNCHANGED <<link, queue, next, xmit, submitted, pending, inIrq, echo,
                 canState, forceQuit, status, spi, fifoObj, txreq, txatif,
                 cerrif, trec, intEn, wire, confirmed, late, straddled>>

(* mcp25xxfd_process_queued_fifos: sort by the time stamp, then            *)
(* can_get_echo_skb for each entry.  A stamp has 24 bits and is compared   *)
(* as a signed number; one transmission is one tick.  Era counts the       *)
(* changes from positive to negative.                                      *)
Era(n) == (n + TsHalf) \div (2 * TsHalf)
SignedTs(n) == n - 2 * TsHalf * Era(n)

SortedByTs(q) ==
  \A i, j \in 1 .. Len(q) : i < j => SignedTs(q[i].ts) <= SignedTs(q[j].ts)
SameEra(q) == \A i, j \in 1 .. Len(q) : Era(q[i].ts) = Era(q[j].ts)

IrqSort ==
  /\ InIrq("sort")
  /\ \E order \in Bijection(1 .. Len(queuedTef), 1 .. Len(queuedTef)) :
       /\ queuedTef' = [i \in 1 .. Len(queuedTef) |-> queuedTef[order[i]]]
       /\ SortedByTs(queuedTef')
  /\ straddled' = (straddled \/ ~SameEra(queuedTef))
  /\ Goto("deliver")
  /\ UNCHANGED <<link, queue, next, xmit, submitted, pending, inIrq, processed,
                 echo, canState, forceQuit, status, spi, controller, wire,
                 confirmed, late, misread, used>>

IrqDeliver ==
  /\ InIrq("deliver")
  /\ queuedTef # <<>>
  /\ LET f == Head(queuedTef).fifo
     IN /\ confirmed' = Release(f) /\ late' = LateWith(f)
        /\ echo' = IF f = None THEN echo ELSE [echo EXCEPT ![f] = None]
  /\ queuedTef' = Tail(queuedTef)
  /\ UNCHANGED <<link, queue, next, xmit, submitted, pending, inIrq, processed,
                 canState, forceQuit, irq, status, spi, controller, wire,
                 straddled, misread, used>>

(* The error state never returns to a lower one unless TREC names it:      *)
(* new_state starts as can.state and only a set TREC flag replaces it.     *)
NewState == IF status.trec = ErrorActive THEN canState ELSE status.trec

SomeProcessed == processed # {}
AllProcessed == processed = TxFifos

(* State, bus-off and mcp25xxfd_wake_queue, no transfer among them.        *)
IrqState ==
  /\ InIrq("deliver")
  /\ queuedTef = <<>>
  /\ canState' = NewState
  /\ \/ /\ NewState = BusOff /\ ~AutoRestart
        /\ queue' = "stopped" /\ forceQuit' = TRUE
        /\ Goto("sleep")
        /\ UNCHANGED <<pending, submitted, processed>>
     \/ /\ NewState # BusOff /\ AllProcessed
        /\ pending' = {} /\ submitted' = {} /\ processed' = {}
        /\ queue' = "running"
        /\ Goto("loop")
        /\ UNCHANGED forceQuit
     \/ /\ IF NewState = BusOff THEN AutoRestart ELSE ~AllProcessed
        /\ Goto("loop")
        /\ UNCHANGED <<queue, forceQuit, pending, submitted, processed>>
  /\ UNCHANGED <<link, next, xmit, inIrq, echo, status, queuedTef, spi,
                 controller, history>>

(* mcp25xxfd_hw_sleep after bus-off.  No GPIO user holds the clock, so it  *)
(* only disables the interrupts: stop_clock returns before it changes the  *)
(* mode.  The outcome is not looked at.                                    *)
IrqSleep ==
  /\ InIrq("sleep")
  /\ spi = <<>>
  /\ \/ intEn' = FALSE /\ cerrif' = FALSE /\ UNCHANGED used
     \/ Spend("lost", MaxLostFaults) /\ UNCHANGED <<intEn, cerrif>>
  /\ Goto("loop")
  /\ UNCHANGED <<link, queue, next, xmit, submitted, pending, inIrq, processed,
                 echo, canState, forceQuit, status, queuedTef, spi, fifoObj,
                 txreq, txatif, tef, tefSkew, trec, wire, confirmed, late,
                 straddled, misread>>

(* A transfer of the handler whose failure makes it return at once: in     *)
(* "deliver" from the error handling that follows the queued FIFOs, in     *)
(* "loop" from the write to CAN_BDIAG1 that ends a pass with a bus error.  *)
IrqSpiFault ==
  /\ irq.pc \in {"flags", "clear", "aborts", "tefsta", "deliver", "loop"}
  /\ InIrq("deliver") => queuedTef = <<>>
  /\ InIrq("loop") => status.cerrif
  /\ Spend("faults", MaxSpiFaults)
  /\ Goto("off")
  /\ status' = NoStatus
  /\ UNCHANGED <<link, queue, next, xmit, submitted, pending, inIrq, processed,
                 echo, canState, forceQuit, queuedTef, spi, controller, wire,
                 confirmed, late, straddled, misread>>

-----------------------------------------------------------------------------
(* ndo_open: the FIFOs and the TEF are reset (FRESET), the error counters  *)
(* cleared by configuration mode, the interrupts enabled (the write clears *)
(* their flags) and the queue woken.  The masks keep what they were left   *)
(* with.                                                                   *)
Open ==
  /\ link = "down"
  /\ Spend("opens", MaxOpens)
  /\ link' = "up" /\ queue' = "running"
  /\ forceQuit' = FALSE /\ canState' = ErrorActive
  /\ txreq' = {} /\ txatif' = {} /\ tef' = <<>> /\ tefSkew' = 0
  /\ trec' = ErrorActive /\ intEn' = TRUE /\ cerrif' = FALSE
  /\ UNCHANGED <<next, xmit, submitted, pending, inIrq, processed, echo, irq,
                 status, queuedTef, spi, fifoObj, wire, confirmed, late,
                 straddled, misread>>

(* A transfer of ndo_open fails, before or after the FIFOs were reset.     *)
OpenFails ==
  /\ link = "down"
  /\ Spend("faults", MaxSpiFaults)
  /\ forceQuit' = FALSE /\ intEn' = FALSE /\ cerrif' = FALSE
  /\ canState' \in {canState, ErrorActive}
  /\ \/ UNCHANGED <<txreq, txatif, tef, tefSkew, trec>>
     \/ /\ txreq' = {} /\ txatif' = {} /\ tef' = <<>> /\ tefSkew' = 0
        /\ trec' = ErrorActive
  /\ UNCHANGED <<link, queue, next, xmit, submitted, pending, inIrq, processed,
                 echo, irq, status, queuedTef, spi, fifoObj, wire, confirmed,
                 late, straddled, misread>>

(* ndo_stop, first half: the stack has quiesced start_xmit; close_candev   *)
(* frees the echo frames and force_quit tells the thread to end.           *)
StopBegin ==
  /\ link = "up"
  /\ xmit = None
  /\ link' = "closing"
  /\ echo' = [f \in TxFifos |-> None]
  /\ forceQuit' = TRUE
  /\ UNCHANGED <<queue, next, xmit, submitted, pending, inIrq, processed,
                 canState, irq, status, queuedTef, spi, controller, history>>

(* ndo_stop, second half, after free_irq has waited for the thread:        *)
(* disable the interrupts (a synchronous transfer, so queued messages are  *)
(* done), mcp25xxfd_clean, and state STOPPED.                              *)
StopEnd ==
  /\ link = "closing"
  /\ InIrq("off")
  /\ spi = <<>>
  /\ link' = "down"
  /\ intEn' = FALSE /\ cerrif' = FALSE
  /\ pending' = {}
  /\ canState' = Stopped
  /\ UNCHANGED <<queue, next, xmit, submitted, inIrq, processed, echo,
                 forceQuit, irq, status, queuedTef, spi, fifoObj, txreq,
                 txatif, tef, tefSkew, trec, history>>

-----------------------------------------------------------------------------
IrqThread ==
  \/ IrqStart \/ IrqLoop \/ IrqReadFlags \/ IrqReadRequests \/ IrqClear
  \/ IrqAbort \/ IrqTef \/ IrqTefCount \/ IrqTefConservative \/ IrqSort
  \/ IrqDeliver \/ IrqState \/ IrqSleep

Next ==
  \/ XmitBusOff \/ Xmit \/ XmitPutEcho
  \/ SpiComplete
  \/ BusSend \/ BusAbort \/ BusErrorState \/ BusReceive
  \/ IrqThread \/ IrqSpiFault
  \/ Open \/ OpenFails \/ StopBegin \/ StopEnd

Spec == Init /\ [][Next]_vars

(* The SPI core, the interrupt thread, the bus and a start_xmit that has   *)
(* begun do not stop; the stack goes on offering the frame it has.  Nobody *)
(* promises that the bus is free of errors, that the user opens or stops   *)
(* the interface, or that a transfer fails.                                *)
Fairness ==
  /\ WF_vars(SpiComplete) /\ WF_vars(BusSend)
  /\ WF_vars(IrqThread)
  /\ WF_vars(XmitPutEcho) /\ WF_vars(XmitBusOff \/ Xmit)
  /\ WF_vars(StopEnd)

FairSpec == Spec /\ Fairness
-----------------------------------------------------------------------------
(* The masks, slots and registers hold what their declarations allow; a    *)
(* FIFO number that left its range would index past fifos.fifo_address.    *)
NetTypeOK ==
  /\ link \in {"down", "up", "closing"} /\ queue \in {"running", "stopped"}
  /\ next \in 1 .. MaxFrames + 1 /\ xmit \in TxFifos \cup {None}
  /\ echo \in [TxFifos -> 0 .. MaxFrames]
  /\ canState \in ErrorActive .. Stopped /\ forceQuit \in BOOLEAN
MasksTypeOK ==
  /\ submitted \subseteq TxFifos /\ pending \subseteq TxFifos
  /\ inIrq \subseteq TxFifos /\ processed \subseteq TxFifos \cup {None}
IrqTypeOK ==
  /\ irq \in [pc : {"off", "loop", "flags", "requests", "clear", "aborts",
                    "tefcount", "tefsta", "sort", "deliver", "sleep"},
              left : Nat]
  /\ status \in [tefif : BOOLEAN, cerrif : BOOLEAN, txatif : SUBSET TxFifos,
                 txreq : SUBSET TxFifos, trec : ErrorActive .. BusOff]
TefTypeOK ==
  /\ tef \in Seq([fifo : TxFifos, ts : Nat]) /\ tefSkew \in 0 .. TefSize - 1
  /\ queuedTef \in Seq([fifo : TxFifos \cup {None}, ts : Nat])
ControllerTypeOK ==
  /\ spi \in Seq([fifo : TxFifos, frame : Frames])
  /\ fifoObj \in [TxFifos -> 0 .. MaxFrames]
  /\ txreq \subseteq TxFifos /\ txatif \subseteq TxFifos
  /\ cerrif \in BOOLEAN /\ trec \in ErrorActive .. BusOff /\ intEn \in BOOLEAN
HistoryTypeOK ==
  /\ wire \in Seq(0 .. MaxFrames) /\ confirmed \in Seq(0 .. MaxFrames)
  /\ late \subseteq TxFifos
  /\ used \in [states : 0 .. MaxStates, faults : 0 .. MaxSpiFaults,
               lost : 0 .. MaxLostFaults, opens : 0 .. MaxOpens]
FlagsTypeOK == straddled \in BOOLEAN /\ misread \in BOOLEAN
TypeOK ==
  /\ NetTypeOK /\ MasksTypeOK /\ IrqTypeOK
  /\ TefTypeOK /\ ControllerTypeOK /\ HistoryTypeOK /\ FlagsTypeOK

(* "we have to wait until all the TX fifos have been transmitted before we *)
(* can restart the networking queue to avoid reordering the frames on the  *)
(* Can bus itself": the frames on the wire are in the order in which       *)
(* start_xmit accepted them, and none is sent twice.                       *)
WireInOrder == \A i, j \in 1 .. Len(wire) : i < j => wire[i] < wire[j]

(* The same in one-shot mode and with failures nobody looks at: a frame    *)
(* overtakes only after the thread took a transmit event or abort that is  *)
(* not there, or the same one again.                                       *)
OvertakesOnlyAfterMisread == ~misread => WireInOrder

FifosOf(seq) == {seq[i].fifo : i \in 1 .. Len(seq)}
FifosDistinct(seq) == \A i, j \in 1 .. Len(seq) : seq[i].fifo = seq[j].fifo => i = j
SpiFifos == FifosOf(spi)
TefFifos == FifosOf(tef)

(* A FIFO serves one frame at a time: while its SPI message is queued, its *)
(* transmission requested, or its transmit event or abort not yet handled, *)
(* start_xmit does not write another frame into it.                        *)
FifoNotReused ==
  /\ FifosDistinct(spi) /\ FifosDistinct(tef)
  /\ SpiFifos \cap (txreq \cup TefFifos \cup txatif) = {}
  /\ txreq \cap (TefFifos \cup txatif) = {}
  /\ TefFifos \cap txatif = {}

(* start_xmit never reaches its "this should not happen" branch: whenever  *)
(* the queue runs there is a transmit FIFO for the next frame.             *)
NextFifoValid == MayXmit /\ canState # BusOff => NextFifo \in TxFifos

(* mcp25xxfd_wake_queue: "nothing should be left pending /in flight now".  *)
(* The masks are cleared only when no message is queued, no FIFO requested *)
(* and no transmit event or abort waits.                                   *)
NothingInFlight == spi = <<>> /\ txreq = {} /\ txatif = {} /\ tef = <<>>
WakeMeansIdle ==
  [][submitted # {} /\ submitted' = {} => NothingInFlight]_vars

(* The stack is told of exactly the frames that went out, in wire order:   *)
(* the k-th frame looped back is the k-th frame on the wire.  Two things   *)
(* of the code undo it, and nothing else does: an event handled before     *)
(* start_xmit stored its frame, and a pass that sorted events from both    *)
(* sides of a change of sign of the time stamp.                            *)
ConfirmedFollowsWire == late = {} /\ ~straddled => IsPrefix(confirmed, wire)

(* "keep it for reference until the message really got transmitted": a     *)
(* transmit event finds the frame it is about in the echo slot.  The only  *)
(* event that does not is the one of a frame start_xmit has yet to store;  *)
(* nothing else takes a frame out of its slot, or puts one into a slot     *)
(* that is still in use, until such an event has been handled.             *)
AtTransmitEvent == InIrq("deliver") /\ queuedTef # <<>> /\ link = "up"
EchoOf(entry) == echo[entry.fifo] = fifoObj[entry.fifo]
EchoThereForTef ==
  AtTransmitEvent
    => \/ EchoOf(Head(queuedTef))
       \/ Head(queuedTef).fifo \in late \cup {xmit}

(* A stopped queue runs again, and an accepted frame reaches the bus,      *)
(* unless the interface is taken down or the controller leaves the bus.    *)
OffLine == link # "up" \/ BusOff \in {trec, canState}
QueueWakes == queue = "stopped" /\ link = "up" ~> queue = "running" \/ OffLine
FrameSent ==
  \A f \in Frames : next > f /\ link = "up" ~> Contains(wire, f) \/ OffLine

(* Once the controller has recovered from bus-off the driver notices.      *)
LeavesBusOff ==
  canState = BusOff /\ trec # BusOff ~> canState # BusOff \/ trec = BusOff

(* What keeps the masks honest while the controller retransmits without    *)
(* limit: the places a frame can be in are disjoint, all of them are       *)
(* marked as submitted, a pending FIFO is one the controller was given,    *)
(* and the thread never expects more transmit events than there are.       *)
MasksCover ==
  /\ processed \subseteq TxFifos
  /\ processed \cap (SpiFifos \cup txreq \cup TefFifos) = {}
  /\ processed \cup SpiFifos \cup txreq \cup TefFifos \subseteq submitted
  /\ pending \subseteq processed \cup txreq \cup TefFifos
NoAborts == txatif = {} /\ status.txatif = {} /\ tefSkew = 0
DownIsQuiet == link = "down" => spi = <<>> /\ pending = {} /\ InIrq("off")
TefExpected ==
  /\ ~InIrq("off") /\ ~InIrq("loop") => inIrq \subseteq pending
  /\ InIrq("clear") \/ InIrq("aborts")
       => inIrq \ status.txreq \subseteq processed \cup TefFifos
  /\ InIrq("tefcount") => irq.left \in 1 .. Len(tef)
MaskInv == FifoNotReused /\ MasksCover /\ NoAborts /\ DownIsQuiet /\ TefExpected

(* Why the frames stay in order: a frame on the wire is older than every   *)
(* requested one, a requested one older than every queued message, in      *)
(* FIFO order and in message order alike.                                  *)
OrderInv ==
  /\ \A i \in 1 .. Len(wire) :
       /\ wire[i] < next
       /\ \A f \in txreq : wire[i] < fifoObj[f]
       /\ \A k \in 1 .. Len(spi) : wire[i] < spi[k].frame
  /\ \A f \in txreq :
       /\ fifoObj[f] < next
       /\ \A g \in txreq : f < g => fifoObj[f] < fifoObj[g]
       /\ \A k \in 1 .. Len(spi) : f < spi[k].fifo /\ fifoObj[f] < spi[k].frame
  /\ \A i \in 1 .. Len(spi) :
       /\ spi[i].frame < next
       /\ \A k \in 1 .. Len(spi) :
            i < k => spi[i].fifo < spi[k].fifo /\ spi[i].frame < spi[k].frame

(* The driver implements an ordered queue of NTxFifos frames: those of the *)
(* requested FIFOs, in FIFO order, then those of the queued messages.      *)
InFifoOrder(fifos) ==
  CHOOSE s \in Bijection(1 .. Cardinality(fifos), fifos) :
    \A i, j \in 1 .. Cardinality(fifos) : i < j => s[i] < s[j]
WaitingFrames ==
  LET fifos == InFifoOrder(txreq)
  IN [i \in 1 .. Cardinality(txreq) |-> fifoObj[fifos[i]]]
     \o [i \in 1 .. Len(spi) |-> spi[i].frame]
Ordered == INSTANCE CanTxQueue WITH
  Capacity <- NTxFifos, MayAbort <- OneShot,
  accepted <- next - 1, waiting <- WaitingFrames, wire <- wire
ImplementsCanTxQueue == Ordered!Spec
=============================================================================
