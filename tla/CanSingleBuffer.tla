-------------------------- MODULE CanSingleBuffer ---------------------------
(***************************************************************************)
(* The drivers of controllers with one transmit buffer, side by side: an   *)
(* image has one of them, and both promise the network stack the same.     *)
(***************************************************************************)
EXTENDS Sun4iCan, Mcp2515Banged

vars == <<canVars, sunVars, bangedVars>>

(* For sun4i only the CAN core looks at restart-ms.                        *)
Init ==
  /\ CanInit /\ SunInit /\ BangedInit
  /\ driver = "sun4i" => autoRestart

Next ==
  \/ driver = "sun4i" /\ SunNext /\ UNCHANGED bangedVars
  \/ driver = "mcp2515" /\ BangedNext /\ UNCHANGED sunVars

Spec == Init /\ [][Next]_vars
FairSpec == Spec /\ SunFairness /\ BangedFairness
-----------------------------------------------------------------------------
(* Every variable has its type.                                            *)
TypeOK == CanTypeOK /\ SunTypeOK /\ BangedTypeOK

(* Both drivers are a queue of one frame: start_xmit is not called while a *)
(* frame waits, so none is overwritten in the transmit buffer, and frames  *)
(* are sent once and in order, whatever restarts, resets and late          *)
(* interrupts do to the queue's state.                                     *)
Waits(f, does) == IF does THEN <<f>> ELSE <<>>
TxQueue == INSTANCE CanTxQueue WITH
  Capacity <- 1, MayAbort <- FALSE, accepted <- next - 1,
  waiting <- Waits(txbuf, txreq) \o Waits(xmit, xmit # None)
ImplementsCanTxQueue == TxQueue!Spec

(* The stack is told of no transmission that did not happen: never more    *)
(* than there were, and an echo only of a frame that was on the wire, once *)
(* and in order, also when a restart or a close flushes the slot while a   *)
(* handler is on its way to it.                                            *)
ReportsFollowWire ==
  /\ reported <= Len(wire)
  /\ Range(looped) \subseteq Range(wire)
  /\ \A i, j \in 1 .. Len(looped) : i < j => looped[i] < looped[j]

(* Once its interrupts are handled the state the driver reports is the     *)
(* state of the controller: exceptions are, for sun4i, a change that came  *)
(* while an error flag was still set and one that was reported before the  *)
(* end of sun4i_can_start wrote over it; for the banged driver, a handler  *)
(* that has given up.                                                      *)
Settled ==
  IF driver = "sun4i"
  THEN /\ start = "idle" /\ irq.pc = "idle" /\ flags \cap ErrorFlags = {}
       /\ "err" \notin overtaken
  ELSE ist.pc = "idle" /\ intf = {} /\ ~forceQuit
StateFollows == link = "up" /\ Settled => canState = bus

(* A stopped queue is woken while the interface stays up, unless the       *)
(* controller is off the bus or the driver has given up on it, or sun4i's  *)
(* handler cleared the flag of a transmission it had not seen.             *)
Excused == link # "up" \/ BusOff \in {bus, canState} \/ forceQuit
QueueWakes ==
  queue = "stopped" /\ link = "up"
    ~> queue = "running" \/ Excused \/ "tx" \in overtaken

(* A frame that arrives is delivered or lost to an overrun or a reset; it  *)
(* does not stay in the controller with its interrupt gone.                *)
RxDelivered ==
  \A r \in 1 .. MaxArrivals :
    arrived >= r /\ link = "up"
      ~> r \in Range(delivered) \cup missed \/ Excused \/ "rx" \in overtaken
=============================================================================
