--------------------------- MODULE Mcp2515Banged ----------------------------
(***************************************************************************)
(* The driver that reaches an MCP2515 over GPIO lines.  mcp_lock is held   *)
(* by the interrupt handler from its first register access to its last and *)
(* by start_xmit while it loads the transmit buffer.  The interrupt is     *)
(* taken on the falling edge of a line that is low while any flag is set,  *)
(* so the handler goes on until it has seen all of them clear.             *)
(***************************************************************************)
EXTENDS CanNetDev

VARIABLES
  inXmit,    (* start_xmit waits for mcp_lock                              *)
  txLen,     (* tx_len # 0                                                 *)
  forceQuit, (* force_quit                                                 *)
  intf,      (* CANINTF: the interrupt flags                               *)
  rxb,       (* the two receive buffers                                    *)
  edge,      (* a falling edge has not been handled yet                    *)
  ist        (* the handler: pc, and the flags and error state it has read *)

bangedVars == <<inXmit, txLen, forceQuit, intf, rxb, edge, ist>>
control == <<inXmit, txLen, forceQuit>>
line == <<intf, edge>>

IntFlags == {"RX0IF", "RX1IF", "TX0IF", "ERRIF"}
IstIdle == [pc |-> "idle", intf |-> {}, eflag |-> ErrorActive]
NoFrames == [b \in 0 .. 1 |-> None]

BangedInit ==
  /\ inXmit = FALSE /\ txLen = FALSE /\ forceQuit = FALSE
  /\ intf = {} /\ rxb = NoFrames /\ edge = FALSE /\ ist = IstIdle

(* A flag that is set pulls the line down.                                 *)
SetIntf(f) == intf' = intf \cup {f} /\ edge' = (edge \/ intf = {})

-----------------------------------------------------------------------------
(* mcp2515_hard_start_xmit: stop the queue, wait for the lock, load the    *)
(* buffer.  The device has no IFF_ECHO, so can_put_echo_skb keeps nothing. *)

BangedXmit ==
  /\ MayXmit /\ ~inXmit
  /\ xmit = None /\ ~txLen
  /\ queue' = "stopped"
  /\ xmit' = next /\ next' = next + 1
  /\ inXmit' = TRUE
  /\ UNCHANGED <<setup, link, canState, echo, chip, wire, reports, received,
                 overtaken, bounds, txLen, forceQuit, line, rxb, ist>>

(* mcp2515_clean.                                                          *)
Clean == xmit' = None /\ txLen' = FALSE

BangedLoad ==
  /\ inXmit /\ ist.pc = "idle"
  /\ inXmit' = FALSE
  /\ IF xmit # None /\ canState # BusOff
     THEN /\ txbuf' = xmit /\ txreq' = TRUE
          /\ txLen' = TRUE /\ xmit' = None
     ELSE Clean /\ UNCHANGED <<txbuf, txreq>>
  /\ UNCHANGED <<setup, stack, echo, bus, sent, reports, received, overtaken,
                 bounds, forceQuit, line, rxb, ist>>

-----------------------------------------------------------------------------
(* The controller.                                                         *)

BangedTransmit ==
  /\ link # "down" /\ Transmit
  /\ SetIntf("TX0IF")
  /\ UNCHANGED <<setup, stack, xmit, echo, reports, received, overtaken, bounds,
                 control, rxb, ist>>

(* A frame goes to buffer 0, when that is full to buffer 1 (RXBCTRL_BUKT), *)
(* when both are full it is lost.                                          *)
RxFlag == [b \in 0 .. 1 |-> IF b = 0 THEN "RX0IF" ELSE "RX1IF"]
Fills(b) == RxFlag[b] \notin intf /\ (b = 1 => RxFlag[0] \in intf)

BangedArrive ==
  /\ link # "down" /\ bus # BusOff /\ arrived < MaxArrivals
  /\ arrived' = arrived + 1
  /\ \/ \E b \in 0 .. 1 :
          /\ Fills(b)
          /\ rxb' = [rxb EXCEPT ![b] = arrived + 1]
          /\ SetIntf(RxFlag[b])
          /\ UNCHANGED missed
     \/ /\ {"RX0IF", "RX1IF"} \subseteq intf
        /\ missed' = missed \cup {arrived + 1}
        /\ SetIntf("ERRIF")
        /\ UNCHANGED rxb
  /\ UNCHANGED <<setup, stack, xmit, echo, chip, sent, reports, delivered,
                 overtaken, bounds, control, ist>>

BangedError ==
  /\ link # "down" /\ ErrorStep
  /\ SetIntf("ERRIF")
  /\ UNCHANGED <<setup, stack, xmit, echo, sent, reports, received, overtaken,
                 control, rxb, ist>>

(* The controller comes back from bus-off by itself.                       *)
BangedRecover ==
  /\ link # "down" /\ bus = BusOff
  /\ bus' = ErrorActive
  /\ SetIntf("ERRIF")
  /\ UNCHANGED <<setup, stack, xmit, echo, txbuf, txreq, sent, reports, received,
                 overtaken, bounds, control, rxb, ist>>

-----------------------------------------------------------------------------
(* mcp2515_can_ist.  Buffers are read and flags are cleared when the flags *)
(* the pass began with say so.                                             *)
ClearOr == IF ist.intf \cap {"TX0IF", "ERRIF"} # {} THEN "clear" ELSE "state"
Rx1Or == IF "RX1IF" \in ist.intf THEN "rx1" ELSE ClearOr
Rx0Or == IF "RX0IF" \in ist.intf THEN "rx0" ELSE Rx1Or

Goto(pc) == ist' = [ist EXCEPT !.pc = pc]
IstOnly == UNCHANGED <<canVars, control, line, rxb>>

IstStart ==
  /\ edge /\ ist.pc = "idle" /\ link # "down"
  /\ edge' = FALSE
  /\ Goto("loop")
  /\ UNCHANGED <<canVars, control, intf, rxb>>

IstReadFlags ==
  /\ ist.pc = "loop"
  /\ ist' = IF forceQuit THEN IstIdle ELSE [ist EXCEPT !.pc = "eflag", !.intf = intf]
  /\ IstOnly

IstReadErrors ==
  /\ ist.pc = "eflag"
  /\ ist' = [ist EXCEPT !.pc = Rx0Or, !.eflag = bus]
  /\ IstOnly

(* mcp2515_hw_rx: reading a buffer frees it.                               *)
Freed(b) == intf \ {RxFlag[b]}
IstRx(b, here, then) ==
  /\ ist.pc = here
  /\ delivered' = Append(delivered, rxb[b])
  /\ intf' = Freed(b)
  /\ Goto(then)
  /\ UNCHANGED <<setup, stack, xmit, echo, chip, sent, reports, arrived, missed,
                 overtaken, bounds, control, edge, rxb>>
IstRx0 == IstRx(0, "rx0", Rx1Or)
IstRx1 == IstRx(1, "rx1", ClearOr)

IstClear ==
  /\ ist.pc = "clear"
  /\ intf' = intf \ (ist.intf \cap {"TX0IF", "ERRIF"})
  /\ Goto("state")
  /\ UNCHANGED <<canVars, control, edge, rxb>>

(* The state the error flags say; for bus-off without restart-ms the       *)
(* controller is put to sleep and the handler gives up for good; when no   *)
(* flag was set it ends.                                                   *)
OnePass == TRUE
LastPass == ist.intf = {}
GivesUp == ist.eflag = BusOff /\ ~autoRestart
TxDone == "TX0IF" \in ist.intf /\ ~GivesUp

IstState ==
  /\ ist.pc = "state"
  /\ canState' = ist.eflag
  /\ forceQuit' = (forceQuit \/ GivesUp)
  /\ IF TxDone
     THEN reported' = reported + 1 /\ txLen' = FALSE /\ queue' = "running"
     ELSE UNCHANGED <<reported, txLen, queue>>
  /\ ist' = IF GivesUp \/ LastPass THEN IstIdle ELSE [IstIdle EXCEPT !.pc = "loop"]
  /\ UNCHANGED <<setup, link, xmit, echo, chip, sent, looped, received, overtaken,
                 bounds, inXmit, line, rxb>>

-----------------------------------------------------------------------------
(* mcp2515_do_set_mode: a restart by hand cleans up and leaves the rest to *)
(* a work item that is never queued.                                       *)
BangedRestart ==
  /\ link = "up" /\ canState = BusOff /\ ~autoRestart
  /\ canState' = ErrorActive
  /\ Clean
  /\ UNCHANGED <<setup, link, queue, echo, chip, sent, reports, received,
                 overtaken, bounds, inXmit, forceQuit, line, rxb, ist>>

(* The frames in the receive buffers are given up.                         *)
BothBuffers == 0 .. 1
FullBuffers == {b \in 0 .. 1 : RxFlag[b] \in intf}
EmptyBuffers ==
  /\ rxb' = NoFrames /\ intf' = {} /\ edge' = FALSE
  /\ missed' = missed \cup {rxb[b] : b \in FullBuffers}

BangedOpen ==
  /\ link = "down"
  /\ opens < MaxOpens /\ opens' = opens + 1
  /\ forceQuit' = FALSE /\ Clean
  /\ EmptyBuffers
  /\ txreq' = FALSE /\ bus' = ErrorActive /\ canState' = ErrorActive
  /\ queue' = "running" /\ link' = "up"
  /\ UNCHANGED <<setup, echo, txbuf, sent, reports, arrived, delivered,
                 overtaken, errors, inXmit, ist>>

(* mcp2515_stop: free_irq waits for the handler.                           *)
BangedStop ==
  /\ link = "up" /\ ~inXmit
  /\ link' = "closing" /\ forceQuit' = TRUE
  /\ UNCHANGED <<setup, queue, canState, xmit, echo, chip, sent, reports,
                 received, overtaken, bounds, inXmit, txLen, line, rxb, ist>>

BangedStopped ==
  /\ link = "closing" /\ ist.pc = "idle"
  /\ link' = "down" /\ canState' = Stopped
  /\ EmptyBuffers
  /\ txreq' = FALSE /\ Clean
  /\ UNCHANGED <<setup, queue, echo, txbuf, bus, sent, reports, arrived,
                 delivered, overtaken, bounds, inXmit, forceQuit, ist>>

Ist ==
  \/ IstStart \/ IstReadFlags \/ IstReadErrors \/ IstRx0 \/ IstRx1
  \/ IstClear \/ IstState

BangedNext ==
  \/ BangedXmit \/ BangedLoad
  \/ BangedTransmit \/ BangedArrive \/ BangedError \/ BangedRecover
  \/ Ist
  \/ BangedRestart \/ BangedOpen \/ BangedStop \/ BangedStopped

(* The handler goes on, start_xmit gets the lock, the bus takes a frame.   *)
BangedFairness ==
  /\ WF_<<canVars, bangedVars>>(Ist)
  /\ WF_<<canVars, bangedVars>>(BangedLoad)
  /\ WF_<<canVars, bangedVars>>(BangedTransmit)
-----------------------------------------------------------------------------
BangedTypeOK ==
  /\ inXmit \in BOOLEAN /\ txLen \in BOOLEAN /\ forceQuit \in BOOLEAN
  /\ intf \subseteq IntFlags /\ edge \in BOOLEAN
  /\ rxb \in [0 .. 1 -> 0 .. MaxArrivals]
  /\ ist \in [pc : {"idle", "loop", "eflag", "rx0", "rx1", "clear", "state"},
              intf : SUBSET IntFlags, eflag : ErrorActive .. BusOff]
=============================================================================
