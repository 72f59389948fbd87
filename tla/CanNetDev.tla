----------------------------- MODULE CanNetDev ------------------------------
(***************************************************************************)
(* What a CAN network device with one transmit buffer shares with the      *)
(* network stack, with the CAN core of the kernel and with its controller. *)
(* Sun4iCan and Mcp2515Banged extend it with the code of their drivers.    *)
(*                                                                         *)
(* Frames the stack sends are 1, 2, 3, ... in the order it hands them over;*)
(* frames other nodes send are 1, 2, 3, ... in the order they arrive.      *)
(***************************************************************************)
EXTENDS Integers, Sequences, Functions

CONSTANTS
  MaxFrames,  (* bound: frames the stack hands over                        *)
  MaxArrivals,(* bound: frames other nodes send                            *)
  MaxErrors,  (* bound: changes of the controller's error state            *)
  MaxOpens    (* bound: how often the interface is opened                  *)

ASSUME CanNetDevAssumption ==
  /\ MaxFrames \in Nat /\ MaxArrivals \in Nat
  /\ MaxErrors \in Nat /\ MaxOpens \in Nat

Frames == 1 .. MaxFrames
None == 0

(* enum can_state, and the error states of the controllers.                *)
ErrorActive == 0
ErrorWarning == 1
ErrorPassive == 2
BusOff == 3
Stopped == 4

VARIABLES
  driver,      (* which driver the image has: "sun4i" or "mcp2515"         *)
  autoRestart, (* can.restart_ms # 0, set while the interface is down      *)
  link,        (* "down", "up" or "closing"                                *)
  queue,       (* "running" or "stopped"                                   *)
  canState,    (* can.state                                                *)
  xmit,        (* the frame start_xmit has taken and not handed over yet   *)
  echo,        (* the frame in echo slot 0                                 *)
  txbuf,       (* the frame in the controller's transmit buffer            *)
  txreq,       (* its transmission is requested                            *)
  bus,         (* the error state of the controller                        *)
  next,        (* history: the next frame of the stack                     *)
  wire,        (* history: frames that were transmitted                    *)
  reported,    (* stats.tx_packets                                         *)
  looped,      (* history: frames looped back by can_get_echo_skb          *)
  arrived,     (* history: how many frames arrived                         *)
  delivered,   (* history: frames handed to netif_rx                       *)
  missed,      (* history: frames lost to an overrun or to a reset         *)
  overtaken,   (* history: kinds of event hidden or written over           *)
  errors,      (* history: changes of the error state so far               *)
  opens        (* history: opens so far                                    *)

setup == <<driver, autoRestart>>
stack == <<link, queue, canState>>
chip == <<txbuf, txreq, bus>>
sent == <<next, wire>>
reports == <<reported, looped>>
received == <<arrived, delivered, missed>>
bounds == <<errors, opens>>
canVars == <<setup, stack, xmit, echo, chip, sent, reports, received,
             overtaken, bounds>>

CanInit ==
  /\ driver \in {"sun4i", "mcp2515"}
  /\ autoRestart \in BOOLEAN
  /\ link = "down" /\ queue = "stopped" /\ canState = Stopped
  /\ xmit = None /\ echo = None
  /\ txbuf = None /\ txreq = FALSE /\ bus = ErrorActive
  /\ next = 1 /\ wire = <<>>
  /\ reported = 0 /\ looped = <<>>
  /\ arrived = 0 /\ delivered = <<>> /\ missed = {}
  /\ overtaken = {} /\ errors = 0 /\ opens = 0

-----------------------------------------------------------------------------
(* The CAN core.                                                           *)

(* can_put_echo_skb keeps the frame unless the slot is in use.             *)
PutEcho(f) == echo' = IF echo = None THEN f ELSE echo

(* can_get_echo_skb loops the frame back and empties the slot.             *)
EchoLeft == echo
EchoGone == None
GetEcho ==
  /\ looped' = IF echo = None THEN looped ELSE Append(looped, echo)
  /\ echo' = EchoGone

-----------------------------------------------------------------------------
(* The controllers.                                                        *)

(* The network stack calls start_xmit.                                     *)
MayXmit == link = "up" /\ queue = "running" /\ next \in Frames

(* The frame in the transmit buffer reaches the wire.                      *)
Transmit ==
  /\ txreq /\ bus # BusOff
  /\ wire' = Append(wire, txbuf)
  /\ txreq' = FALSE
  /\ UNCHANGED <<txbuf, bus, next>>

(* The error counters cross one threshold at a time, and only a failing    *)
(* transmission takes the controller off the bus.                          *)
ErrorStep ==
  /\ bus # BusOff
  /\ errors < MaxErrors /\ errors' = errors + 1
  /\ bus' \in {bus - 1, bus + 1} \cap (ErrorActive .. BusOff)
  /\ bus' = BusOff => txreq
  /\ UNCHANGED <<txbuf, txreq, opens>>

-----------------------------------------------------------------------------
CanTypeOK ==
  /\ driver \in {"sun4i", "mcp2515"} /\ autoRestart \in BOOLEAN
  /\ link \in {"down", "up", "closing"} /\ queue \in {"running", "stopped"}
  /\ canState \in ErrorActive .. Stopped
  /\ xmit \in Frames \cup {None} /\ echo \in Frames \cup {None}
  /\ txbuf \in Frames \cup {None} /\ txreq \in BOOLEAN
  /\ bus \in ErrorActive .. BusOff
  /\ next \in Nat \ {0} /\ wire \in Seq(Frames \cup {None})
  /\ reported \in Nat /\ looped \in Seq(Frames)
  /\ arrived \in 0 .. MaxArrivals /\ delivered \in Seq(0 .. MaxArrivals)
  /\ missed \subseteq 1 .. MaxArrivals
  /\ overtaken \subseteq {"tx", "rx", "err"}
  /\ errors \in Nat /\ opens \in Nat
=============================================================================
