--------------------------- MODULE Mcp25xxfdFifos ---------------------------
(***************************************************************************)
(* How mcp25xxfd_open divides the controller's 31 FIFOs and 2048 bytes of  *)
(* RAM (mcp25xxfd_setup_fifo), over a life in which the interface is       *)
(* opened and closed, its MTU changed while it is down and the module      *)
(* parameter tx_fifos rewritten.                                           *)
(*                                                                         *)
(* Every SPI transfer of the set-up may fail, which leaves the structures  *)
(* and registers as far as they were written; nobody reads them before the *)
(* interface is up, so a loop over FIFOs is one step that ends after any   *)
(* number of rounds.  rx_fifo_depth is 1 in both modes.                    *)
(***************************************************************************)
EXTENDS Naturals

CONSTANTS
  Params,       (* values the module parameter tx_fifos takes; 0: default  *)
  MaxOpens      (* bound: how often the interface is opened                *)

ASSUME Mcp25xxfdFifosAssumption ==
  Params \subseteq Nat /\ MaxOpens \in Nat

RamSize == 2048                                (* MCP25XXFD_BUFFER_TXRX_SIZE *)
TefObj == 12                     (* sizeof(struct mcp25xxfd_obj_tef)       *)
TxObj(payload) == 8 + payload    (* sizeof(struct mcp25xxfd_obj_tx) + data *)
RxObj(payload) == 12 + payload   (* sizeof(struct mcp25xxfd_obj_rx) + data *)

TxqObj == TxObj(8)               (* the transmit queue as reset: one object*)
Fifos == 1 .. 31                 (* FIFO 0 is the TEF                      *)
Filters == 0 .. 31
Disabled == 0                    (* a filter that feeds no FIFO            *)

VARIABLES
  (* the environment *)
  mtu,         (* "CAN_MTU" or "CANFD_MTU"                                *)
  param,       (* the module parameter tx_fifos                           *)
  opens,       (* how often the interface was opened                      *)
  (* the driver: priv->fifos and spi_transmit_fifos *)
  pc,          (* "down", a stage of mcp25xxfd_open, or "up"              *)
  fifos,       (* payload, tx, rx, tef, tx_start: the chosen layout       *)
  txMask,      (* tx_fifo_mask                                            *)
  rxMask,      (* rx_fifo_mask                                            *)
  address,     (* fifo_address                                            *)
  messages,    (* spi_transmit_fifos: the RAM address each FIFO's message *)
               (* writes to, on the FIFOs that have a message             *)
  (* the controller *)
  txqen,       (* TXQEN of CAN_CON: the controller has a transmit queue   *)
  con,         (* FIFOCON: direction and payload of each FIFO             *)
  tefSize,     (* TEFCON: entries of the TEF ring                         *)
  filter       (* FLTCON: the FIFO a filter feeds                         *)

environment == <<mtu, param, opens>>
driver == <<fifos, txMask, rxMask, address, messages>>
controller == <<txqen, con, tefSize, filter>>
vars == <<environment, pc, driver, controller>>

NoMessages == [f \in {} |-> 0]

Init ==
  /\ mtu = "CAN_MTU" /\ param \in Params /\ opens = 0
  /\ pc = "down"
  /\ fifos = [payload |-> 0, tx |-> 0, rx |-> 0, tef |-> 0, tx_start |-> 0]
  /\ txMask = {} /\ rxMask = {}
  /\ address = [f \in Fifos |-> 0] /\ messages = NoMessages
  /\ txqen = TRUE
  /\ con = [f \in Fifos |-> [tx |-> FALSE, payload |-> 8]]
  /\ tefSize = 1 /\ filter = [i \in Filters |-> Disabled]

-----------------------------------------------------------------------------
(* The arithmetic of mcp25xxfd_setup_fifo.                                 *)

PayloadOf(m) == IF m = "CAN_MTU" THEN 8 ELSE 64
TxFifosOf(p) == IF p = 0 THEN 7 ELSE p

TxMemory(payload, tx) == tx * (TefObj + TxObj(payload))

Accepted(payload, tx) ==
  tx <= 30 /\ TxMemory(payload, tx) + RxObj(payload) <= RamSize

(* As many receive FIFOs as fit, 31 FIFOs in all.                          *)
RxFifosAsFit(payload, tx) ==
  (RamSize - TxMemory(payload, tx)) \div RxObj(payload)
RxFifosOf(payload, tx) ==
  LET fit == (RamSize - TxMemory(payload, tx)) \div RxObj(payload)
  IN IF tx + fit > 31 THEN 31 - tx ELSE fit

(* One TEF entry for each transmit FIFO and more from what is left over.   *)
TefOfIgnoringRx(payload, tx) ==
  LET spare == (RamSize - TxMemory(payload, tx)) \div TefObj
  IN IF tx + spare > 32 THEN 32 ELSE tx + spare
TefOf(payload, tx) ==
  LET rx == RxFifosOf(payload, tx)
      spare == (RamSize - TxMemory(payload, tx) - rx * RxObj(payload)) \div TefObj
  IN IF tx + spare > 32 THEN 32 ELSE tx + spare

Layout(payload, tx) ==
  LET rx == RxFifosOf(payload, tx)
  IN [payload |-> payload, tx |-> tx, rx |-> rx, tef |-> TefOf(payload, tx),
      tx_start |-> 1 + rx]

TxFifos == fifos.tx_start .. fifos.tx_start + fifos.tx - 1
RxFifos == 1 .. fifos.rx

(* The controller lays the TEF, its transmit queue if that is enabled, and *)
(* then the FIFOs out in RAM, in the order of their numbers; CAN_FIFOUA    *)
(* reports where a FIFO starts.                                            *)
TxqSize == IF txqen THEN TxqObj ELSE 0
ObjSize(f) == IF con[f].tx THEN TxObj(con[f].payload) ELSE RxObj(con[f].payload)
FifoUA[f \in Fifos] ==
  IF f = 1 THEN tefSize * TefObj + TxqSize ELSE FifoUA[f - 1] + ObjSize(f - 1)

-----------------------------------------------------------------------------
(* The MTU changes only while the interface is down; the parameter is a    *)
(* file in sysfs.                                                          *)
ChangeMtu ==
  /\ pc = "down"
  /\ mtu' \in {"CAN_MTU", "CANFD_MTU"} \ {mtu}
  /\ UNCHANGED <<param, opens, pc, driver, controller>>

SetParam ==
  /\ param' \in Params \ {param}
  /\ UNCHANGED <<mtu, opens, pc, driver, controller>>

(* A stage of mcp25xxfd_open ends in the next one, or in open_clean, which *)
(* leaves what was set up as it is.                                        *)
NextStage(complete, stage) == pc' = IF complete THEN stage ELSE "down"

(* The write to CAN_CON that turns the transmit queue off may fail: its    *)
(* outcome is overwritten by that of setup_fifo.  Nothing else writes that *)
(* bit.  Then the filters are cleared from 0 up.  The mask CAN_FILCON_MASK *)
(* leaves out a bit of the FIFO number and the enable bit, but write_mask  *)
(* writes whole bytes, so both are cleared and set with the rest.          *)
ClearedNone(done) == filter
Cleared(done) == [i \in Filters |-> IF i < done THEN Disabled ELSE filter[i]]

Open ==
  /\ pc = "down"
  /\ opens < MaxOpens /\ opens' = opens + 1
  /\ txqen' \in {FALSE, txqen}
  /\ \E done \in {0, 16, 32} :
       filter' = Cleared(done) /\ NextStage(done = 32, "layout")
  /\ UNCHANGED <<mtu, param, driver, con, tefSize>>

(* A number of transmit FIFOs that is refused is stored all the same.      *)
SetupLayout ==
  /\ pc = "layout"
  /\ LET payload == PayloadOf(mtu)
         tx == TxFifosOf(param)
     IN \/ /\ Accepted(payload, tx)
           /\ fifos' = Layout(payload, tx)
           /\ \/ tefSize' = TefOf(payload, tx) /\ pc' = "tx"
              \/ UNCHANGED tefSize /\ pc' = "down"
        \/ /\ ~Accepted(payload, tx)
           /\ fifos' = [fifos EXCEPT !.payload = payload, !.tx = tx]
           /\ UNCHANGED tefSize /\ pc' = "down"
  /\ UNCHANGED <<environment, txMask, rxMask, address, messages, txqen, con,
                 filter>>

SetupTx ==
  /\ pc = "tx"
  /\ \E done \in 0 .. fifos.tx :
       LET set == fifos.tx_start .. fifos.tx_start + done - 1
       IN /\ con' = [f \in Fifos |->
                       IF f \in set THEN [tx |-> TRUE, payload |-> fifos.payload]
                                    ELSE con[f]]
          /\ txMask' = txMask \cup set
          /\ NextStage(done = fifos.tx, "rx")
  /\ UNCHANGED <<environment, fifos, rxMask, address, messages, txqen, tefSize,
                 filter>>

(* From the highest receive FIFO down; filter i feeds the i-th of them, so *)
(* a frame goes into the highest FIFO that has room.                       *)
SetupRx ==
  /\ pc = "rx"
  /\ \E done \in 0 .. fifos.rx :
       LET set == fifos.rx - done + 1 .. fifos.rx
       IN /\ con' = [f \in Fifos |->
                       IF f \in set THEN [tx |-> FALSE, payload |-> fifos.payload]
                                    ELSE con[f]]
          /\ filter' = [i \in Filters |-> IF i < done THEN fifos.rx - i ELSE filter[i]]
          /\ rxMask' = rxMask \cup set
          /\ NextStage(done = fifos.rx, "txaddr")
  /\ UNCHANGED <<environment, fifos, txMask, address, messages, txqen, tefSize>>

(* Outside configuration mode the controller reports the addresses.        *)
ReadAddresses(range, done) ==
  address' = [f \in Fifos |->
                IF f \in range /\ f < done THEN FifoUA[f] ELSE address[f]]

ReadTxAddresses ==
  /\ pc = "txaddr"
  /\ \E done \in {0, fifos.tx_start + 1, fifos.tx_start + fifos.tx} :
       /\ ReadAddresses(TxFifos, done)
       /\ NextStage(done = fifos.tx_start + fifos.tx, "messages")
  /\ UNCHANGED <<environment, fifos, txMask, rxMask, messages, controller>>

(* mcp25xxfd_fill_spi_transmit_fifos; without memory the pointer is NULL.  *)
MessageAddressByIndex(f) == address[f - fifos.tx_start + 1]
MessageAddress(f) == address[f]

FillMessages ==
  /\ pc = "messages"
  /\ \/ /\ messages' = [f \in TxFifos |-> MessageAddress(f)]
        /\ pc' = "rxaddr"
     \/ messages' = NoMessages /\ pc' = "down"
  /\ UNCHANGED <<environment, fifos, txMask, rxMask, address, controller>>

(* The rest of mcp25xxfd_open may fail too.                                *)
ReadRxAddresses ==
  /\ pc = "rxaddr"
  /\ \E done \in {0, 2, fifos.rx + 1} :
       /\ ReadAddresses(RxFifos, done)
       /\ pc' \in IF done = fifos.rx + 1 THEN {"up", "down"} ELSE {"down"}
  /\ UNCHANGED <<environment, fifos, txMask, rxMask, messages, controller>>

Stop ==
  /\ pc = "up"
  /\ pc' = "down"
  /\ messages' = NoMessages
  /\ UNCHANGED <<environment, fifos, txMask, rxMask, address, controller>>

Next ==
  \/ ChangeMtu \/ SetParam
  \/ Open \/ SetupLayout \/ SetupTx \/ SetupRx
  \/ ReadTxAddresses \/ FillMessages \/ ReadRxAddresses \/ Stop

Spec == Init /\ [][Next]_vars

-----------------------------------------------------------------------------
Stages == {"tx", "rx", "txaddr", "messages", "rxaddr", "up"}

TypeOK ==
  /\ mtu \in {"CAN_MTU", "CANFD_MTU"} /\ param \in Params /\ opens \in 0 .. MaxOpens
  /\ pc \in Stages \cup {"down", "layout"}
  /\ fifos \in [payload : {0, 8, 64}, tx : Nat, rx : 0 .. 30, tef : 0 .. 32,
                tx_start : 0 .. 31]
  /\ txMask \subseteq Fifos /\ rxMask \subseteq Fifos
  /\ txqen \in BOOLEAN
  /\ con \in [Fifos -> [tx : BOOLEAN, payload : {8, 64}]]
  /\ tefSize \in 1 .. 32 /\ filter \in [Filters -> Fifos \cup {Disabled}]

(* "check range - we need 1 RX-fifo and one tef-fifo" and "we only support *)
(* 31 FIFOS in total": whatever the parameter and the MTU, a layout that   *)
(* setup_fifo goes on with has a receive FIFO, a TEF entry for every       *)
(* transmit FIFO and fits into the FIFO numbers and the RAM.               *)
LayoutFits ==
  pc \in Stages =>
    /\ fifos.tx >= 1 /\ fifos.rx >= 1
    /\ fifos.tx_start = fifos.rx + 1
    /\ fifos.tx + fifos.rx <= 31
    /\ fifos.tef \in fifos.tx .. 32
    /\ fifos.tef * TefObj + fifos.rx * RxObj(fifos.payload)
         + fifos.tx * TxObj(fifos.payload) <= RamSize

(* Once the interface is up the addresses the driver works with are those  *)
(* of disjoint objects inside the RAM (and inside fifo_data, which is      *)
(* indexed by them), the message of a transmit FIFO writes into that FIFO, *)
(* and neighbouring receive FIFOs are adjacent, as bulk reads assume.  A   *)
(* transmit queue that could not be turned off may push the last of them   *)
(* out of the RAM, but never onto another object.                          *)
InRam(f) == address[f] + ObjSize(f) <= RamSize
RamLayout ==
  pc = "up" =>
    /\ \A f \in RxFifos \cup TxFifos :
         /\ address[f] >= fifos.tef * TefObj + TxqSize
         /\ ~txqen => InRam(f)
         /\ \A g \in RxFifos \cup TxFifos :
              f < g => address[f] + ObjSize(f) <= address[g]
    /\ DOMAIN messages = TxFifos
    /\ \A f \in TxFifos : con[f].tx /\ messages[f] = FifoUA[f]
    /\ \A f \in RxFifos \ {fifos.rx} :
         address[f + 1] = address[f] + RxObj(fifos.payload)

(* Once the interface is up every enabled filter feeds a receive FIFO of   *)
(* the present layout, every receive FIFO is fed, and the earlier filter   *)
(* feeds the higher FIFO: none still points where a former layout had its  *)
(* receive FIFOs.                                                          *)
FiltersFeedRx ==
  pc = "up" =>
    LET enabled == {i \in Filters : filter[i] # Disabled}
    IN /\ {filter[i] : i \in enabled} = RxFifos
       /\ \A i \in enabled : ~con[filter[i]].tx
       /\ \A i, j \in enabled : i < j => filter[i] > filter[j]

(* tx_fifo_mask is the "bitmask of which fifo is a tx fifo", rx_fifo_mask  *)
(* of "which fifo is a rx fifo".                                           *)
MasksNameFifos == pc = "up" => txMask = TxFifos /\ rxMask = RxFifos
=============================================================================
