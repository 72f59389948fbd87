----------------------- MODULE Mcp25xxfdFifos_proofs -----------------------
(***************************************************************************)
(* Proofs about Mcp25xxfdFifos: the layout setup_fifo chooses fits for     *)
(* every value of the module parameter and both MTUs, the filters feed     *)
(* exactly the receive FIFOs, and the objects in the RAM are where the     *)
(* driver thinks they are and do not overlap, however often the interface  *)
(* is opened, fails to open and changes its layout.                        *)
(***************************************************************************)
EXTENDS Mcp25xxfdFifos, ProofLemmas

(* The arithmetic of setup_fifo: an accepted number of transmit FIFOs      *)
(* leaves room for a receive FIFO, and the counts fit.                     *)
LEMMA LayoutArithmetic ==
  ASSUME NEW payload \in {8, 64}, NEW tx \in Nat \ {0}, Accepted(payload, tx)
  PROVE  LET l == Layout(payload, tx)
         IN /\ l.payload = payload /\ l.tx = tx
            /\ l.rx \in 1 .. 30 /\ l.tx_start = l.rx + 1
            /\ tx + l.rx <= 31
            /\ l.tef \in tx .. 32
            /\ l.tef * TefObj + l.rx * RxObj(payload)
                 + tx * TxObj(payload) <= RamSize
<1>1. CASE payload = 8
  BY <1>1 DEF Accepted, Layout, RxFifosOf, TefOf, TxMemory, TxObj, RxObj,
              TefObj, RamSize
<1>2. CASE payload = 64
  BY <1>2 DEF Accepted, Layout, RxFifosOf, TefOf, TxMemory, TxObj, RxObj,
              TefObj, RamSize
<1> QED BY <1>1, <1>2

-----------------------------------------------------------------------------
(* The layout in fifos is the accepted one in every stage after it was     *)
(* chosen; that is inductive with the ranges of its inputs.                *)
LayoutInv ==
  /\ mtu \in {"CAN_MTU", "CANFD_MTU"} /\ param \in Params
  /\ LayoutFits /\ (pc \in Stages => fifos.rx \in 1 .. 30 /\ fifos.tx \in Nat)

(* No step breaks it: only SetupLayout enters the stages, and every other  *)
(* one leaves the layout alone.                                            *)
LEMMA LayoutInvStep == LayoutInv /\ [Next]_vars => LayoutInv'
<1> SUFFICES ASSUME LayoutInv, [Next]_vars PROVE LayoutInv'
  OBVIOUS
<1> USE Mcp25xxfdFifosAssumption
<1>1. CASE ChangeMtu
  BY <1>1 DEF ChangeMtu, LayoutInv, LayoutFits, Stages, driver
<1>2. CASE SetParam
  BY <1>2 DEF SetParam, LayoutInv, LayoutFits, Stages, driver
<1>3. CASE Open
  BY <1>3 DEF Open, NextStage, LayoutInv, LayoutFits, Stages, driver
<1>4. CASE SetupLayout
  <2> DEFINE payload == PayloadOf(mtu)
             tx == TxFifosOf(param)
  <2>1. payload \in {8, 64} /\ tx \in Nat \ {0}
    BY DEF PayloadOf, TxFifosOf, LayoutInv
  <2>2. UNCHANGED <<mtu, param>>
    BY <1>4 DEF SetupLayout, environment
  <2>3. CASE Accepted(payload, tx)
    <3>1. fifos' = Layout(payload, tx)
      BY <1>4, <2>3 DEF SetupLayout
    <3>2. Layout(payload, tx).payload = payload
      BY DEF Layout
    <3> QED BY <2>1, <2>2, <2>3, <3>1, <3>2, LayoutArithmetic
         DEF LayoutInv, LayoutFits
  <2>4. CASE ~Accepted(payload, tx)
    BY <1>4, <2>2, <2>4 DEF SetupLayout, LayoutInv, LayoutFits, Stages
  <2> QED BY <2>3, <2>4
<1>5. CASE SetupTx
  BY <1>5 DEF SetupTx, NextStage, LayoutInv, LayoutFits, Stages, environment
<1>6. CASE SetupRx
  BY <1>6 DEF SetupRx, NextStage, LayoutInv, LayoutFits, Stages, environment
<1>7. CASE ReadTxAddresses
  BY <1>7 DEF ReadTxAddresses, NextStage, LayoutInv, LayoutFits, Stages, environment
<1>8. CASE FillMessages
  BY <1>8 DEF FillMessages, LayoutInv, LayoutFits, Stages, environment
<1>9. CASE ReadRxAddresses
  BY <1>9 DEF ReadRxAddresses, LayoutInv, LayoutFits, Stages, environment
<1>10. CASE Stop
  BY <1>10 DEF Stop, LayoutInv, LayoutFits, Stages, environment
<1>11. CASE UNCHANGED vars
  BY <1>11 DEF vars, environment, driver, LayoutInv, LayoutFits, Stages
<1> QED BY <1>1, <1>2, <1>3, <1>4, <1>5, <1>6, <1>7, <1>8, <1>9, <1>10, <1>11
     DEF Next

(* LayoutInv holds throughout.                                             *)
LEMMA LayoutInvAlways == Spec => []LayoutInv
<1>1. Init => LayoutInv
  BY DEF Init, LayoutInv, LayoutFits, Stages
<1> QED BY <1>1, LayoutInvStep, PTL DEF Spec

(* Whatever value tx_fifos is given and however the MTU changes between    *)
(* opens, the layout setup_fifo goes on with fits the 31 FIFOs and the     *)
(* 2048 bytes of RAM.                                                      *)
THEOREM LayoutCorrect == Spec => []LayoutFits
<1>1. LayoutInv => LayoutFits
  BY DEF LayoutInv
<1> QED BY <1>1, LayoutInvAlways, PTL

-----------------------------------------------------------------------------
(* Once the filters are cleared they stay so until SetupRx enables one for *)
(* every receive FIFO, from the highest down.                              *)
FilterInv ==
  /\ filter \in [Filters -> Fifos \cup {Disabled}]
  /\ con \in [Fifos -> [tx : BOOLEAN, payload : {8, 64}]]
  /\ pc \in Stages => fifos.payload \in {8, 64}
  /\ pc \in {"layout", "tx", "rx"} => \A i \in Filters : filter[i] = Disabled
  /\ pc \in Stages \ {"tx", "rx"} =>
       /\ \A i \in Filters :
            filter[i] = IF i < fifos.rx THEN fifos.rx - i ELSE Disabled
       /\ \A f \in RxFifos : ~con[f].tx

(* Open clears all filters or does not go on; SetupRx writes them all or   *)
(* does not go on; in between and afterwards they are left alone.          *)
LEMMA FilterInvStep == LayoutInv /\ FilterInv /\ [Next]_vars => FilterInv'
<1> SUFFICES ASSUME LayoutInv, FilterInv, [Next]_vars PROVE FilterInv'
  OBVIOUS
<1> USE DEF Filters, Fifos, Disabled
<1>1. CASE ChangeMtu
  BY <1>1 DEF ChangeMtu, FilterInv, RxFifos, driver, controller
<1>2. CASE SetParam
  BY <1>2 DEF SetParam, FilterInv, RxFifos, driver, controller
<1>3. CASE Open
  <2> PICK done \in {0, 16, 32} : filter' = Cleared(done) /\ NextStage(done = 32, "layout")
    BY <1>3 DEF Open
  <2>1. UNCHANGED <<fifos, con>>
    BY <1>3 DEF Open, driver
  <2>2. filter' \in [Filters -> Fifos \cup {Disabled}]
    BY DEF Cleared, FilterInv
  <2>3. pc' = "layout" => \A i \in Filters : filter'[i] = Disabled
    BY DEF Cleared, NextStage
  <2>4. pc' \in {"layout", "down"}
    BY DEF NextStage
  <2> QED BY <2>1, <2>2, <2>3, <2>4 DEF FilterInv, Stages
<1>4. CASE SetupLayout
  <2>1. UNCHANGED <<con, filter>> /\ pc = "layout" /\ pc' \in {"tx", "down"}
    BY <1>4 DEF SetupLayout
  <2>2. pc' = "tx" => fifos'.payload \in {8, 64}
    BY <1>4 DEF SetupLayout, Layout, PayloadOf
  <2> QED BY <2>1, <2>2 DEF FilterInv, Stages
<1>5. CASE SetupTx
  <2>1. UNCHANGED <<fifos, filter>> /\ pc = "tx" /\ pc' \in {"rx", "down"}
    BY <1>5 DEF SetupTx, NextStage
  <2>2. con' \in [Fifos -> [tx : BOOLEAN, payload : {8, 64}]]
    BY <1>5 DEF SetupTx, FilterInv, Stages
  <2> QED BY <2>1, <2>2 DEF FilterInv, Stages
<1>6. CASE SetupRx
  <2> PICK done \in 0 .. fifos.rx :
        /\ con' = [f \in Fifos |->
                     IF f \in fifos.rx - done + 1 .. fifos.rx
                       THEN [tx |-> FALSE, payload |-> fifos.payload] ELSE con[f]]
        /\ filter' = [i \in Filters |-> IF i < done THEN fifos.rx - i ELSE filter[i]]
        /\ NextStage(done = fifos.rx, "txaddr")
    BY <1>6 DEF SetupRx
  <2>1. UNCHANGED fifos /\ pc = "rx" /\ fifos.rx \in 1 .. 30
    BY <1>6 DEF SetupRx, LayoutInv, Stages
  <2>2. con' \in [Fifos -> [tx : BOOLEAN, payload : {8, 64}]]
    BY <2>1 DEF FilterInv, Stages
  <2>3. filter' \in [Filters -> Fifos \cup {Disabled}]
    BY <2>1 DEF FilterInv
  <2>4. pc' \in {"txaddr", "down"} /\ (pc' = "txaddr" => done = fifos.rx)
    BY DEF NextStage
  <2>5. done = fifos.rx =>
          /\ \A i \in Filters :
               filter'[i] = IF i < fifos.rx THEN fifos.rx - i ELSE Disabled
          /\ \A f \in RxFifos : ~con'[f].tx
    <3>1. ASSUME done = fifos.rx, NEW i \in Filters
          PROVE  filter'[i] = IF i < fifos.rx THEN fifos.rx - i ELSE Disabled
      BY <2>1, <3>1 DEF FilterInv
    <3>2. ASSUME done = fifos.rx, NEW f \in RxFifos PROVE ~con'[f].tx
      <4>1. f \in fifos.rx - done + 1 .. fifos.rx /\ f \in Fifos
        BY <2>1, <3>2 DEF RxFifos
      <4> QED BY <4>1
    <3> QED BY <3>1, <3>2
  <2> QED BY <2>1, <2>2, <2>3, <2>4, <2>5 DEF FilterInv, Stages, RxFifos
<1>7. CASE ReadTxAddresses
  BY <1>7 DEF ReadTxAddresses, NextStage, controller, FilterInv, Stages, RxFifos
<1>8. CASE FillMessages
  BY <1>8 DEF FillMessages, controller, FilterInv, Stages, RxFifos
<1>9. CASE ReadRxAddresses
  BY <1>9 DEF ReadRxAddresses, controller, FilterInv, Stages, RxFifos
<1>10. CASE Stop
  BY <1>10 DEF Stop, controller, FilterInv, Stages, RxFifos
<1>11. CASE UNCHANGED vars
  BY <1>11 DEF vars, driver, controller, FilterInv, Stages, RxFifos
<1> QED BY <1>1, <1>2, <1>3, <1>4, <1>5, <1>6, <1>7, <1>8, <1>9, <1>10, <1>11
     DEF Next

(* The filters and the FIFOs' directions are as FilterInv says.            *)
LEMMA FilterInvAlways == Spec => []FilterInv
<1>1. Init => FilterInv
  BY DEF Init, FilterInv, Stages, Filters, Fifos, Disabled
<1> QED
  BY <1>1, FilterInvStep, LayoutInvAlways, PTL DEF Spec

(* However often the interface is opened and whatever layouts it had       *)
(* before, once it is up its filters feed exactly its receive FIFOs, the   *)
(* highest first.                                                          *)
THEOREM FiltersCorrect == Spec => []FiltersFeedRx
<1>1. LayoutInv /\ FilterInv => FiltersFeedRx
  <2> SUFFICES ASSUME LayoutInv, FilterInv, pc = "up" PROVE FiltersFeedRx
    BY DEF FiltersFeedRx
  <2> DEFINE enabled == {i \in Filters : filter[i] # Disabled}
  <2>1. fifos.rx \in 1 .. 30
    BY DEF LayoutInv, Stages
  <2>2. \A i \in Filters :
          filter[i] = IF i < fifos.rx THEN fifos.rx - i ELSE Disabled
    BY DEF FilterInv, Stages
  <2>3. enabled = 0 .. fifos.rx - 1
    BY <2>1, <2>2 DEF Filters, Disabled
  <2>4. {filter[i] : i \in enabled} = RxFifos
    <3>1. ASSUME NEW f \in RxFifos PROVE \E i \in enabled : filter[i] = f
      <4> HIDE DEF enabled
      <4>1. /\ fifos.rx - f \in 0 .. fifos.rx - 1 /\ fifos.rx - f \in Filters
            /\ fifos.rx - f < fifos.rx /\ fifos.rx - (fifos.rx - f) = f
        BY <2>1, <3>1 DEF RxFifos, Filters
      <4>2. fifos.rx - f \in enabled /\ filter[fifos.rx - f] = f
        BY <2>2, <2>3, <4>1
      <4> QED BY <4>2
    <3>2. ASSUME NEW i \in enabled PROVE filter[i] \in RxFifos
      BY <2>1, <2>2, <2>3 DEF RxFifos, Filters
    <3> QED BY <3>1, <3>2
  <2>5. \A i \in enabled : ~con[filter[i]].tx
    BY <2>4 DEF FilterInv, Stages
  <2>6. \A i, j \in enabled : i < j => filter[i] > filter[j]
    <3> SUFFICES ASSUME NEW i \in enabled, NEW j \in enabled, i < j
                 PROVE  filter[i] > filter[j]
      OBVIOUS
    <3>1. i \in Filters /\ j \in Filters /\ i < fifos.rx /\ j < fifos.rx
      BY <2>1, <2>3 DEF Filters
    <3>2. filter[i] = fifos.rx - i /\ filter[j] = fifos.rx - j
      BY <2>2, <3>1
    <3> HIDE DEF enabled
    <3> QED BY <2>1, <3>1, <3>2 DEF Filters
  <2> HIDE DEF enabled
  <2> QED BY <2>4, <2>5, <2>6 DEF FiltersFeedRx, enabled
<1> QED BY <1>1, FilterInvAlways, LayoutInvAlways, PTL
-----------------------------------------------------------------------------
(* Types.                                                                  *)

(* Every variable keeps its type: no FIFO number leaves 1 .. 31 and no     *)
(* register field its range.                                               *)
LEMMA TypeStep ==
  ASSUME LayoutInv, FilterInv, FilterInv', TypeOK, [Next]_vars
  PROVE  TypeOK'
<1> USE Mcp25xxfdFifosAssumption
<1>1. /\ filter' \in [Filters -> Fifos \cup {Disabled}]
      /\ con' \in [Fifos -> [tx : BOOLEAN, payload : {8, 64}]]
  BY DEF FilterInv
<1>q. txqen' \in BOOLEAN
  <2>1. txqen' = FALSE \/ txqen' = txqen
    BY Zenon DEF Next, ChangeMtu, SetParam, Open, SetupLayout, SetupTx, SetupRx, ReadTxAddresses,
       FillMessages, ReadRxAddresses, Stop, vars, controller
  <2> QED BY <2>1, Zenon DEF TypeOK
<1>2. CASE ChangeMtu
  BY <1>1, <1>q, <1>2 DEF ChangeMtu, TypeOK, driver, controller
<1>3. CASE SetParam
  BY <1>1, <1>q, <1>3 DEF SetParam, TypeOK, driver, controller
<1>4. CASE Open
  <2>1. /\ UNCHANGED <<mtu, param, fifos, txMask, rxMask, tefSize>> /\ opens' \in 0 .. MaxOpens
        /\ pc' \in {"down", "layout"}
    BY <1>4 DEF Open, NextStage, driver, TypeOK
  <2> QED
    BY <1>1, <1>q, <2>1 DEF TypeOK
<1>5. CASE SetupLayout
  <2> DEFINE payload == PayloadOf(mtu)
             tx == TxFifosOf(param)
             l == Layout(payload, tx)
  <2>1. payload \in {8, 64} /\ tx \in Nat \ {0}
    BY DEF PayloadOf, TxFifosOf, TypeOK
  <2>2. /\ UNCHANGED <<mtu, param, opens, txMask, rxMask>>
        /\ pc' \in Stages \cup {"down", "layout"}
    BY <1>5 DEF SetupLayout, environment, Stages
  <2>3. CASE Accepted(payload, tx)
    <3>1. fifos' = l /\ tefSize' \in {tefSize, TefOf(payload, tx)}
      BY <1>5, <2>3 DEF SetupLayout
    <3>2. /\ l = [payload |-> payload, tx |-> tx, rx |-> l.rx, tef |-> l.tef,
                  tx_start |-> l.tx_start]
          /\ l.tef = TefOf(payload, tx)
      BY DEF Layout
    <3> HIDE DEF payload, tx
    <3>3. /\ l.rx \in 1 .. 30 /\ l.tx_start = l.rx + 1 /\ tx + l.rx <= 31
          /\ l.tef \in tx .. 32
      BY <2>1, <2>3, LayoutArithmetic
    <3> HIDE DEF l
    <3>4. l.tx_start \in 0 .. 31 /\ l.tef \in 1 .. 32 /\ l.rx \in 0 .. 30 /\ l.tef \in 0 .. 32
      BY <2>1, <3>3
    <3>5. fifos' \in [payload : {0, 8, 64}, tx : Nat, rx : 0 .. 30, tef : 0 .. 32,
                      tx_start : 0 .. 31]
      BY <2>1, <3>1, <3>2, <3>4
    <3>6. tefSize' \in 1 .. 32
      BY <3>1, <3>2, <3>4 DEF TypeOK
    <3> QED
      BY <1>1, <1>q, <2>2, <3>5, <3>6 DEF TypeOK
  <2>4. CASE ~Accepted(payload, tx)
    <3>1. fifos' = [fifos EXCEPT !.payload = payload, !.tx = tx] /\ UNCHANGED tefSize
      BY <1>5, <2>4 DEF SetupLayout
    <3> HIDE DEF payload, tx
    <3>2. fifos' \in [payload : {0, 8, 64}, tx : Nat, rx : 0 .. 30, tef : 0 .. 32,
                      tx_start : 0 .. 31]
      BY <2>1, <3>1 DEF TypeOK
    <3> QED
      BY <1>1, <1>q, <2>2, <3>1, <3>2 DEF TypeOK
  <2> QED
    BY <2>3, <2>4
<1>6. CASE SetupTx
  <2> PICK done \in 0 .. fifos.tx :
        /\ txMask' = txMask \cup (fifos.tx_start .. fifos.tx_start + done - 1)
        /\ NextStage(done = fifos.tx, "rx")
    BY <1>6 DEF SetupTx
  <2>1. /\ UNCHANGED <<mtu, param, opens, fifos, rxMask, tefSize>> /\ pc = "tx"
        /\ fifos.tx_start = fifos.rx + 1 /\ fifos.tx + fifos.rx <= 31
        /\ fifos.rx \in 1 .. 30 /\ fifos.tx \in Nat
    BY <1>6 DEF SetupTx, environment, LayoutInv, LayoutFits, Stages
  <2>2. fifos.tx_start .. fifos.tx_start + done - 1 \subseteq Fifos
    BY <2>1 DEF Fifos
  <2>3. pc' \in Stages \cup {"down", "layout"}
    BY DEF NextStage, Stages
  <2> QED
    BY <1>1, <1>q, <2>1, <2>2, <2>3 DEF TypeOK
<1>7. CASE SetupRx
  <2> PICK done \in 0 .. fifos.rx :
        /\ rxMask' = rxMask \cup (fifos.rx - done + 1 .. fifos.rx)
        /\ NextStage(done = fifos.rx, "txaddr")
    BY <1>7 DEF SetupRx
  <2>1. /\ UNCHANGED <<mtu, param, opens, fifos, txMask, tefSize>> /\ fifos.rx \in 1 .. 30
    BY <1>7 DEF SetupRx, environment, LayoutInv, Stages
  <2>2. fifos.rx - done + 1 .. fifos.rx \subseteq Fifos
    BY <2>1 DEF Fifos
  <2>3. pc' \in Stages \cup {"down", "layout"}
    BY DEF NextStage, Stages
  <2> QED
    BY <1>1, <1>q, <2>1, <2>2, <2>3 DEF TypeOK
<1>8. CASE ReadTxAddresses \/ FillMessages \/ ReadRxAddresses \/ Stop
  <2>1. UNCHANGED <<mtu, param, opens, fifos, txMask, rxMask, tefSize>>
    BY <1>8 DEF ReadTxAddresses, FillMessages, ReadRxAddresses, Stop, environment, controller
  <2>2. pc' \in Stages \cup {"down", "layout"}
    BY <1>8 DEF ReadTxAddresses, FillMessages, ReadRxAddresses, Stop, NextStage, Stages
  <2> QED
    BY <1>1, <1>q, <2>1, <2>2 DEF TypeOK
<1>9. CASE UNCHANGED vars
  BY <1>1, <1>q, <1>9 DEF vars, environment, driver, controller, TypeOK
<1> QED
  BY <1>2, <1>3, <1>4, <1>5, <1>6, <1>7, <1>8, <1>9 DEF Next

(* Every variable has its type, whatever the parameter is rewritten to and *)
(* wherever an open fails.                                                 *)
THEOREM TypeCorrect == Spec => []TypeOK
<1>1. Init => TypeOK
  <2> SUFFICES ASSUME Init PROVE TypeOK
    OBVIOUS
  <2>1. /\ fifos = [payload |-> 0, tx |-> 0, rx |-> 0, tef |-> 0, tx_start |-> 0]
        /\ opens \in 0 .. MaxOpens
    BY Mcp25xxfdFifosAssumption DEF Init
  <2> QED
    BY <2>1 DEF Init, TypeOK, Stages, Fifos, Filters, Disabled
<1>2. LayoutInv /\ FilterInv /\ FilterInv' /\ TypeOK /\ [Next]_vars => TypeOK'
  BY TypeStep
<1> QED
  BY <1>1, <1>2, LayoutInvAlways, FilterInvAlways, PTL DEF Spec
-----------------------------------------------------------------------------
(* Addresses.                                                              *)

(* Every object has a size.                                                *)
LEMMA ObjSizeType ==
  ASSUME TypeOK, NEW f \in Fifos
  PROVE  ObjSize(f) \in Nat
<1>1. con[f] \in [tx : BOOLEAN, payload : {8, 64}]
  BY DEF TypeOK
<1>2. con[f].payload \in {8, 64}
  BY <1>1
<1> QED
  BY <1>2 DEF ObjSize, TxObj, RxObj

(* So has the transmit queue, which is there or is not.                    *)
LEMMA TxqSizeType == TxqSize \in Nat
  BY DEF TxqSize, TxqObj, TxObj

(* The addresses the controller reports exist: FIFO by FIFO they can be    *)
(* added up, so there is no lowest FIFO without one.                       *)
LEMMA StartsExist ==
  ASSUME TypeOK
  PROVE  FifoUA = [f \in Fifos |-> IF f = 1 THEN tefSize * TefObj + TxqSize
                                             ELSE FifoUA[f - 1] + ObjSize(f - 1)]
<1> DEFINE base == tefSize * TefObj + TxqSize
           Starts(g, n) == /\ g \in [1 .. n -> Nat] /\ g[1] = base
                           /\ \A f \in 1 .. n - 1 : g[f + 1] = g[f] + ObjSize(f)
           Without == {n \in 1 .. 31 : \A g : ~Starts(g, n)}
<1>1. base \in Nat
  BY TxqSizeType DEF TypeOK, TefObj
<1> HIDE DEF base
<1>2. Without = {}
  <2> SUFFICES ASSUME Without # {} PROVE FALSE
    OBVIOUS
  <2> DEFINE m == Min(Without)
  <2>1. m \in Without /\ \A n \in Without : m <= n
    <3>1. Without \subseteq Nat
      <4>1. Without \subseteq 1 .. 31
        <5> HIDE DEF Starts
        <5> QED
          OBVIOUS
      <4> HIDE DEF Without
      <4> QED
        BY <4>1
    <3> HIDE DEF Without
    <3> QED
      BY <3>1, MinOfNat
  <2> HIDE DEF m
  <2>2. m \in 1 .. 31 /\ \A g : ~Starts(g, m)
    BY <2>1
  <2>3. m # 1
    <3> DEFINE g == [i \in 1 .. 1 |-> base]
    <3>1. Starts(g, 1)
      BY <1>1
    <3> QED
      BY <2>2, <3>1
  <2>4. m - 1 \in 1 .. 31 /\ m - 1 \in Fifos /\ ~(m <= m - 1)
    BY <2>2, <2>3 DEF Fifos
  <2>5. PICK g : Starts(g, m - 1)
    BY <2>1, <2>4
  <2> DEFINE h == [i \in 1 .. m |-> IF i < m THEN g[i] ELSE g[m - 1] + ObjSize(m - 1)]
  <2>6. h \in [1 .. m -> Nat]
    <3>1. \A i \in 1 .. m : i < m => g[i] \in Nat
      BY <2>2, <2>5
    <3>2. g[m - 1] + ObjSize(m - 1) \in Nat
      <4>1. ObjSize(m - 1) \in Nat
        BY <2>4, ObjSizeType
      <4>2. g[m - 1] \in Nat
        <5>1. m - 1 \in 1 .. m - 1
          BY <2>2, <2>4
        <5>2. g \in [1 .. m - 1 -> Nat]
          BY <2>5
        <5> QED
          BY <5>1, <5>2, Zenon
      <4> QED
        BY <4>1, <4>2
    <3> QED
      BY <3>1, <3>2
  <2>7. h[1] = base
    BY <2>2, <2>3, <2>5
  <2>8. ASSUME NEW f \in 1 .. m - 1 PROVE h[f + 1] = h[f] + ObjSize(f)
    <3>1. f \in 1 .. m /\ f + 1 \in 1 .. m /\ h[f] = g[f]
      BY <2>2, <2>8
    <3>2. CASE f = m - 1
      BY <2>2, <3>1, <3>2
    <3>3. CASE f # m - 1
      <4>1. f \in 1 .. (m - 1) - 1 /\ f + 1 < m
        BY <2>2, <2>8, <3>3
      <4>2. h[f + 1] = g[f + 1]
        BY <3>1, <4>1
      <4> QED
        BY <2>5, <3>1, <4>1, <4>2
    <3> QED
      BY <3>2, <3>3
  <2> HIDE DEF h
  <2>9. Starts(h, m)
    BY <2>6, <2>7, <2>8
  <2> QED
    BY <2>2, <2>9
<1>3. PICK g : Starts(g, 31)
  <2> HIDE DEF Starts
  <2> SUFFICES ASSUME \A g : ~Starts(g, 31) PROVE 31 \in Without
    BY <1>2
  <2> QED
    OBVIOUS
<1>4. g = [f \in Fifos |-> IF f = 1 THEN base ELSE g[f - 1] + ObjSize(f - 1)]
  <2>1. g \in [Fifos -> Nat]
    BY <1>3 DEF Fifos
  <2>2. ASSUME NEW f \in Fifos
        PROVE  g[f] = IF f = 1 THEN base ELSE g[f - 1] + ObjSize(f - 1)
    <3>1. CASE f = 1
      BY <1>3, <3>1
    <3>2. CASE f # 1
      <4>1. f - 1 \in 1 .. 31 - 1 /\ (f - 1) + 1 = f
        BY <3>2 DEF Fifos
      <4> QED
        BY <1>3, <3>2, <4>1
    <3> QED
      BY <3>1, <3>2
  <2> HIDE DEF Starts
  <2> QED
    BY <2>1, <2>2
<1> HIDE DEF Starts
<1> QED
  BY <1>4, Zenon DEF FifoUA, base

(* What is set up stays: the registers once they are written, the          *)
(* addresses once they are read.                                           *)
ConfigInv ==
  /\ pc \in Stages => tefSize = fifos.tef /\ fifos.payload \in {8, 64}
  /\ pc \in Stages \ {"tx"} =>
       \A f \in TxFifos : con[f] = [tx |-> TRUE, payload |-> fifos.payload]
  /\ pc \in Stages \ {"tx", "rx"} =>
       \A f \in RxFifos : con[f] = [tx |-> FALSE, payload |-> fifos.payload]

AddressInv ==
  /\ pc \in {"messages", "rxaddr", "up"} => \A f \in TxFifos : address[f] = FifoUA[f]
  /\ pc \in {"rxaddr", "up"} => messages = [f \in TxFifos |-> address[f]]
  /\ pc = "up" => \A f \in RxFifos : address[f] = FifoUA[f]

(* The controller moves no FIFO while its registers are left alone.        *)
LEMMA StartsStay ==
  ASSUME UNCHANGED <<con, tefSize, txqen>>
  PROVE  FifoUA' = FifoUA
BY DEF FifoUA, ObjSize, TxqSize

(* In every stage the FIFOs are below 32, and no FIFO is of both kinds.    *)
LEMMA FifoNumbers ==
  ASSUME LayoutInv, pc \in Stages
  PROVE  /\ fifos.rx \in 1 .. 30 /\ fifos.tx \in Nat \ {0} /\ fifos.tx_start = fifos.rx + 1
         /\ fifos.tx + fifos.rx <= 31
         /\ RxFifos \subseteq Fifos /\ TxFifos \subseteq Fifos
         /\ RxFifos \cap TxFifos = {}
<1>1. /\ fifos.rx \in 1 .. 30 /\ fifos.tx \in Nat \ {0} /\ fifos.tx_start = fifos.rx + 1
      /\ fifos.tx + fifos.rx <= 31
  BY DEF LayoutInv, LayoutFits
<1> QED
  BY <1>1 DEF RxFifos, TxFifos, Fifos
(* Every stage of mcp25xxfd_open that goes on has written its registers,   *)
(* and none of a later stage writes them again.                            *)
LEMMA ConfigStep ==
  ASSUME LayoutInv, LayoutInv', TypeOK, ConfigInv, [Next]_vars
  PROVE  ConfigInv'
<1>1. CASE ChangeMtu \/ SetParam \/ UNCHANGED vars
  <2>1. UNCHANGED <<fifos, con, tefSize>> /\ (pc' = pc)
    BY <1>1 DEF ChangeMtu, SetParam, vars, driver, controller
  <2> QED
    BY <2>1 DEF ConfigInv, TxFifos, RxFifos
<1>2. CASE Open
  BY <1>2 DEF Open, NextStage, ConfigInv, Stages
<1>3. CASE SetupLayout
  <2>1. pc' \in {"tx", "down"} /\ (pc' = "tx" => /\ fifos' = Layout(PayloadOf(mtu), TxFifosOf(param))
                                            /\ tefSize' = TefOf(PayloadOf(mtu), TxFifosOf(param)))
    BY <1>3 DEF SetupLayout
  <2>2. pc' = "tx" => tefSize' = fifos'.tef /\ fifos'.payload \in {8, 64}
    BY <2>1 DEF Layout, PayloadOf
  <2> QED
    BY <2>1, <2>2 DEF ConfigInv, Stages
<1>4. CASE SetupTx
  <2> PICK done \in 0 .. fifos.tx :
        /\ con' = [f \in Fifos |->
                     IF f \in fifos.tx_start .. fifos.tx_start + done - 1
                       THEN [tx |-> TRUE, payload |-> fifos.payload] ELSE con[f]]
        /\ NextStage(done = fifos.tx, "rx")
    BY <1>4 DEF SetupTx
  <2>1. UNCHANGED <<fifos, tefSize>> /\ pc = "tx" /\ pc \in Stages
    BY <1>4 DEF SetupTx, Stages
  <2>2. pc' \in {"rx", "down"} /\ (pc' = "rx" => done = fifos.tx)
    BY DEF NextStage
  <2>3. ASSUME done = fifos.tx, NEW f \in TxFifos
        PROVE  con'[f] = [tx |-> TRUE, payload |-> fifos.payload]
    <3>1. f \in Fifos /\ f \in fifos.tx_start .. fifos.tx_start + done - 1
      BY <2>1, <2>3, FifoNumbers DEF TxFifos
    <3> QED
      BY <3>1
  <2> QED
    BY <2>1, <2>2, <2>3 DEF ConfigInv, Stages, TxFifos
<1>5. CASE SetupRx
  <2> PICK done \in 0 .. fifos.rx :
        /\ con' = [f \in Fifos |->
                     IF f \in fifos.rx - done + 1 .. fifos.rx
                       THEN [tx |-> FALSE, payload |-> fifos.payload] ELSE con[f]]
        /\ NextStage(done = fifos.rx, "txaddr")
    BY <1>5 DEF SetupRx
  <2>1. UNCHANGED <<fifos, tefSize>> /\ pc = "rx" /\ pc \in Stages
    BY <1>5 DEF SetupRx, Stages
  <2>2. pc' \in {"txaddr", "down"} /\ (pc' = "txaddr" => done = fifos.rx)
    BY DEF NextStage
  <2>3. ASSUME NEW f \in TxFifos
        PROVE  con'[f] = [tx |-> TRUE, payload |-> fifos.payload]
    <3>1. f \in Fifos /\ f \notin fifos.rx - done + 1 .. fifos.rx
      BY <2>1, FifoNumbers DEF TxFifos
    <3>2. con[f] = [tx |-> TRUE, payload |-> fifos.payload]
      BY <2>1 DEF ConfigInv
    <3> QED
      BY <3>1, <3>2
  <2>4. ASSUME done = fifos.rx, NEW f \in RxFifos
        PROVE  con'[f] = [tx |-> FALSE, payload |-> fifos.payload]
    <3>1. f \in Fifos /\ f \in fifos.rx - done + 1 .. fifos.rx
      BY <2>1, <2>4, FifoNumbers DEF RxFifos
    <3> QED
      BY <3>1
  <2>5. TxFifos' = TxFifos /\ RxFifos' = RxFifos
    BY <2>1 DEF TxFifos, RxFifos
  <2>6. /\ tefSize' = fifos'.tef /\ fifos'.payload \in {8, 64} /\ fifos' = fifos
        /\ pc' \in Stages \ {"tx", "rx"} => done = fifos.rx
    BY <2>1, <2>2 DEF ConfigInv, Stages
  <2>7. \A f \in TxFifos' : con'[f] = [tx |-> TRUE, payload |-> fifos'.payload]
    BY <2>3, <2>5, <2>6
  <2>8. pc' \in Stages \ {"tx", "rx"}
        => \A f \in RxFifos' : con'[f] = [tx |-> FALSE, payload |-> fifos'.payload]
    <3> SUFFICES ASSUME pc' \in Stages \ {"tx", "rx"}, NEW f \in RxFifos
                 PROVE  con'[f] = [tx |-> FALSE, payload |-> fifos.payload]
      BY <2>5, <2>6
    <3> QED
      BY <2>4, <2>6
  <2> QED
    BY <2>6, <2>7, <2>8 DEF ConfigInv
<1>6. CASE ReadTxAddresses \/ FillMessages \/ ReadRxAddresses \/ Stop
  <2>1. UNCHANGED <<fifos, con, tefSize>>
    BY <1>6 DEF ReadTxAddresses, FillMessages, ReadRxAddresses, Stop, controller
  <2>2. pc \in Stages \ {"tx", "rx"} /\ pc' \in (Stages \ {"tx", "rx"}) \cup {"down"}
    BY <1>6 DEF ReadTxAddresses, FillMessages, ReadRxAddresses, Stop, NextStage, Stages
  <2>3. TxFifos' = TxFifos /\ RxFifos' = RxFifos
    BY <2>1 DEF TxFifos, RxFifos
  <2>4. /\ tefSize = fifos.tef /\ fifos.payload \in {8, 64}
        /\ \A f \in TxFifos : con[f] = [tx |-> TRUE, payload |-> fifos.payload]
        /\ \A f \in RxFifos : con[f] = [tx |-> FALSE, payload |-> fifos.payload]
    BY <2>2 DEF ConfigInv
  <2>5. "down" \notin Stages
    BY DEF Stages
  <2> QED
    BY <2>1, <2>2, <2>3, <2>4, <2>5 DEF ConfigInv
<1> QED
  BY <1>1, <1>2, <1>3, <1>4, <1>5, <1>6 DEF Next

(* The addresses are those of the registers as they are, and the messages  *)
(* write to them.                                                          *)
LEMMA AddressStep ==
  ASSUME LayoutInv, TypeOK, AddressInv, [Next]_vars
  PROVE  AddressInv'
<1>1. CASE \/ Open \/ SetupLayout \/ SetupTx \/ SetupRx \/ Stop
  <2>1. pc' \notin {"messages", "rxaddr", "up"}
    BY <1>1 DEF Open, SetupLayout, SetupTx, SetupRx, Stop, NextStage
  <2> QED
    BY <2>1 DEF AddressInv
<1>2. CASE ChangeMtu \/ SetParam \/ UNCHANGED vars
  <2>1. UNCHANGED <<fifos, con, tefSize, txqen, address, messages, pc>>
    BY <1>2 DEF ChangeMtu, SetParam, vars, driver, controller
  <2>2. FifoUA' = FifoUA /\ TxFifos' = TxFifos /\ RxFifos' = RxFifos
    BY <2>1, StartsStay DEF TxFifos, RxFifos
  <2> QED
    BY <2>1, <2>2 DEF AddressInv
<1>3. CASE ReadTxAddresses \/ FillMessages \/ ReadRxAddresses
  <2>1. UNCHANGED <<fifos, con, tefSize, txqen>> /\ pc \in Stages
    BY <1>3 DEF ReadTxAddresses, FillMessages, ReadRxAddresses, controller, Stages
  <2>2. FifoUA' = FifoUA /\ TxFifos' = TxFifos /\ RxFifos' = RxFifos
    BY <2>1, StartsStay DEF TxFifos, RxFifos
  <2>3. /\ RxFifos \subseteq Fifos /\ TxFifos \subseteq Fifos /\ RxFifos \cap TxFifos = {}
        /\ fifos.rx \in Nat /\ fifos.tx \in Nat /\ fifos.tx_start = fifos.rx + 1
    BY <2>1, FifoNumbers
  <2>4. CASE ReadTxAddresses
    <3>1. PICK done \in {0, fifos.tx_start + 1, fifos.tx_start + fifos.tx} :
            ReadAddresses(TxFifos, done) /\ NextStage(done = fifos.tx_start + fifos.tx, "messages")
      BY <2>4 DEF ReadTxAddresses
    <3>2. pc' \in {"messages", "down"} /\ (pc' = "messages" => done = fifos.tx_start + fifos.tx)
      BY <3>1 DEF NextStage
    <3>3. ASSUME done = fifos.tx_start + fifos.tx, NEW f \in TxFifos
          PROVE  address'[f] = FifoUA[f]
      <4>1. f \in Fifos /\ f < done
        BY <2>3, <3>3 DEF TxFifos
      <4> QED
        BY <3>1, <4>1 DEF ReadAddresses
    <3> QED
      BY <2>2, <3>2, <3>3 DEF AddressInv
  <2>5. CASE FillMessages
    <3>1. /\ UNCHANGED address /\ pc = "messages" /\ pc' \in {"rxaddr", "down"}
          /\ pc' = "rxaddr" => messages' = [f \in TxFifos |-> address[f]]
      BY <2>5 DEF FillMessages, MessageAddress
    <3> QED
      BY <2>2, <3>1 DEF AddressInv
  <2>6. CASE ReadRxAddresses
    <3>1. PICK done \in {0, 2, fifos.rx + 1} :
            /\ ReadAddresses(RxFifos, done)
            /\ pc' \in IF done = fifos.rx + 1 THEN {"up", "down"} ELSE {"down"}
      BY <2>6 DEF ReadRxAddresses
    <3>2. /\ pc = "rxaddr" /\ UNCHANGED messages
          /\ pc' \in {"up", "down"} /\ (pc' = "up" => done = fifos.rx + 1)
      BY <2>6, <3>1 DEF ReadRxAddresses
    <3>3. \A f \in TxFifos : address'[f] = address[f]
      BY <2>3, <3>1 DEF ReadAddresses
    <3>4. ASSUME done = fifos.rx + 1, NEW f \in RxFifos PROVE address'[f] = FifoUA[f]
      <4>1. f \in Fifos /\ f < done
        BY <2>3, <3>4 DEF RxFifos
      <4> QED
        BY <3>1, <4>1 DEF ReadAddresses
    <3>5. /\ \A f \in TxFifos : address[f] = FifoUA[f]
          /\ messages = [f \in TxFifos |-> address[f]]
      BY <3>2 DEF AddressInv
    <3>6. messages' = [f \in TxFifos |-> address'[f]]
      BY <3>2, <3>3, <3>5
    <3> QED
      BY <2>2, <3>2, <3>3, <3>4, <3>5, <3>6 DEF AddressInv
  <2> QED
    BY <1>3, <2>4, <2>5, <2>6
<1> QED
  BY <1>1, <1>2, <1>3 DEF Next
(* Where objects of these sizes start when rx receive FIFOs come first,    *)
(* and how large they are.                                                 *)
SizeOf(payload, rx, f) == IF f <= rx THEN RxObj(payload) ELSE TxObj(payload)
StartOf(base, payload, rx, f) ==
  IF f <= rx THEN base + (f - 1) * RxObj(payload)
             ELSE base + rx * RxObj(payload) + (f - 1 - rx) * TxObj(payload)

(* They follow one another, without a gap, up to the end.                  *)
Spans(base, payload, rx, tx) ==
  /\ StartOf(base, payload, rx, 1) = base
  /\ \A f \in 1 .. rx + tx :
       /\ StartOf(base, payload, rx, f) >= base
       /\ StartOf(base, payload, rx, f) \in Nat
       /\ StartOf(base, payload, rx, f + 1)
            = StartOf(base, payload, rx, f) + SizeOf(payload, rx, f)
       /\ StartOf(base, payload, rx, f) + SizeOf(payload, rx, f)
            <= base + rx * RxObj(payload) + tx * TxObj(payload)
       /\ \A g \in 1 .. rx + tx :
            f < g => StartOf(base, payload, rx, f) + SizeOf(payload, rx, f)
                       <= StartOf(base, payload, rx, g)

LEMMA SpanArithmetic ==
  ASSUME NEW payload \in {8, 64}, NEW base \in Nat, NEW rx \in 1 .. 30, NEW tx \in Nat
  PROVE  Spans(base, payload, rx, tx)
<1>1. CASE payload = 8
  BY <1>1 DEF Spans, StartOf, SizeOf, RxObj, TxObj
<1>2. CASE payload = 64
  BY <1>2 DEF Spans, StartOf, SizeOf, RxObj, TxObj
<1> QED
  BY <1>1, <1>2

(* The controller puts the FIFOs there once all of them are configured.    *)
LEMMA StartsAre ==
  ASSUME TypeOK, LayoutInv, ConfigInv, pc \in Stages \ {"tx", "rx"}
  PROVE  \A f \in RxFifos \cup TxFifos :
           /\ f \in 1 .. fifos.rx + fifos.tx
           /\ FifoUA[f] = StartOf(fifos.tef * TefObj + TxqSize, fifos.payload, fifos.rx, f)
           /\ ObjSize(f) = SizeOf(fifos.payload, fifos.rx, f)
<1> DEFINE last == fifos.rx + fifos.tx
           base == fifos.tef * TefObj + TxqSize
           at(f) == StartOf(base, fifos.payload, fifos.rx, f)
           size(f) == SizeOf(fifos.payload, fifos.rx, f)
<1>1. /\ fifos.rx \in 1 .. 30 /\ fifos.tx \in Nat \ {0} /\ fifos.tx_start = fifos.rx + 1
      /\ fifos.tx + fifos.rx <= 31 /\ pc \in Stages
  BY FifoNumbers
<1>2. fifos.payload \in {8, 64} /\ tefSize = fifos.tef /\ base \in Nat
  BY <1>1, TxqSizeType DEF ConfigInv, TypeOK, TefObj
<1>3. /\ at(1) = base
      /\ \A f \in 1 .. last : at(f) \in Nat /\ at(f + 1) = at(f) + size(f)
  <2>1. Spans(base, fifos.payload, fifos.rx, fifos.tx)
    BY <1>1, <1>2, SpanArithmetic
  <2> QED
    BY <2>1 DEF Spans
<1>4. ASSUME NEW f \in 1 .. last
      PROVE  /\ f \in Fifos /\ ObjSize(f) = size(f)
             /\ f \in IF f <= fifos.rx THEN RxFifos ELSE TxFifos
  <2>1. f \in Fifos /\ f \in IF f <= fifos.rx THEN RxFifos ELSE TxFifos
    BY <1>1, <1>4 DEF Fifos, RxFifos, TxFifos
  <2>2. CASE f <= fifos.rx
    <3>1. con[f] = [tx |-> FALSE, payload |-> fifos.payload]
      BY <2>1, <2>2 DEF ConfigInv
    <3>2. ~con[f].tx /\ con[f].payload = fifos.payload
      BY <3>1
    <3> QED
      BY <2>1, <2>2, <3>2 DEF ObjSize, SizeOf
  <2>3. CASE ~(f <= fifos.rx)
    <3>1. con[f] = [tx |-> TRUE, payload |-> fifos.payload]
      BY <2>1, <2>3 DEF ConfigInv
    <3>2. con[f].tx /\ con[f].payload = fifos.payload
      BY <3>1
    <3> QED
      BY <2>1, <2>3, <3>2 DEF ObjSize, SizeOf
  <2> QED
    BY <2>2, <2>3
<1>5. /\ FifoUA[1] = tefSize * TefObj + TxqSize
      /\ \A f \in Fifos : f # 1 => FifoUA[f] = FifoUA[f - 1] + ObjSize(f - 1)
  <2>1. 1 \in Fifos
    BY DEF Fifos
  <2> QED
    BY <2>1, StartsExist
<1> HIDE DEF at, size
<1> DEFINE Astray == {f \in 1 .. last : FifoUA[f] # at(f)}
<1>6. Astray = {}
  <2> SUFFICES ASSUME Astray # {} PROVE FALSE
    OBVIOUS
  <2> DEFINE m == Min(Astray)
  <2>1. m \in Astray /\ \A f \in Astray : m <= f
    <3>1. Astray \subseteq Nat
      OBVIOUS
    <3> HIDE DEF Astray
    <3> QED
      BY <3>1, MinOfNat
  <2> HIDE DEF m
  <2>2. m \in 1 .. last /\ FifoUA[m] # at(m) /\ last \in Nat
    BY <1>1, <2>1
  <2>3. m # 1
    BY <1>2, <1>3, <1>5, <2>2
  <2>4. m - 1 \in 1 .. last /\ ~(m <= m - 1) /\ (m - 1) + 1 = m
    BY <2>2, <2>3
  <2>5. FifoUA[m - 1] = at(m - 1)
    BY <2>1, <2>4
  <2> HIDE DEF Astray, last
  <2>6. FifoUA[m] = FifoUA[m - 1] + ObjSize(m - 1) /\ ObjSize(m - 1) = size(m - 1)
    BY <1>4, <1>5, <2>2, <2>3, <2>4
  <2>7. at(m) = at(m - 1) + size(m - 1)
    <3>1. at((m - 1) + 1) = at(m - 1) + size(m - 1)
      BY <1>3, <2>4
    <3> QED
      BY <2>4, <3>1
  <2> QED
    BY <2>2, <2>5, <2>6, <2>7
<1>7. RxFifos \cup TxFifos \subseteq 1 .. last
  BY <1>1 DEF RxFifos, TxFifos
<1> QED
  BY <1>4, <1>6, <1>7 DEF at, size

(* However often the interface is opened and whatever it was before, once  *)
(* it is up the addresses the driver works with are those of disjoint      *)
(* objects behind the TEF, the message of a FIFO writes into it, and unless*)
(* the transmit queue could not be turned off they lie inside the RAM.     *)
THEOREM AddressesCorrect == Spec => []RamLayout
<1>1. Init => ConfigInv /\ AddressInv
  BY DEF Init, ConfigInv, AddressInv, Stages
<1>2. /\ LayoutInv /\ LayoutInv' /\ TypeOK /\ ConfigInv /\ AddressInv /\ [Next]_vars
      => ConfigInv' /\ AddressInv'
  BY ConfigStep, AddressStep
<1>3. TypeOK /\ LayoutInv /\ ConfigInv /\ AddressInv => RamLayout
  <2> SUFFICES ASSUME TypeOK, LayoutInv, ConfigInv, AddressInv, pc = "up" PROVE RamLayout
    BY DEF RamLayout
  <2> DEFINE base == fifos.tef * TefObj + TxqSize
             at(f) == StartOf(base, fifos.payload, fifos.rx, f)
             size(f) == SizeOf(fifos.payload, fifos.rx, f)
             last == fifos.rx + fifos.tx
  <2>1. pc \in Stages \ {"tx", "rx"} /\ pc \in Stages
    BY DEF Stages
  <2>2. /\ fifos.rx \in 1 .. 30 /\ fifos.tx \in Nat /\ fifos.payload \in {8, 64}
        /\ base \in Nat
        /\ ~txqen =>
             base + fifos.rx * RxObj(fifos.payload) + fifos.tx * TxObj(fifos.payload) <= RamSize
    <3>1. /\ fifos.rx \in 1 .. 30 /\ fifos.tx \in Nat /\ fifos.payload \in {8, 64}
          /\ fifos.tef * TefObj \in Nat /\ TxqSize \in Nat
          /\ fifos.tef * TefObj + fifos.rx * RxObj(fifos.payload)
               + fifos.tx * TxObj(fifos.payload) <= RamSize
      BY <2>1, FifoNumbers, TxqSizeType DEF ConfigInv, TypeOK, TefObj, LayoutInv, LayoutFits
    <3>2. ~txqen => base = fifos.tef * TefObj
      BY <3>1 DEF TxqSize
    <3> QED BY <3>1, <3>2
  <2>3. /\ \A f \in TxFifos : /\ address[f] = FifoUA[f] /\ messages[f] = FifoUA[f]
                              /\ con[f].tx
        /\ \A f \in RxFifos : address[f] = FifoUA[f]
        /\ DOMAIN messages = TxFifos
    BY <2>1 DEF ConfigInv, AddressInv
  <2>4. \A f \in RxFifos \cup TxFifos :
          f \in 1 .. last /\ address[f] = at(f) /\ ObjSize(f) = size(f)
    BY <2>1, <2>3, StartsAre
  <2>5. \A f \in 1 .. last :
          /\ at(f) >= base /\ at(f) \in Nat /\ at(f + 1) = at(f) + size(f)
          /\ at(f) + size(f) <= base + fifos.rx * RxObj(fifos.payload)
                                     + fifos.tx * TxObj(fifos.payload)
          /\ \A g \in 1 .. last : f < g => at(f) + size(f) <= at(g)
    <3>1. Spans(base, fifos.payload, fifos.rx, fifos.tx)
      BY <2>2, SpanArithmetic
    <3> QED
      BY <3>1 DEF Spans
  <2>6. ~txqen => \A f \in 1 .. last : at(f) + size(f) <= RamSize
    <3>1. \A f \in 1 .. last : size(f) \in Nat
      BY <2>2 DEF SizeOf, RxObj, TxObj
    <3>2. /\ fifos.rx * RxObj(fifos.payload) \in Nat /\ fifos.tx * TxObj(fifos.payload) \in Nat
          /\ RamSize \in Nat
      BY <2>2 DEF RxObj, TxObj, RamSize
    <3> HIDE DEF at, size, last, base
    <3> QED
      BY <2>2, <2>5, <3>1, <3>2
  <2>7. \A f \in RxFifos \ {fifos.rx} :
          f + 1 \in RxFifos /\ f \in RxFifos /\ size(f) = RxObj(fifos.payload)
    BY <2>2 DEF RxFifos, SizeOf
  <2> HIDE DEF at, size, last
  <2>8. \A f \in RxFifos \ {fifos.rx} : address[f + 1] = address[f] + RxObj(fifos.payload)
    BY <2>4, <2>5, <2>7
  <2>9. \A f \in RxFifos \cup TxFifos :
          /\ address[f] >= base /\ (~txqen => InRam(f))
          /\ \A g \in RxFifos \cup TxFifos : f < g => address[f] + ObjSize(f) <= address[g]
    BY <2>4, <2>5, <2>6 DEF InRam
  <2> QED
    BY <2>3, <2>8, <2>9 DEF RamLayout
<1> QED
  BY <1>1, <1>2, <1>3, TypeCorrect, LayoutInvAlways, PTL DEF Spec
=============================================================================
