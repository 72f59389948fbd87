---------------------------- MODULE Mcp25xxfdRx ----------------------------
(***************************************************************************)
(* The receive path of the mcp25xxfd driver's interrupt thread: it reads   *)
(* the receive FIFOs that the status names, releases them, adds the        *)
(* transmit events (TEF entries) of the driver's own frames, sorts all of  *)
(* them by time stamp and hands them to the network stack.                 *)
(*                                                                         *)
(* An event is a frame that ended on the bus, received or sent by this     *)
(* controller, numbered in bus order; its time stamp is that number in    *)
(* the 24 bits of the controller's counter, one tick for each event.       *)
(* One SPI transfer is one step.  How many transmit events the thread      *)
(* reads is decided by the masks of Mcp25xxfdTx; here it is at least one   *)
(* when TEFIF was set, and any number of those there are.                  *)
(***************************************************************************)
EXTENDS Integers, Sequences, FiniteSets, FiniteSetsExt, SequencesExt

CONSTANTS
  NRx,          (* fifos.rx_fifos, FIFOs 1 .. NRx, one object each         *)
  NTx,          (* fifos.tx_fifos                                          *)
  ReadModes,    (* "bulk", "single": Can2.0 reads in bulk; CanFD one by one*)
                (* or, by a module parameter that may change, in bulk      *)
  TsHalf,       (* half the range of a time stamp: 2^23 in the code        *)
  Sends,        (* the driver transmits frames of its own                  *)
  MaxEvents,    (* bound: frames on the bus                                *)
  MaxNoMem,     (* bound: socket buffers that cannot be allocated          *)
  MaxSpiFaults  (* bound: SPI transfers that fail                          *)

ASSUME Mcp25xxfdRxAssumption ==
  /\ NRx \in Nat \ {0} /\ NTx \in Nat \ {0} /\ NRx + NTx <= 31
  /\ ReadModes \in (SUBSET {"bulk", "single"}) \ {{}} /\ Sends \in BOOLEAN
  /\ TsHalf \in Nat \ {0}
  /\ MaxEvents \in Nat /\ MaxNoMem \in Nat /\ MaxSpiFaults \in Nat

RxFifos == 1 .. NRx
Events == 1 .. MaxEvents
None == 0

VARIABLES
  (* the controller *)
  fifo,        (* the event in each receive FIFO                          *)
  tef,         (* events of own frames not yet read from the TEF          *)
  rxovif,      (* a frame found all receive FIFOs full                    *)
  (* the interrupt thread *)
  pc,          (* where it is                                             *)
  status,      (* CAN_INT flags, RXIF and RXOVIF as last read; how the    *)
               (* FIFOs of this pass are read                             *)
  release,     (* FIFOs that were read and are to be released             *)
  batch,       (* bulk: events read, not queued before the release is done*)
  queued,      (* queued_fifos                                            *)
  (* history *)
  bus,         (* the number of events so far                             *)
  own,         (* the events that are frames of this driver               *)
  round,       (* own frames since the transmit queue was last woken      *)
  overflowed,  (* received events that found no room                      *)
  dropped,     (* events dropped for want of a socket buffer              *)
  delivered,   (* what the network stack was given, in order              *)
  mixed,       (* the passes that sorted stamps of both signs             *)
  used         (* what the bounds have used up, and how often the single  *)
               (* reading of FIFOs was given up                           *)

controller == <<fifo, tef, rxovif>>
thread == <<pc, status, release, batch, queued>>
history == <<bus, own, round, overflowed, dropped, delivered, mixed, used>>
vars == <<controller, thread, history>>

NoStatus == [rx |-> FALSE, tef |-> FALSE, ov |-> FALSE, rxif |-> {}, rxovif |-> FALSE,
             mode |-> "bulk"]

Init ==
  /\ fifo = [f \in RxFifos |-> None] /\ tef = <<>> /\ rxovif = FALSE
  /\ pc = "off" /\ status = NoStatus
  /\ release = {} /\ batch = <<>> /\ queued = <<>>
  /\ bus = 0 /\ own = {} /\ round = 0 /\ overflowed = {} /\ dropped = {}
  /\ delivered = <<>> /\ mixed = {}
  /\ used = [nomem |-> 0, faults |-> 0, single |-> 0]

Spend(kind, bound) ==
  /\ used[kind] < bound
  /\ used' = [used EXCEPT ![kind] = @ + 1]

-----------------------------------------------------------------------------
(* The controller.  Filter i feeds FIFO NRx - i and the first filter whose *)
(* FIFO has room takes the frame.                                          *)

Room == {f \in RxFifos : fifo[f] = None}
FilledFirst(room) == Max(room)

BusReceive ==
  /\ bus < MaxEvents
  /\ bus' = bus + 1
  /\ IF Room # {}
       THEN /\ fifo' = [fifo EXCEPT ![FilledFirst(Room)] = bus + 1]
            /\ UNCHANGED <<rxovif, overflowed>>
       ELSE /\ rxovif' = TRUE
            /\ overflowed' = overflowed \cup {bus + 1}
            /\ UNCHANGED fifo
  /\ UNCHANGED <<tef, thread, own, round, dropped, delivered, mixed, used>>

(* One of the driver's own frames is transmitted.  The transmit queue is   *)
(* woken when all FIFOs of a round have been processed.                    *)
BusSend ==
  /\ Sends
  /\ bus < MaxEvents /\ round < NTx
  /\ bus' = bus + 1 /\ own' = own \cup {bus + 1} /\ round' = round + 1
  /\ tef' = Append(tef, bus + 1)
  /\ UNCHANGED <<fifo, rxovif, thread, overflowed, dropped, delivered, mixed,
                 used>>

Filled == {f \in RxFifos : fifo[f] # None}
IntAssertedTefOnly == tef # <<>> \/ rxovif
IntAsserted == Filled # {} \/ tef # <<>> \/ rxovif

-----------------------------------------------------------------------------
(* mcp25xxfd_can_ist and mcp25xxfd_can_ist_handle_status.                  *)

IrqStart ==
  /\ pc = "off"
  /\ IntAsserted
  /\ pc' = "flags"
  /\ UNCHANGED <<status, release, batch, queued, controller, history>>

(* The registers of one SPI read are sampled one after the other: CAN_INT  *)
(* first, then CAN_RXIF and CAN_RXOVIF.                                    *)
IrqReadFlags ==
  /\ pc = "flags"
  /\ status' = [NoStatus EXCEPT !.rx = (Filled # {}), !.tef = (tef # <<>>),
                                !.ov = rxovif]
  /\ pc' = "fifos"
  /\ UNCHANGED <<release, batch, queued, controller, history>>

IrqReadFifos ==
  /\ pc = "fifos"
  /\ status' = [status EXCEPT !.rxif = Filled, !.rxovif = rxovif]
  /\ pc' = IF status.rx \/ status.tef \/ status.ov THEN "clear" ELSE "off"
  /\ UNCHANGED <<release, batch, queued, controller, history>>

(* The latched flags are cleared (none of them is in this model) and the   *)
(* objects that are left over from the last pass forgotten.                *)
QueueKept == queued
QueueCleared == <<>>

IrqClear ==
  /\ pc = "clear"
  /\ queued' = QueueCleared
  /\ release' = {} /\ batch' = <<>>
  /\ pc' = IF status.rx THEN "read" ELSE "tef"
  /\ \E mode \in ReadModes : status' = [status EXCEPT !.mode = mode]
  /\ UNCHANGED <<controller, history>>

(* A transfer fails whose result handle_status returns.                    *)
IrqFault ==
  /\ pc \in {"flags", "clear", "tef", "overflow"}
  /\ Spend("faults", MaxSpiFaults)
  /\ pc' = "off"
  /\ UNCHANGED <<status, release, batch, queued, controller, bus, own, round,
                 overflowed, dropped, delivered, mixed>>

-----------------------------------------------------------------------------
(* mcp25xxfd_can_ist_handle_rxif, which never returns an error: when a     *)
(* transfer fails the FIFOs not yet released stay for the next pass.       *)

GiveUpReading ==
  /\ used.faults < MaxSpiFaults
  /\ used' = [used EXCEPT !.faults = @ + 1,
                          !.single = IF status.mode = "single" THEN @ + 1 ELSE @]
  /\ pc' = "tef"
  /\ UNCHANGED <<bus, own, round, overflowed, dropped, delivered, mixed>>

(* read_fifos: one FIFO at a time, from the top.  An object is queued when *)
(* its header and first bytes are read; reading the rest may fail.         *)
IrqReadOne ==
  /\ pc = "read" /\ status.mode = "single"
  /\ IF status.rxif = {}
       THEN pc' = "tef" /\ UNCHANGED <<status, release, queued, history>>
       ELSE LET f == Max(status.rxif)
            IN \/ /\ queued' = Append(queued, fifo[f])
                  /\ release' = {f}
                  /\ status' = [status EXCEPT !.rxif = @ \ {f}]
                  /\ pc' = "release"
                  /\ UNCHANGED history
               \/ /\ GiveUpReading
                  /\ queued' \in {queued, Append(queued, fifo[f])}
                  /\ UNCHANGED <<status, release>>
  /\ UNCHANGED <<batch, controller>>

(* bulk_read_fifos: the highest block of adjacent FIFOs in one transfer.   *)
BlockTop == Max(status.rxif)
BlockToBottom == Min(status.rxif) .. BlockTop
Block == {f \in status.rxif : f .. BlockTop \subseteq status.rxif}
BlockReadShort == [i \in 1 .. Cardinality(Block) - 1 |-> fifo[Min(Block) + i - 1]]
BlockRead == [i \in 1 .. Cardinality(Block) |-> fifo[Min(Block) + i - 1]]

IrqReadBlock ==
  /\ pc = "read" /\ status.mode = "bulk"
  /\ IF status.rxif = {}
       THEN pc' = "tef" /\ UNCHANGED <<status, release, batch, history>>
       ELSE \/ /\ batch' = BlockRead
               /\ release' = Block
               /\ status' = [status EXCEPT !.rxif = @ \ Block]
               /\ pc' = "release"
               /\ UNCHANGED history
            \/ GiveUpReading /\ UNCHANGED <<status, release, batch>>
  /\ UNCHANGED <<queued, controller>>

(* mcp25xxfd_normal_release_fifos, lowest FIFO first.  A block is queued   *)
(* after all of it was released.                                           *)
NotReleased(f) == fifo
ReleasedAll(f) == [g \in RxFifos |-> None]
Released(f) == [fifo EXCEPT ![f] = None]

IrqRelease ==
  /\ pc = "release"
  /\ LET f == Min(release)
     IN \/ /\ fifo' = Released(f)
           /\ release' = release \ {f}
           /\ IF release = {f}
                THEN queued' = queued \o batch /\ batch' = <<>> /\ pc' = "read"
                ELSE UNCHANGED <<queued, batch, pc>>
           /\ UNCHANGED history
        \/ GiveUpReading /\ UNCHANGED <<fifo, release, queued, batch>>
  /\ UNCHANGED <<status, tef, rxovif>>

-----------------------------------------------------------------------------
(* One transmit event.                                                     *)
IrqTef ==
  /\ pc = "tef"
  /\ status.tef /\ tef # <<>>
  /\ queued' = Append(queued, Head(tef))
  /\ tef' = Tail(tef)
  /\ UNCHANGED <<pc, status, release, batch, fifo, rxovif, history>>

(* Sort by time stamp (process_queued_fifos) once enough of them are read. *)
(* A stamp is compared as a signed number; Era counts its changes from     *)
(* positive to negative.                                                   *)
Era(e) == (e + TsHalf) \div (2 * TsHalf)
SignedTs(e) == e - 2 * TsHalf * Era(e)

EventsIn(events) == {events[i] : i \in 1 .. Len(events)}
SameEra(events) == \A e, f \in EventsIn(events) : Era(e) = Era(f)

NotSorted(events) == TRUE
InTimeOrder(events) ==
  \A i, j \in 1 .. Len(events) : i < j => SignedTs(events[i]) <= SignedTs(events[j])

IrqSort ==
  /\ pc = "tef"
  /\ status.tef => tef = <<>> \/ \E i \in 1 .. Len(queued) : queued[i] \in own
  /\ \E order \in Bijection(1 .. Len(queued), 1 .. Len(queued)) :
       queued' = [i \in 1 .. Len(queued) |-> queued[order[i]]]
  /\ InTimeOrder(queued')
  /\ mixed' = IF SameEra(queued) THEN mixed ELSE mixed \cup {EventsIn(queued)}
  /\ pc' = "deliver"
  /\ UNCHANGED <<status, release, batch, controller, bus, own, round, overflowed,
                 dropped, delivered, used>>

(* A frame for which there is no socket buffer ends the delivery, and what *)
(* is behind it is dropped with it.                                        *)
IrqDeliver ==
  /\ pc = "deliver" /\ queued # <<>>
  /\ \/ /\ delivered' = Append(delivered, Head(queued))
        /\ queued' = Tail(queued)
        /\ UNCHANGED <<pc, dropped, used>>
     \/ /\ Head(queued) \notin own
        /\ Spend("nomem", MaxNoMem)
        /\ dropped' = dropped \cup EventsIn(queued)
        /\ pc' = "overflow"
        /\ UNCHANGED <<delivered, queued>>
  /\ UNCHANGED <<status, release, batch, controller, bus, own, round, overflowed,
                 mixed>>

IrqDelivered ==
  /\ pc = "deliver" /\ queued = <<>>
  /\ pc' = "overflow"
  /\ UNCHANGED <<status, release, batch, queued, controller, history>>

(* handle_rxovif, and the end of the pass: the transmit queue is woken     *)
(* when the round is processed.                                            *)
IrqEnd ==
  /\ pc = "overflow"
  /\ rxovif' = (rxovif /\ ~status.rxovif)
  /\ round' = IF round = NTx /\ tef = <<>> THEN 0 ELSE round
  /\ pc' = "flags"
  /\ UNCHANGED <<status, release, batch, queued, fifo, tef, bus, own,
                 overflowed, dropped, delivered, mixed, used>>

IrqThread ==
  \/ IrqStart \/ IrqReadFlags \/ IrqReadFifos \/ IrqClear
  \/ IrqReadOne \/ IrqReadBlock \/ IrqRelease
  \/ IrqTef \/ IrqSort \/ IrqDeliver \/ IrqDelivered \/ IrqEnd

Next == BusReceive \/ BusSend \/ IrqThread \/ IrqFault

Spec == Init /\ [][Next]_vars

(* The level-triggered interrupt and its thread do not stop.               *)
FairSpec == Spec /\ WF_vars(IrqThread)

-----------------------------------------------------------------------------
TypeOK ==
  /\ fifo \in [RxFifos -> Events \cup {None}]
  /\ tef \in Seq(Events) /\ rxovif \in BOOLEAN
  /\ pc \in {"off", "flags", "fifos", "clear", "read", "release", "tef",
             "deliver", "overflow"}
  /\ status \in [rx : BOOLEAN, tef : BOOLEAN, ov : BOOLEAN,
                 rxif : SUBSET RxFifos, rxovif : BOOLEAN,
                mode : {"bulk", "single"}]
  /\ release \subseteq RxFifos
  /\ batch \in Seq(Events) /\ queued \in Seq(Events)
  /\ bus \in 0 .. MaxEvents /\ own \subseteq Events /\ round \in 0 .. NTx
  /\ overflowed \subseteq Events /\ dropped \subseteq Events
  /\ delivered \in Seq(Events) /\ mixed \subseteq SUBSET Events
  /\ used \in [nomem : 0 .. MaxNoMem, faults : 0 .. MaxSpiFaults,
              single : 0 .. MaxSpiFaults]

Received == (1 .. bus) \ own

(* Frames are handed to the stack in the order in which they were on the   *)
(* bus, although FIFOs are filled and read by number and refilled while    *)
(* the thread reads.  A failing transfer leaves older frames behind, and   *)
(* two frames of one pass with a change of sign between them are sorted    *)
(* the wrong way.                                                          *)
SortedTogether(e, f) == \E pass \in mixed : {e, f} \subseteq pass
Earlier(e, f) == e < f \/ (Era(e) # Era(f) /\ SortedTogether(e, f))
RxInOrder ==
  used.faults = 0 =>
    \A i, j \in 1 .. Len(delivered) :
      i < j /\ {delivered[i], delivered[j]} \cap own = {}
        => Earlier(delivered[i], delivered[j])

(* No received frame is handed to the stack twice, even when FIFOs could   *)
(* not be released; but a FIFO read on its own is queued before it is      *)
(* released, and then read and delivered again.                            *)
RxAtMostOnce ==
  used.single = 0 =>
    \A i, j \in 1 .. Len(delivered) :
      delivered[i] = delivered[j] /\ delivered[i] \notin own => i = j

(* A received frame is in a FIFO, on its way through the thread, or was    *)
(* delivered, unless it found no room or no socket buffer.  A failing      *)
(* transfer loses the frames already released.                             *)
NothingLost ==
  used.faults = 0 =>
    Received \ (overflowed \cup dropped)
      \subseteq {fifo[f] : f \in RxFifos} \cup EventsIn(batch)
                  \cup EventsIn(queued) \cup EventsIn(delivered)

(* rxb has room for the objects of one pass: no more than one for each     *)
(* receive FIFO and one for each transmit FIFO.                            *)
QueueFits == Len(queued) + Len(batch) <= NRx + NTx

(* A received frame that found room reaches the stack.                     *)
RxDelivered ==
  \A e \in Events :
    e \in Received \ overflowed
      ~> e \in EventsIn(delivered) \cup dropped \/ used.faults > 0
=============================================================================
