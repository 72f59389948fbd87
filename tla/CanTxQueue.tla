----------------------------- MODULE CanTxQueue -----------------------------
(***************************************************************************)
(* What every CAN network driver of this repository promises the network   *)
(* stack about transmission, stated without any register, bit mask or      *)
(* interrupt: frames are accepted one by one, at most Capacity of them     *)
(* wait at any time, and they reach the wire in the order they were        *)
(* accepted.  The controller may give a frame up (one-shot mode) and       *)
(* closing the interface drops what still waits.                           *)
(*                                                                         *)
(* A frame is named by its position in the order in which the stack hands  *)
(* frames over: 1, 2, 3, ...                                               *)
(***************************************************************************)
EXTENDS Naturals, Sequences

CONSTANTS
  Capacity,     (* how many accepted frames may wait for the bus, at least 1*)
  MayAbort      (* TRUE when the controller may give up a frame            *)

VARIABLES
  accepted,     (* the number of frames accepted so far                    *)
  waiting,      (* accepted frames that have not been on the wire yet      *)
  wire          (* the frames that were transmitted, in wire order         *)

vars == <<accepted, waiting, wire>>

TypeOK ==
  /\ accepted \in Nat
  /\ waiting \in Seq(1 .. accepted)
  /\ wire \in Seq(1 .. accepted)

Init ==
  /\ accepted = 0
  /\ waiting = <<>>
  /\ wire = <<>>

Accept ==
  /\ Len(waiting) < Capacity
  /\ accepted' = accepted + 1
  /\ waiting' = Append(waiting, accepted + 1)
  /\ UNCHANGED wire

Transmit ==
  /\ waiting # <<>>
  /\ wire' = Append(wire, Head(waiting))
  /\ waiting' = Tail(waiting)
  /\ UNCHANGED accepted

Abandon ==
  /\ MayAbort
  /\ waiting # <<>>
  /\ waiting' = Tail(waiting)
  /\ UNCHANGED <<accepted, wire>>

Close ==
  /\ waiting # <<>>
  /\ waiting' = <<>>
  /\ UNCHANGED <<accepted, wire>>

Next == Accept \/ Transmit \/ Abandon \/ Close

Spec == Init /\ [][Next]_vars

-----------------------------------------------------------------------------
(* No frame overtakes another, and none is sent twice.                     *)
WireInOrder ==
  \A i, j \in 1 .. Len(wire) : i < j => wire[i] < wire[j]

(* A frame that waits was accepted after everything on the wire.           *)
WaitingAfterWire ==
  \A i \in 1 .. Len(wire), j \in 1 .. Len(waiting) : wire[i] < waiting[j]
=============================================================================
