----------------------------- MODULE AthMboxDma -----------------------------
(***************************************************************************)
(* One channel of the MBOX DMA engine of the AR934x, as its two drivers    *)
(* use it: a ring of descriptors whose OWN bit says whose the buffer is,   *)
(* the control and status registers, and the one CPU, on which the         *)
(* interrupt handler is never interleaved with a system call.  The engine  *)
(* runs beside both.                                                       *)
(***************************************************************************)
EXTENDS Integers, FiniteSetsExt

CONSTANT NumDesc  (* descriptors of the ring                               *)

ASSUME AthMboxDmaAssumption == NumDesc \in Nat /\ NumDesc >= 2

Descriptors == 0 .. NumDesc - 1

VARIABLES
  driver,  (* "ath_i2s" or "ath79_pcm": the module that is loaded          *)
  mode,    (* "playback" or "capture": the stream that is looked at        *)
  own,     (* OWN of each descriptor: 1 while the buffer is the engine's   *)
  engine,  (* "stopped", "running", "stalled" at a buffer not its own,     *)
           (* "paused"                                                     *)
  pos,     (* the descriptor the engine is at                              *)
  done,    (* DMA_COMPLETE of this channel in MBOX_INT_STATUS              *)
  irq      (* where the interrupt handler is                               *)

dmaVars == <<driver, mode, own, engine, pos, done, irq>>

Given == [d \in Descriptors |-> 1]
Returned == [d \in Descriptors |-> 0]

DmaInit ==
  /\ driver \in {"ath_i2s", "ath79_pcm"} /\ mode \in {"playback", "capture"}
  /\ own = Returned /\ engine = "stopped" /\ pos = 0
  /\ done = FALSE /\ irq = "idle"

(* NextPtr: the last descriptor points to the first.                       *)
PastTheEnd(d) == d + 1
After(d) == IF d = NumDesc - 1 THEN 0 ELSE d + 1

(* The engine is through with a buffer of its own.                         *)
Complete ==
  /\ engine = "running" /\ own[pos] = 1
  /\ own' = [own EXCEPT ![pos] = 0]
  /\ pos' = After(pos)
  /\ done' = TRUE

(* It stays at a buffer that is not its own until it is told to go on.     *)
Stall ==
  /\ engine = "running" /\ own[pos] = 0
  /\ engine' = "stalled"
  /\ UNCHANGED <<driver, mode, own, pos, done, irq>>

(* Values written to the control register: START reads the descriptor base.*)
StartAt(d) == engine' = "running" /\ pos' = d
Resumed == IF engine \in {"stalled", "paused"} THEN "running" ELSE engine
Paused == IF engine = "stopped" THEN "stopped" ELSE "paused"

DmaTypeOK ==
  /\ driver \in {"ath_i2s", "ath79_pcm"} /\ mode \in {"playback", "capture"}
  /\ own \in [Descriptors -> {0, 1}] /\ pos \in Descriptors
  /\ engine \in {"stopped", "running", "stalled", "paused"}
  /\ done \in BOOLEAN
  /\ irq \in {"idle", "ack", "last", "own", "elapsed"}
=============================================================================
