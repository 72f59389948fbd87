----------------------------- MODULE AthI2sRing -----------------------------
(***************************************************************************)
(* The character device of ath-i2s, one direction of it: read or write,    *)
(* pause and resume, open and close, and the interrupt handler that wakes  *)
(* a caller.  A caller takes the buffers that are not the engine's in the  *)
(* order of the ring, fills or empties them and gives them to the engine.  *)
(* The kernel is not preemptive: a call is interleaved with another only   *)
(* where it sleeps.                                                        *)
(***************************************************************************)
EXTENDS AthMboxDma

CONSTANTS
  MaxCount,  (* bound: buffers of one read or write                        *)
  Modulus    (* bound: buffers are numbered modulo this                    *)

ASSUME AthI2sRingAssumption ==
  MaxCount \in Nat \ {0} /\ Modulus \in Nat /\ Modulus > NumDesc

Numbers == 0 .. Modulus - 1
Succ(n) == IF n = Modulus - 1 THEN 0 ELSE n + 1

VARIABLES
  phase,    (* "closed", "open" or "closing"                               *)
  opened,   (* popened or ropened: 2 once the first call has begun         *)
  paused,   (* ppause or rpause                                            *)
  tail,     (* db_tail: where the next call goes on                        *)
  call,     (* ath_i2s_wr or ath_i2s_read: where it is, how many buffers   *)
            (* are left, at which descriptor, whether it starts the engine *)
            (* and whether it sleeps                                       *)
  buf,      (* the number of what each buffer holds                        *)
  given,    (* history: the number last put into the ring                  *)
  taken,    (* history: the number last taken out of the ring              *)
  faulted   (* history: copying from or to the caller failed               *)

i2sVars == <<phase, opened, paused, tail, call, buf, given, taken, faulted>>
stream == <<phase, opened, paused>>

NoCall == [pc |-> "idle", left |-> 0, at |-> 0, start |-> FALSE, asleep |-> FALSE]

I2sInit ==
  /\ phase = "closed" /\ opened = 0 /\ paused = FALSE /\ tail = 0
  /\ call = NoCall /\ buf = Returned /\ given = 0 /\ taken = 0
  /\ faulted = FALSE

I2sOpen ==
  /\ phase = "closed" /\ irq = "idle"
  /\ phase' = "open" /\ opened' = 1 /\ paused' = FALSE /\ tail' = 0
  /\ own' = IF mode = "capture" THEN Given ELSE Returned
  /\ taken' = given /\ faulted' = FALSE
  /\ UNCHANGED <<driver, mode, engine, pos, done, irq, call, buf, given>>

-----------------------------------------------------------------------------
(* ath_i2s_write and ath_i2s_read.  The first call does not wait and starts*)
(* the engine.                                                             *)

Begin(n) ==
  /\ phase = "open" /\ call.pc = "idle" /\ irq = "idle"
  /\ opened' = 2
  /\ call' = [pc |-> IF opened < 2 THEN "copy" ELSE "wait", left |-> n,
              at |-> tail, start |-> opened < 2, asleep |-> FALSE]
  /\ UNCHANGED <<dmaVars, phase, paused, tail, buf, given, taken, faulted>>

Wait ==
  /\ call.pc = "wait" /\ ~call.asleep /\ irq = "idle"
  /\ call' = IF own[call.at] = 1 THEN [call EXCEPT !.asleep = TRUE]
                                 ELSE [call EXCEPT !.pc = "copy"]
  /\ UNCHANGED <<dmaVars, stream, tail, buf, given, taken, faulted>>

(* write gives up on a signal, read goes on.                               *)
Signal ==
  /\ call.asleep /\ irq = "idle"
  /\ call' = IF mode = "playback" THEN NoCall
             ELSE [call EXCEPT !.pc = "copy", !.asleep = FALSE]
  /\ UNCHANGED <<dmaVars, stream, tail, buf, given, taken, faulted>>

TestsOnlyCount == call.left > 0
Available == call.left > 0 /\ own[call.at] = 0

Copy ==
  /\ call.pc = "copy" /\ irq = "idle"
  /\ Available
  /\ IF mode = "playback"
     THEN /\ given' = Succ(given) /\ buf' = [buf EXCEPT ![call.at] = Succ(given)]
          /\ UNCHANGED taken
     ELSE taken' = buf[call.at] /\ UNCHANGED <<given, buf>>
  /\ own' = [own EXCEPT ![call.at] = 1]
  /\ call' = [call EXCEPT !.left = @ - 1, !.at = After(@)]
  /\ UNCHANGED <<driver, mode, engine, pos, done, irq, stream, tail, faulted>>

(* The tail is not saved and the engine not told.  read returns; write     *)
(* takes the bytes not copied, up to a buffer of them, for bytes written   *)
(* and goes on from the tail with the rest, what it had just put into the  *)
(* ring included.                                                          *)
GoOnWith(n) ==
  IF n = 0 THEN NoCall ELSE [NoCall EXCEPT !.pc = "wait", !.left = n, !.at = tail]

CopyFails ==
  /\ call.pc = "copy" /\ irq = "idle"
  /\ Available
  /\ call' \in
       IF mode = "playback" THEN {GoOnWith(n) : n \in call.left - 1 .. MaxCount}
       ELSE {NoCall}
  /\ faulted' = TRUE
  /\ UNCHANGED <<dmaVars, stream, tail, buf, given, taken>>

(* write is repeated until everything is in the ring, read returns.        *)
AfterCall ==
  IF mode = "playback" /\ call.left > 0
  THEN [call EXCEPT !.pc = "wait", !.start = FALSE]
  ELSE NoCall

OnlyStarts == IF call.start THEN StartAt(tail) ELSE UNCHANGED <<engine, pos>>
TellEngine ==
  IF call.start THEN StartAt(tail)
  ELSE engine' = (IF paused THEN engine ELSE Resumed) /\ UNCHANGED pos

Finish ==
  /\ call.pc = "copy" /\ irq = "idle"
  /\ ~Available
  /\ tail' = call.at
  /\ TellEngine
  /\ call' = AfterCall
  /\ UNCHANGED <<driver, mode, own, done, irq, stream, buf, given, taken, faulted>>

-----------------------------------------------------------------------------
(* I2S_PAUSE and I2S_RESUME, also while a call sleeps.                     *)

MayCall == phase = "open" /\ (call.pc = "idle" \/ call.asleep) /\ irq = "idle"

Pause ==
  /\ MayCall /\ ~paused
  /\ engine' = Paused /\ paused' = TRUE
  /\ UNCHANGED <<driver, mode, own, pos, done, irq, phase, opened, tail, call,
                 buf, given, taken, faulted>>

Resume ==
  /\ MayCall /\ paused
  /\ engine' = Resumed /\ paused' = FALSE
  /\ UNCHANGED <<driver, mode, own, pos, done, irq, phase, opened, tail, call,
                 buf, given, taken, faulted>>

(* What a closed stream leaves: the ring is freed, and the engine makes no *)
(* step in it that the model knows of.                                     *)
Released ==
  /\ phase' = "closed" /\ opened' = 0 /\ paused' = FALSE
  /\ own' = Returned /\ engine' = "stopped"

(* A paused stream is dropped; any other one is waited for, a second at a  *)
(* time, until no buffer is the engine's.                                  *)
I2sClose ==
  /\ phase = "open" /\ call.pc = "idle" /\ irq = "idle"
  /\ IF paused THEN Released
     ELSE phase' = "closing" /\ UNCHANGED <<opened, paused, own, engine>>
  /\ UNCHANGED <<driver, mode, pos, done, irq, tail, call, buf, given, taken,
                 faulted>>

AllReturned == \A d \in Descriptors : own[d] = 0

I2sCloseDone ==
  /\ phase = "closing" /\ irq = "idle"
  /\ AllReturned
  /\ Released
  /\ UNCHANGED <<driver, mode, pos, done, irq, tail, call, buf, given, taken,
                 faulted>>

-----------------------------------------------------------------------------
(* ath_i2s_intr and the engine.                                            *)

I2sIrqWake ==
  /\ done /\ irq = "idle"
  /\ call' = [call EXCEPT !.asleep = FALSE]
  /\ irq' = "ack"
  /\ UNCHANGED <<driver, mode, own, engine, pos, done, stream, tail, buf, given,
                 taken, faulted>>

(* The acknowledgement also clears a completion since the status was read. *)
I2sIrqAck ==
  /\ irq = "ack"
  /\ done' = FALSE /\ irq' = "idle"
  /\ UNCHANGED <<driver, mode, own, engine, pos, i2sVars>>

I2sComplete ==
  /\ Complete
  /\ IF mode = "playback" THEN taken' = buf[pos] /\ UNCHANGED <<given, buf>>
     ELSE /\ given' = Succ(given) /\ buf' = [buf EXCEPT ![pos] = Succ(given)]
          /\ UNCHANGED taken
  /\ UNCHANGED <<driver, mode, engine, irq, stream, tail, call, faulted>>

I2sCall == Wait \/ Copy \/ Finish
I2sIrq == I2sIrqWake \/ I2sIrqAck

I2sNext ==
  \/ I2sOpen \/ (\E n \in 1 .. MaxCount : Begin(n)) \/ I2sCall \/ Signal
  \/ CopyFails \/ Pause \/ Resume \/ I2sClose \/ I2sCloseDone \/ I2sIrq
  \/ I2sComplete \/ (Stall /\ UNCHANGED i2sVars)

I2sTypeOK ==
  /\ phase \in {"closed", "open", "closing"} /\ opened \in {0, 1, 2}
  /\ paused \in BOOLEAN /\ tail \in Descriptors
  /\ call \in [pc : {"idle", "wait", "copy"}, left : 0 .. MaxCount,
               at : Descriptors, start : BOOLEAN, asleep : BOOLEAN]
  /\ buf \in [Descriptors -> Numbers] /\ given \in Numbers /\ taken \in Numbers
  /\ faulted \in BOOLEAN
=============================================================================
