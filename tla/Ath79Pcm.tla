------------------------------ MODULE Ath79Pcm ------------------------------
(***************************************************************************)
(* The ALSA platform driver of ath-i2s-qca, one stream of it: the ring     *)
(* covers the sound buffer, one descriptor for a period and a shorter one  *)
(* for what is left, and never runs dry as long as the interrupt handler   *)
(* gives finished descriptors back to the engine.  From where OWN changes  *)
(* the handler finds the position ALSA is told.                            *)
(***************************************************************************)
EXTENDS AthMboxDma

CONSTANTS
  PeriodBytes,  (* snd_pcm_lib_period_bytes, in any unit                   *)
  LastBytes,    (* size of the last descriptor                             *)
  SlipBytes     (* a run of the handler lasts less than this               *)

ASSUME Ath79PcmAssumption ==
  /\ PeriodBytes \in Nat \ {0}
  /\ LastBytes \in 1 .. PeriodBytes
  /\ SlipBytes \in 0 .. PeriodBytes

NULL == NumDesc
Before(d) == IF d = 0 THEN NumDesc - 1 ELSE d - 1
Size(d) == IF d = NumDesc - 1 THEN LastBytes ELSE PeriodBytes

VARIABLES
  state,       (* "closed", "open", "setup", "prepared" or "running"       *)
  last_played, (* the descriptor ath79_pcm_pointer reports, or NULL        *)
  elapsed,     (* elapsed_size                                             *)
  walk,        (* the handler's descriptor in a walk of the list           *)
  hwptr,       (* ALSA: runtime->status->hw_ptr, in descriptors            *)
  lag,         (* history: descriptors finished and not in hwptr           *)
  slipped      (* history: one was finished while the handler ran          *)

pcmVars == <<state, last_played, elapsed, walk, hwptr, lag, slipped>>
alsa == <<hwptr, lag>>

PcmInit ==
  /\ state = "closed" /\ last_played = NULL /\ elapsed = 0 /\ walk = 0
  /\ hwptr = 0 /\ lag = 0 /\ slipped = FALSE

(* The delay in ath79_mbox_dma_stop outlasts the last completion and its   *)
(* interrupt, so between calls none is pending.                            *)
Quiet == irq = "idle" /\ ~done

PcmOpen ==
  /\ state = "closed" /\ Quiet
  /\ state' = "open" /\ last_played' = NULL
  /\ UNCHANGED <<dmaVars, elapsed, walk, alsa, slipped>>

HwParams ==
  /\ state = "open" /\ Quiet
  /\ state' = "setup" /\ own' = Given /\ elapsed' = 0
  /\ UNCHANGED <<driver, mode, engine, pos, done, irq, last_played, walk, alsa,
                 slipped>>

StaysAtLastPlayed == last_played
Forgotten == NULL

Prepare ==
  /\ state \in {"setup", "prepared"} /\ Quiet
  /\ state' = "prepared"
  /\ own' = Given /\ last_played' = Forgotten
  /\ hwptr' = 0 /\ lag' = 0
  /\ UNCHANGED <<driver, mode, engine, pos, done, irq, elapsed, walk, slipped>>

TriggerStart ==
  /\ state = "prepared" /\ Quiet
  /\ state' = "running" /\ StartAt(0)
  /\ UNCHANGED <<driver, mode, own, done, irq, last_played, elapsed, walk, alsa,
                 slipped>>

(* The descriptor the engine is at may still be finished.                  *)
TriggerStop ==
  /\ state = "running" /\ irq = "idle"
  /\ state' = "setup" /\ engine' = "stopped"
  /\ Complete \/ UNCHANGED <<own, pos, done>>
  /\ UNCHANGED <<driver, mode, irq, last_played, elapsed, walk, alsa, slipped>>

HwFree ==
  /\ state \in {"setup", "prepared"} /\ Quiet
  /\ state' = "open" /\ own' = Returned
  /\ UNCHANGED <<driver, mode, engine, pos, done, irq, last_played, elapsed,
                 walk, alsa, slipped>>

PcmClose ==
  /\ state = "open" /\ Quiet
  /\ state' = "closed"
  /\ UNCHANGED <<dmaVars, last_played, elapsed, walk, alsa, slipped>>

-----------------------------------------------------------------------------
(* ALSA asks for the position and takes it for an advance by less than the *)
(* buffer.                                                                 *)

Pointer == IF last_played = NULL THEN 0 ELSE last_played

Advance ==
  /\ hwptr' = Pointer
  /\ lag' = lag - ((Pointer - hwptr) % NumDesc)

Poll ==
  /\ state = "running" /\ Quiet
  /\ Advance
  /\ UNCHANGED <<dmaVars, state, last_played, elapsed, walk, slipped>>

-----------------------------------------------------------------------------
(* ath79_pcm_interrupt.  The list is walked while the engine runs.         *)

IrqRead ==
  /\ done /\ irq = "idle"
  /\ irq' = "last" /\ walk' = 0 /\ slipped' = FALSE
  /\ UNCHANGED <<driver, mode, own, engine, pos, done, state, last_played,
                 elapsed, alsa>>

AtEngine == own[walk] = 1 /\ own[Before(walk)] = 0

IrqLastPlayed ==
  /\ irq = "last"
  /\ \/ /\ AtEngine
        /\ last_played' = walk /\ irq' = "own" /\ walk' = 0
     \/ /\ ~AtEngine /\ walk = NumDesc - 1
        /\ last_played' = NULL /\ irq' = "own" /\ walk' = 0
     \/ /\ ~AtEngine /\ walk < NumDesc - 1
        /\ walk' = walk + 1
        /\ UNCHANGED <<last_played, irq>>
  /\ UNCHANGED <<driver, mode, own, engine, pos, done, state, elapsed, alsa,
                 slipped>>

(* Only for playback is the size that was played added up.                 *)
Played == IF mode = "playback" /\ own[walk] = 0 THEN Size(walk) ELSE 0

IrqSetOwn ==
  /\ irq = "own"
  /\ own' = [own EXCEPT ![walk] = 1]
  /\ elapsed' = elapsed + Played
  /\ IF walk = NumDesc - 1 THEN irq' = "ack" /\ walk' = 0
                           ELSE walk' = walk + 1 /\ UNCHANGED irq
  /\ UNCHANGED <<driver, mode, engine, pos, done, state, last_played, alsa,
                 slipped>>

IrqAck ==
  /\ irq = "ack"
  /\ done' = FALSE /\ irq' = "elapsed"
  /\ UNCHANGED <<driver, mode, own, engine, pos, state, last_played, elapsed,
                 walk, alsa, slipped>>

PeriodElapsed ==
  IF mode = "playback" THEN elapsed >= PeriodBytes ELSE last_played # NULL

Remainder == IF mode = "playback" THEN elapsed % PeriodBytes ELSE elapsed

(* snd_pcm_period_elapsed does nothing for a stream that was stopped, and  *)
(* may stop it, as TriggerStop does.                                       *)
IrqElapsed ==
  /\ irq = "elapsed"
  /\ irq' = "idle" /\ elapsed' = Remainder
  /\ IF PeriodElapsed /\ state = "running"
     THEN /\ Advance
          /\ \/ /\ state' = "setup" /\ engine' = "stopped"
                /\ Complete \/ UNCHANGED <<own, pos, done>>
             \/ UNCHANGED <<state, engine, own, pos, done>>
     ELSE UNCHANGED <<alsa, state, engine, own, pos, done>>
  /\ UNCHANGED <<driver, mode, last_played, walk, slipped>>

(* A second one is finished under one run of the handler only if it is     *)
(* short.                                                                  *)
PcmComplete ==
  /\ irq # "idle" /\ slipped => Size(pos) < SlipBytes
  /\ Complete
  /\ slipped' = (irq # "idle")
  /\ lag' = Min({lag + 1, 2 * NumDesc})
  /\ UNCHANGED <<driver, mode, engine, irq, state, last_played, elapsed, walk,
                 hwptr>>

PcmIrq == IrqRead \/ IrqLastPlayed \/ IrqSetOwn \/ IrqAck \/ IrqElapsed

PcmNext ==
  \/ PcmOpen \/ HwParams \/ Prepare \/ TriggerStart \/ TriggerStop
  \/ HwFree \/ PcmClose \/ Poll \/ PcmIrq \/ PcmComplete
  \/ (Stall /\ UNCHANGED pcmVars)

PcmTypeOK ==
  /\ state \in {"closed", "open", "setup", "prepared", "running"}
  /\ last_played \in Descriptors \cup {NULL}
  /\ elapsed \in Nat /\ walk \in Descriptors
  /\ hwptr \in Descriptors /\ lag \in Int
  /\ slipped \in BOOLEAN
=============================================================================
