------------------------------ MODULE AthAudio ------------------------------
(***************************************************************************)
(* The two drivers of the audio DMA engine, side by side: an image has the *)
(* character device or the ALSA driver.                                    *)
(***************************************************************************)
EXTENDS AthI2sRing, Ath79Pcm

vars == <<dmaVars, i2sVars, pcmVars>>

Init == DmaInit /\ I2sInit /\ PcmInit

Next ==
  \/ driver = "ath_i2s" /\ I2sNext /\ UNCHANGED pcmVars
  \/ driver = "ath79_pcm" /\ PcmNext /\ UNCHANGED i2sVars

Spec == Init /\ [][Next]_vars

(* The engine runs, interrupts are served, and a caller that is not asleep *)
(* runs.                                                                   *)
Fairness ==
  /\ WF_vars(driver = "ath_i2s" /\ (I2sCall \/ I2sCloseDone) /\ UNCHANGED pcmVars)
  /\ WF_vars(driver = "ath_i2s" /\ I2sIrq /\ UNCHANGED pcmVars)
  /\ WF_vars(driver = "ath_i2s" /\ I2sComplete /\ UNCHANGED pcmVars)
  /\ WF_vars(driver = "ath79_pcm" /\ PcmIrq /\ UNCHANGED i2sVars)
  /\ WF_vars(driver = "ath79_pcm" /\ PcmComplete /\ UNCHANGED i2sVars)
FairSpec == Spec /\ Fairness
-----------------------------------------------------------------------------
(* Every variable has its type: whatever is called when, no descriptor     *)
(* outside the ring is filled, reported or given back.                     *)
TypeOK == DmaTypeOK /\ I2sTypeOK /\ PcmTypeOK

(* Every buffer written is played and every buffer recorded is read, once  *)
(* and in order, while the caller, the engine and the handler each go      *)
(* their own way through the ring; close returns only when everything was  *)
(* played, unless the stream is paused.  All of it as long as copying from *)
(* and to the caller does not fail.                                        *)
StreamInOrder ==
  [][faulted \/ phase = "closed" \/
     /\ taken' \in {taken, Succ(taken)}
     /\ (phase = "closing" /\ phase' = "closed" /\ mode = "playback")
          => taken = given]_vars

(* ALSA is never told of a descriptor the engine has not finished: not     *)
(* when a completion slips in between the walks of the list, nor when the  *)
(* stream is stopped and prepared again.                                   *)
PointerNotAhead == lag >= 0

(* A caller that waits for a buffer gets one, and close comes to an end,   *)
(* unless the stream is paused, copying failed or the engine was never     *)
(* started; and while a stream of the ALSA driver runs finished            *)
(* descriptors are reported, or the handler finds none left to play.       *)
StreamGoesOn ==
  /\ call.pc = "wait" ~> call.pc # "wait" \/ paused \/ faulted
  /\ phase = "closing" ~> phase = "closed" \/ opened < 2 \/ faulted
  /\ lag > 0 ~> \/ irq = "elapsed" /\ (PeriodElapsed \/ last_played = NULL)
                \/ state # "running" \/ engine = "stalled"
=============================================================================
