------------------------ MODULE Mcp25xxfdClock_proofs ------------------------
(***************************************************************************)
(* Proofs about Mcp25xxfdClock, for any number of failing transfers and    *)
(* any bound on the enable count: types, paired supplies, the users named  *)
(* by the mask, and that the driver's record of the oscillator register    *)
(* agrees with the controller.                                             *)
(***************************************************************************)
EXTENDS Mcp25xxfdClock, TLAPS

(* What is known of the stages: the interface exists only on a bound       *)
(* device, and a suspend finds it down or up and remembers which.          *)
Stages ==
  /\ device # "bound" => link = "down" /\ ~suspended
  /\ suspended => link \in {"down", "up"} /\ afterSuspend = (link = "up")
  /\ device = "none" => requested = {}
  /\ leaked <= faults

Holders ==
  /\ users \ {"CAN"} = requested
  /\ device = "bound" /\ "CAN" \in users => link # "down"
  /\ device \in {"probing", "probed"} => "CAN" \in users
  /\ link \in {"setup", "poll", "modes"} => "CAN" \in users

(* A GPIO line that is let go during a set-up is noted; two halves of a    *)
(* stop_clock otherwise have no set-up between them.                       *)
Racing ==
  /\ freeing /\ InSetup => raced
  /\ freeing => device # "none"

(* The record of OSCDIS agrees with the controller once the controller was *)
(* found, except between the two halves of a stop_clock, and between       *)
(* writing OSC and reading it back.                                        *)
Agrees ==
  IF freeing THEN oscdis
  ELSE IF link = "poll" THEN hwMode # "sleep" ELSE CheckClock
Quiet == faults = 0 /\ ~resumed /\ ~raced
Recorded ==
  Quiet => /\ link # "clean"
           /\ device \in {"probed", "bound"} => Agrees

Inv == TypeOK /\ Stages /\ SuppliesPaired /\ Holders /\ Racing /\ Recorded

-----------------------------------------------------------------------------
LEMMA Initially == Init => Inv
<1> SUFFICES ASSUME Init PROVE Inv
  OBVIOUS
<1>1. /\ 0 \in -MaxClk .. MaxClk /\ 0 \in 0 .. 1 + MaxSpiFaults /\ 0 \in 0 .. 1
      /\ 0 \in 0 .. MaxSpiFaults /\ 0 = 0 + 0 /\ 0 <= 0
  BY Mcp25xxfdClockAssumption
<1>2. TypeOK
  BY <1>1 DEF Init, TypeOK, Users, Modes
<1>3. Stages /\ SuppliesPaired /\ Holders
  BY <1>1 DEF Init, Stages, SuppliesPaired, Holders
<1>4. Recorded
  BY DEF Init, Recorded
<1>5. Racing
  BY DEF Init, Racing
<1> QED BY <1>2, <1>3, <1>4, <1>5 DEF Inv

ClockType ==
  /\ users \subseteq Users /\ mode \in Modes /\ oscdis \in BOOLEAN
  /\ clk \in -MaxClk .. MaxClk /\ hwMode \in Modes /\ faults \in 0 .. MaxSpiFaults

(* start_clock and stop_clock keep the types and name the user, and they   *)
(* keep the record right unless a transfer fails.                          *)
LEMMA FaultCounts ==
  ASSUME ClockType, Fault
  PROVE  faults' \in 1 .. MaxSpiFaults /\ faults' = faults + 1
  BY Mcp25xxfdClockAssumption DEF ClockType, Fault

LEMMA StartClockKeeps ==
  ASSUME ClockType, NEW u \in Users, NEW ok \in BOOLEAN, StartClock(u, ok)
  PROVE  /\ ClockType' /\ users' = users \cup {u} /\ faults' >= faults
         /\ faults' = 0 /\ CheckClock => ok /\ CheckClock'
<1>1. CASE ~FirstUser(u)
  BY <1>1 DEF ClockType, StartClock, CheckClock
<1>2. CASE FirstUser(u) /\ ~ok /\ ((~CheckClock /\ UNCHANGED faults) \/ Fault)
           /\ UNCHANGED <<mode, oscdis, clk, hwMode>>
  <2>1. users' = users \cup {u}
    BY DEF StartClock
  <2>2. CASE ~CheckClock /\ UNCHANGED faults
    BY <1>2, <2>1, <2>2 DEF ClockType
  <2>3. CASE Fault
    BY <1>2, <2>1, <2>3, FaultCounts DEF ClockType
  <2> QED BY <1>2, <2>2, <2>3
<1>3. CASE FirstUser(u) /\ CheckClock /\ clk < MaxClk /\ clk' = clk + 1
  <2>1. users' = users \cup {u} /\ clk' \in -MaxClk .. MaxClk
    BY <1>3, Mcp25xxfdClockAssumption DEF StartClock, ClockType
  <2>2. CASE mode = "sleep" /\ Wake(ok)
    <3>1. CASE ok
      <4>1. /\ oscdis' = FALSE /\ hwMode' = "config" /\ mode' = "config" /\ faults' = faults
            /\ users' \subseteq Users
        BY <2>1, <2>2, <3>1 DEF Wake, ClockType
      <4>2. CheckClock'
        BY <4>1 DEF CheckClock
      <4>3. oscdis' \in BOOLEAN /\ hwMode' \in Modes /\ mode' \in Modes
        BY <4>1 DEF Modes
      <4>4. ClockType'
        BY <2>1, <4>1, <4>3 DEF ClockType
      <4>5. faults' >= faults
        BY <4>1 DEF ClockType
      <4> QED BY <2>1, <3>1, <4>2, <4>4, <4>5
    <3>2. CASE ~ok
      <4>1. /\ oscdis' = FALSE /\ hwMode' \in {hwMode, "config"} /\ mode' = mode /\ Fault
            /\ users' \subseteq Users
        BY <2>1, <2>2, <3>2 DEF Wake, ClockType
      <4>2. faults' \in 1 .. MaxSpiFaults /\ faults' = faults + 1
        BY <4>1, FaultCounts
      <4>3. oscdis' \in BOOLEAN /\ hwMode' \in Modes /\ mode' \in Modes
        BY <4>1 DEF Modes, ClockType
      <4>4. ClockType'
        BY <2>1, <4>1, <4>2, <4>3 DEF ClockType
      <4>5. faults' >= faults /\ faults' # 0
        BY <4>2 DEF ClockType
      <4> QED BY <2>1, <4>4, <4>5
    <3> QED BY <3>1, <3>2
  <2>3. CASE ok /\ UNCHANGED <<mode, oscdis, hwMode, faults>>
    BY <2>1, <2>3 DEF ClockType, CheckClock
  <2>4. CASE ~ok /\ UNCHANGED clk
    BY <1>3, <2>4 DEF ClockType
  <2> QED BY <1>3, <2>1, <2>2, <2>3, <2>4 DEF StartClock, ClockType
<1> QED BY <1>1, <1>2, <1>3 DEF StartClock

LEMMA StopClockKeeps ==
  ASSUME ClockType, NEW u \in Users, StopClock(u)
  PROVE  /\ ClockType' /\ users' = users \ {u} /\ faults' >= faults
         /\ faults' = 0 /\ CheckClock => CheckClock'
<1>1. CASE users' = {}
  BY <1>1 DEF ClockType, StopClock, CheckClock
<1>2. CASE users' # {} /\ hwMode' = "sleep" /\ UNCHANGED faults
  <2>1. clk' \in -MaxClk .. MaxClk
    BY <1>2, Mcp25xxfdClockAssumption DEF StopClock, ClockType
  <2>2. /\ oscdis' = TRUE /\ hwMode' = "sleep" /\ mode' = "sleep" /\ faults' = faults
        /\ users' = users \ {u}
    BY <1>2 DEF StopClock, OscRecorded
  <2>3. CheckClock'
    BY <2>2 DEF CheckClock
  <2>4. oscdis' \in BOOLEAN /\ hwMode' \in Modes /\ mode' \in Modes /\ users' \subseteq Users
    BY <2>2 DEF Modes, ClockType
  <2>5. ClockType' /\ faults' >= faults
    BY <2>1, <2>2, <2>4 DEF ClockType
  <2> QED BY <2>2, <2>3, <2>5
<1>3. CASE users' # {} /\ Fault /\ UNCHANGED hwMode
  <2>1. clk' \in -MaxClk .. MaxClk
    BY <1>3, Mcp25xxfdClockAssumption DEF StopClock, ClockType
  <2>2. /\ oscdis' = TRUE /\ hwMode' = hwMode /\ mode' = "sleep" /\ users' = users \ {u}
    BY <1>3 DEF StopClock, OscRecorded
  <2>3. faults' \in 1 .. MaxSpiFaults /\ faults' = faults + 1
    BY <1>3, FaultCounts
  <2>4. oscdis' \in BOOLEAN /\ hwMode' \in Modes /\ mode' \in Modes /\ users' \subseteq Users
    BY <2>2 DEF Modes, ClockType
  <2>5. ClockType' /\ faults' >= faults /\ faults' # 0
    BY <2>1, <2>3, <2>4 DEF ClockType
  <2> QED BY <2>2, <2>5
<1> QED BY <1>1, <1>2, <1>3 DEF StopClock

(* Neither runs while a GPIO line holds the lock, and start_clock leaves   *)
(* the controller alone when the interface has started the clock.          *)
LEMMA LockHeld ==
  ASSUME NEW u, NEW ok, StartClock(u, ok) \/ StopClock(u)
  PROVE  ~freeing
  BY DEF StartClock, StopClock

LEMMA LaterUser ==
  ASSUME NEW u, NEW ok, StartClock(u, ok), "CAN" \in users, u # "CAN"
  PROVE  UNCHANGED <<oscdis, hwMode>>
  BY DEF StartClock, FirstUser

-----------------------------------------------------------------------------
(* The steps.  Each one is looked at for the types, the stages with the    *)
(* supplies, the users, and the record.                                    *)
Rest ==
  /\ device \in {"none", "probing", "probed", "bound"}
  /\ link \in {"down", "waking", "setup", "poll", "modes", "clean", "up"}
  /\ requested \subseteq Gpios /\ forceQuit \in BOOLEAN
  /\ suspended \in BOOLEAN /\ afterSuspend \in BOOLEAN /\ resumed \in BOOLEAN
  /\ freeing \in BOOLEAN /\ raced \in BOOLEAN

Counts ==
  /\ power \in 0 .. 1 + MaxSpiFaults /\ transceiver \in 0 .. 1
  /\ leaked \in 0 .. MaxSpiFaults

LEMMA TypeParts == TypeOK <=> Rest /\ ClockType /\ Counts
  BY DEF TypeOK, Rest, ClockType, Counts

(* The supplies follow the stages, so their counts are bounded.            *)
LEMMA CountsBounded ==
  ASSUME Rest, ClockType, SuppliesPaired, leaked \in Nat, leaked <= faults
  PROVE  Counts
<1>1. leaked \in 0 .. MaxSpiFaults
  BY Mcp25xxfdClockAssumption DEF ClockType
<1>2. power = leaked \/ power = leaked + 1
  BY <1>1 DEF SuppliesPaired
<1>3. transceiver \in {0, 1}
  BY DEF SuppliesPaired
<1> QED BY <1>1, <1>2, <1>3, Mcp25xxfdClockAssumption DEF Counts

(* The invariant, with the bounds on the counts left to CountsBounded.     *)
Sound ==
  /\ Rest /\ ClockType /\ leaked \in Nat
  /\ Stages /\ SuppliesPaired /\ Holders /\ Racing /\ Recorded

LEMMA SoundIsInv == Sound <=> Inv
<1>1. Sound => Counts
  BY CountsBounded DEF Sound, Stages
<1> QED BY <1>1, TypeParts DEF Sound, Inv, Counts

LEMMA SoundStep == Sound /\ Next => Sound'
<1> SUFFICES ASSUME Sound, Next PROVE Sound'
  OBVIOUS
<1>c. Rest /\ ClockType /\ leaked \in Nat /\ "CAN" \in Users
  BY DEF Sound, Users
<1> USE DEF Sound, gpio
<1>1. CASE Probe
  <2>1. ClockType' /\ faults' = faults
    BY <1>1, Mcp25xxfdClockAssumption DEF Probe, clock, ClockType, Users, Modes
  <2>2. Rest' /\ leaked' \in Nat /\ leaked' <= faults'
    BY <1>1, <2>1 DEF Probe, sleeping, supplies, Rest, Stages, ClockType
  <2>3. Stages'
    BY <1>1, <2>2 DEF Probe, sleeping, Stages, Rest
  <2>4. SuppliesPaired'
    BY <1>1 DEF Probe, supplies, sleeping, SuppliesPaired, Stages
  <2>5. Holders'
    BY <1>1, <2>1 DEF Probe, clock, Holders, Stages, Rest
  <2>6. Recorded'
    BY <1>1, <2>1 DEF Probe, clock, sleeping, Recorded, Quiet, Agrees, CheckClock, Racing, InSetup, Stages, Rest, ClockType
  <2>7. Racing'
    BY <1>1, <2>1 DEF Probe, sleeping, Racing, InSetup, Stages, Rest
  <2> QED BY <2>1, <2>2, <2>3, <2>4, <2>5, <2>6, <2>7 DEF Sound
<1>2. CASE HwProbe
  <2>1. ClockType' /\ faults' = faults
    BY <1>2, Mcp25xxfdClockAssumption DEF HwProbe, clock, ClockType, Users, Modes
  <2>2. Rest' /\ leaked' \in Nat /\ leaked' <= faults'
    BY <1>2, <2>1 DEF HwProbe, sleeping, supplies, Rest, Stages, ClockType
  <2>3. Stages'
    BY <1>2, <2>2 DEF HwProbe, sleeping, Stages, Rest
  <2>4. SuppliesPaired'
    BY <1>2 DEF HwProbe, supplies, sleeping, SuppliesPaired, Stages
  <2>5. Holders'
    BY <1>2, <2>1 DEF HwProbe, clock, Holders, Stages, Rest
  <2>6. Recorded'
    BY <1>2, <2>1 DEF HwProbe, clock, sleeping, Recorded, Quiet, Agrees, CheckClock, Racing, InSetup, Stages, Rest, ClockType
  <2>7. Racing'
    BY <1>2, <2>1 DEF HwProbe, sleeping, Racing, InSetup, Stages, Rest
  <2> QED BY <2>1, <2>2, <2>3, <2>4, <2>5, <2>6, <2>7 DEF Sound
<1>3. CASE ProbeDone
  <2>1. /\ ClockType' /\ users' = users \ {"CAN"} /\ faults' >= faults
        /\ faults' = 0 /\ CheckClock => CheckClock'
    BY <1>3, <1>c, StopClockKeeps DEF ProbeDone, HwSleep
  <2>2. Rest' /\ leaked' \in Nat /\ leaked' <= faults'
    BY <1>3, <2>1 DEF ProbeDone, HwSleep, sleeping, supplies, Rest, Stages, ClockType
  <2>3. Stages'
    BY <1>3, <2>2 DEF ProbeDone, HwSleep, sleeping, Stages, Rest
  <2>4. SuppliesPaired'
    BY <1>3 DEF ProbeDone, HwSleep, supplies, sleeping, SuppliesPaired, Stages
  <2>5. Holders'
    BY <1>3, <2>1 DEF ProbeDone, HwSleep, clock, Holders, Stages, Rest
  <2>8. ~freeing
    BY <1>3, LockHeld DEF ProbeDone, HwSleep
  <2>9. /\ UNCHANGED <<link, freeing, raced, resumed>> /\ device = "probed" /\ device' = "bound"
    BY <1>3 DEF ProbeDone, sleeping
  <2>6. Recorded'
    BY <2>1, <2>8, <2>9 DEF Recorded, Quiet, Agrees, Stages, Rest, ClockType
  <2>7. Racing'
    BY <2>8, <2>9 DEF Racing
  <2> QED BY <2>1, <2>2, <2>3, <2>4, <2>5, <2>6, <2>7 DEF Sound
<1>4. CASE ProbeFails
  <2>1. ClockType' /\ faults' = faults + 1 /\ faults' \in 1 .. MaxSpiFaults
    <3>1. faults' = faults + 1 /\ faults' \in 1 .. MaxSpiFaults
      BY <1>4, <1>c, FaultCounts DEF ProbeFails, PowerOff
    <3> QED BY <1>4, <3>1 DEF ProbeFails, PowerOff, ClockType
  <2>2. Rest' /\ leaked' \in Nat /\ leaked' <= faults'
    BY <1>4, <2>1 DEF ProbeFails, PowerOff, sleeping, supplies, Rest, Stages, ClockType
  <2>3. Stages'
    BY <1>4, <2>2 DEF ProbeFails, PowerOff, sleeping, Stages, Rest
  <2>4. SuppliesPaired'
    BY <1>4 DEF ProbeFails, PowerOff, supplies, sleeping, SuppliesPaired, Stages
  <2>5. Holders'
    BY <1>4, <2>1 DEF ProbeFails, PowerOff, clock, Holders, Stages, Rest
  <2>6. Recorded'
    BY <1>4, <2>1 DEF ProbeFails, PowerOff, clock, sleeping, Recorded, Quiet, Agrees, CheckClock, Racing, InSetup, Stages, Rest, ClockType
  <2>7. Racing'
    BY <1>4, <2>1 DEF ProbeFails, sleeping, Racing, InSetup, Stages, Rest
  <2> QED BY <2>1, <2>2, <2>3, <2>4, <2>5, <2>6, <2>7 DEF Sound
<1>5. CASE ProbeAborts
  <2>1. ClockType' /\ faults' = faults + 1 /\ faults' \in 1 .. MaxSpiFaults
    <3>1. faults' = faults + 1 /\ faults' \in 1 .. MaxSpiFaults
      BY <1>5, <1>c, FaultCounts DEF ProbeAborts
    <3> QED BY <1>5, <3>1 DEF ProbeAborts, ClockType
  <2>2. Rest' /\ leaked' \in Nat /\ leaked' <= faults'
    BY <1>5, <2>1 DEF ProbeAborts, sleeping, supplies, Rest, Stages, ClockType
  <2>3. Stages'
    BY <1>5, <2>2 DEF ProbeAborts, sleeping, Stages, Rest
  <2>4. SuppliesPaired'
    BY <1>5 DEF ProbeAborts, supplies, sleeping, SuppliesPaired, Stages
  <2>5. Holders'
    BY <1>5, <2>1 DEF ProbeAborts, clock, Holders, Stages, Rest
  <2>6. Recorded'
    BY <1>5, <2>1 DEF ProbeAborts, clock, sleeping, Recorded, Quiet, Agrees, CheckClock, Racing, InSetup, Stages, Rest, ClockType
  <2>7. Racing'
    BY <1>5, <2>1 DEF ProbeAborts, sleeping, Racing, InSetup, Stages, Rest
  <2> QED BY <2>1, <2>2, <2>3, <2>4, <2>5, <2>6, <2>7 DEF Sound
<1>6. CASE Open
  <2>1. ClockType' /\ faults' = faults
    BY <1>6, Mcp25xxfdClockAssumption DEF Open, clock, ClockType, Users, Modes
  <2>2. Rest' /\ leaked' \in Nat /\ leaked' <= faults'
    BY <1>6, <2>1 DEF Open, sleeping, supplies, Rest, Stages, ClockType
  <2>3. Stages'
    BY <1>6, <2>2 DEF Open, sleeping, Stages, Rest
  <2>4. SuppliesPaired'
    BY <1>6 DEF Open, supplies, sleeping, SuppliesPaired, Stages
  <2>5. Holders'
    BY <1>6, <2>1 DEF Open, clock, Holders, Stages, Rest
  <2>6. Recorded'
    BY <1>6, <2>1 DEF Open, clock, sleeping, Recorded, Quiet, Agrees, CheckClock, Racing, InSetup, Stages, Rest, ClockType
  <2>7. Racing'
    BY <1>6, <2>1 DEF Open, sleeping, Racing, InSetup, Stages, Rest
  <2> QED BY <2>1, <2>2, <2>3, <2>4, <2>5, <2>6, <2>7 DEF Sound
<1>7. CASE OpenWake
  <2>1. /\ ClockType' /\ users' = users \cup {"CAN"} /\ faults' >= faults
        /\ faults' = 0 /\ CheckClock => CheckClock' /\ link' = "setup"
        /\ link' \in {"setup", "clean"}
    BY <1>7, <1>c, StartClockKeeps DEF OpenWake
  <2>8. ~freeing
    BY <1>7, LockHeld DEF OpenWake
  <2>9. UNCHANGED <<device, requested, freeing, raced, forceQuit, sleeping, supplies>> /\ link = "waking"
    BY <1>7 DEF OpenWake
  <2>2. Rest' /\ leaked' \in Nat /\ leaked' <= faults'
    <3>2. Rest'
      BY <2>1, <2>9 DEF sleeping, Rest
    <3>3. leaked' = leaked
      BY <2>9 DEF supplies
    <3> QED BY <2>1, <3>2, <3>3 DEF Stages, ClockType
  <2>3. Stages'
    BY <1>7, <2>2 DEF OpenWake, sleeping, Stages, Rest
  <2>4. SuppliesPaired'
    BY <1>7 DEF OpenWake, supplies, sleeping, SuppliesPaired, Stages
  <2>5. Holders'
    BY <1>7, <2>1 DEF OpenWake, clock, Holders, Stages, Rest
  <2>6. Recorded'
    <3>2. device = "bound" /\ UNCHANGED <<device, resumed, raced, freeing>>
      BY <2>9 DEF Stages, sleeping
    <3>3. faults' = 0 => faults = 0
      BY <2>1 DEF ClockType
    <3> QED BY <2>1, <2>8, <2>9, <3>2, <3>3 DEF Recorded, Quiet, Agrees
  <2>7. Racing'
    BY <2>8, <2>9 DEF Racing
  <2> QED BY <2>1, <2>2, <2>3, <2>4, <2>5, <2>6, <2>7 DEF Sound
<1>8. CASE OpenOsc
  <2>0. Fault => faults' = faults + 1 /\ faults' \in 1 .. MaxSpiFaults
    BY <1>c, FaultCounts
  <2>1. /\ ClockType' /\ users' = users /\ faults' >= faults
        /\ faults' = 0 => faults = 0 /\ link' = "poll" /\ hwMode' # "sleep"
    <3>1. OscWritten \in Modes /\ OscWritten # "sleep" /\ hwMode' \in Modes
      BY <1>8 DEF OpenOsc, OscWritten, Modes, ClockType
    <3>2. faults' \in 0 .. MaxSpiFaults /\ faults' >= faults /\ (faults' = 0 => faults' = faults)
      BY <1>8, <2>0 DEF OpenOsc, ClockType
    <3>3. faults' = 0 => link' = "poll" /\ hwMode' = OscWritten
      BY <1>8, <2>0 DEF OpenOsc
    <3> QED BY <1>8, <3>1, <3>2, <3>3 DEF OpenOsc, ClockType
  <2>2. Rest' /\ leaked' \in Nat /\ leaked' <= faults'
    BY <1>8, <2>1 DEF OpenOsc, sleeping, supplies, Rest, Stages, ClockType
  <2>3. Stages'
    BY <1>8, <2>2 DEF OpenOsc, sleeping, Stages, Rest
  <2>4. SuppliesPaired'
    BY <1>8 DEF OpenOsc, supplies, sleeping, SuppliesPaired, Stages
  <2>5. Holders'
    BY <1>8, <2>1 DEF OpenOsc, Holders, Stages, Rest
  <2>6. Recorded'
    BY <1>8, <2>1 DEF OpenOsc, sleeping, Recorded, Quiet, Agrees, Racing, InSetup, Stages, Rest
  <2>7. Racing'
    BY <1>8, <2>1 DEF OpenOsc, sleeping, Racing, InSetup, Stages, Rest
  <2> QED BY <2>1, <2>2, <2>3, <2>4, <2>5, <2>6, <2>7 DEF Sound
<1>17. CASE OpenPoll
  <2>0. Fault => faults' = faults + 1 /\ faults' \in 1 .. MaxSpiFaults
    BY <1>c, FaultCounts
  <2>1. /\ ClockType' /\ users' = users /\ faults' >= faults
        /\ faults' = 0 => faults = 0 /\ (hwMode # "sleep" => link' = "modes" /\ CheckClock')
        /\ link' \in {"clean", "modes"}
    <3>1. oscdis' \in BOOLEAN
      <4>1. oscdis \in BOOLEAN /\ (hwMode = "sleep") \in BOOLEAN
        BY <1>c DEF ClockType
      <4> QED BY <1>17, <4>1, Zenon DEF OpenPoll
    <3>2. faults' \in 0 .. MaxSpiFaults /\ faults' >= faults /\ (faults' = 0 => faults' = faults)
      BY <1>17, <2>0 DEF OpenPoll, ClockType
    <3>3. faults' = 0 => oscdis' = (hwMode = "sleep") /\ link' = IF hwMode = "sleep" THEN "clean" ELSE "modes"
      BY <1>17, <2>0 DEF OpenPoll
    <3>4. UNCHANGED <<users, mode, clk, hwMode>> /\ link' \in {"clean", "modes"}
      BY <1>17 DEF OpenPoll
    <3>5. faults' = 0 /\ hwMode # "sleep" => CheckClock'
      BY <3>3, <3>4 DEF CheckClock
    <3>6. ClockType'
      BY <3>1, <3>2, <3>4 DEF ClockType
    <3> QED BY <3>2, <3>3, <3>4, <3>5, <3>6
  <2>2. Rest' /\ leaked' \in Nat /\ leaked' <= faults'
    BY <1>17, <2>1 DEF OpenPoll, sleeping, supplies, Rest, Stages, ClockType
  <2>3. Stages'
    BY <1>17, <2>1, <2>2 DEF OpenPoll, sleeping, Stages, Rest
  <2>4. SuppliesPaired'
    BY <1>17, <2>1 DEF OpenPoll, supplies, sleeping, SuppliesPaired, Stages
  <2>5. Holders'
    BY <1>17, <2>1 DEF OpenPoll, Holders, Stages, Rest
  <2>6. Recorded'
    BY <1>17, <2>1 DEF OpenPoll, sleeping, Recorded, Quiet, Agrees, Racing, InSetup, Stages, Rest
  <2>7. Racing'
    BY <1>17, <2>1 DEF OpenPoll, sleeping, Racing, InSetup, Stages, Rest
  <2> QED BY <2>1, <2>2, <2>3, <2>4, <2>5, <2>6, <2>7 DEF Sound
<1>18. CASE OpenModes
  <2>0. Fault => faults' = faults + 1 /\ faults' \in 1 .. MaxSpiFaults
    BY <1>c, FaultCounts
  <2>1. /\ ClockType' /\ users' = users /\ faults' >= faults
        /\ faults' = 0 => faults = 0 /\ link' = "up" /\ (CheckClock => CheckClock')
        /\ link' \in {"clean", "up"}
    <3>1. hwMode' \in Modes /\ mode' \in Modes
      BY <1>18 DEF OpenModes, Entered, Modes, ClockType
    <3>2. faults' \in 0 .. MaxSpiFaults /\ faults' >= faults /\ (faults' = 0 => faults' = faults)
      BY <1>18, <2>0 DEF OpenModes, ClockType
    <3>3. faults' = 0 => link' = "up" /\ hwMode' = Entered("normal")
      BY <1>18, <2>0 DEF OpenModes
    <3>4. UNCHANGED <<users, oscdis, clk>> /\ link' \in {"clean", "up"}
      BY <1>18 DEF OpenModes
    <3>5. faults' = 0 /\ CheckClock => CheckClock'
      BY <3>3, <3>4 DEF CheckClock, Entered
    <3> QED BY <3>1, <3>2, <3>3, <3>4, <3>5 DEF ClockType
  <2>2. Rest' /\ leaked' \in Nat /\ leaked' <= faults'
    BY <1>18, <2>1 DEF OpenModes, sleeping, supplies, Rest, Stages, ClockType
  <2>3. Stages'
    BY <1>18, <2>1, <2>2 DEF OpenModes, sleeping, Stages, Rest
  <2>4. SuppliesPaired'
    BY <1>18, <2>1 DEF OpenModes, supplies, sleeping, SuppliesPaired, Stages
  <2>5. Holders'
    BY <1>18, <2>1 DEF OpenModes, Holders, Stages, Rest
  <2>6. Recorded'
    BY <1>18, <2>1 DEF OpenModes, sleeping, Recorded, Quiet, Agrees, Racing, InSetup, Stages, Rest
  <2>7. Racing'
    BY <1>18, <2>1 DEF OpenModes, sleeping, Racing, InSetup, Stages, Rest
  <2> QED BY <2>1, <2>2, <2>3, <2>4, <2>5, <2>6, <2>7 DEF Sound
<1>9. CASE OpenClean
  <2>1. /\ ClockType' /\ users' = users \ {"CAN"} /\ faults' >= faults
        /\ faults' = 0 /\ CheckClock => CheckClock'
    BY <1>9, <1>c, StopClockKeeps DEF OpenClean, HwSleep, TransceiverOff
  <2>2. Rest' /\ leaked' \in Nat /\ leaked' <= faults'
    BY <1>9, <2>1 DEF OpenClean, HwSleep, TransceiverOff, sleeping, supplies, Rest, Stages, ClockType
  <2>3. Stages'
    BY <1>9, <2>2 DEF OpenClean, HwSleep, TransceiverOff, sleeping, Stages, Rest
  <2>4. SuppliesPaired'
    BY <1>9 DEF OpenClean, HwSleep, TransceiverOff, supplies, sleeping, SuppliesPaired, Stages
  <2>5. Holders'
    BY <1>9, <2>1 DEF OpenClean, HwSleep, TransceiverOff, clock, Holders, Stages, Rest
  <2>8. ~freeing
    BY <1>9, LockHeld DEF OpenClean, HwSleep
  <2>9. /\ UNCHANGED <<device, freeing, raced, resumed>> /\ link = "clean" /\ link' = "down"
    BY <1>9 DEF OpenClean, sleeping
  <2>6. Recorded'
    BY <2>1, <2>8, <2>9 DEF Recorded, Quiet, Agrees, Stages, Rest, ClockType
  <2>7. Racing'
    BY <2>8, <2>9 DEF Racing
  <2> QED BY <2>1, <2>2, <2>3, <2>4, <2>5, <2>6, <2>7 DEF Sound
<1>10. CASE Stop
  <2>1. /\ ClockType' /\ users' = users \ {"CAN"} /\ faults' >= faults
        /\ faults' = 0 /\ CheckClock => CheckClock'
    BY <1>10, <1>c, StopClockKeeps DEF Stop, HwSleep, TransceiverOff
  <2>2. Rest' /\ leaked' \in Nat /\ leaked' <= faults'
    BY <1>10, <2>1 DEF Stop, HwSleep, TransceiverOff, sleeping, supplies, Rest, Stages, ClockType
  <2>3. Stages'
    BY <1>10, <2>2 DEF Stop, HwSleep, TransceiverOff, sleeping, Stages, Rest
  <2>4. SuppliesPaired'
    BY <1>10 DEF Stop, HwSleep, TransceiverOff, supplies, sleeping, SuppliesPaired, Stages
  <2>5. Holders'
    BY <1>10, <2>1 DEF Stop, HwSleep, TransceiverOff, clock, Holders, Stages, Rest
  <2>8. ~freeing
    BY <1>10, LockHeld DEF Stop, HwSleep
  <2>9. /\ UNCHANGED <<device, freeing, raced, resumed>> /\ link = "up" /\ link' = "down"
    BY <1>10 DEF Stop, sleeping
  <2>6. Recorded'
    BY <2>1, <2>8, <2>9 DEF Recorded, Quiet, Agrees, Stages, Rest, ClockType
  <2>7. Racing'
    BY <2>8, <2>9 DEF Racing
  <2> QED BY <2>1, <2>2, <2>3, <2>4, <2>5, <2>6, <2>7 DEF Sound
<1>11. CASE BusOff
  <2>1. /\ ClockType' /\ users' = users \ {"CAN"} /\ faults' >= faults
        /\ faults' = 0 /\ CheckClock => CheckClock'
    BY <1>11, <1>c, StopClockKeeps DEF BusOff, HwSleep
  <2>2. Rest' /\ leaked' \in Nat /\ leaked' <= faults'
    BY <1>11, <2>1 DEF BusOff, HwSleep, sleeping, supplies, Rest, Stages, ClockType
  <2>3. Stages'
    BY <1>11, <2>2 DEF BusOff, HwSleep, sleeping, Stages, Rest
  <2>4. SuppliesPaired'
    BY <1>11 DEF BusOff, HwSleep, supplies, sleeping, SuppliesPaired, Stages
  <2>5. Holders'
    BY <1>11, <2>1 DEF BusOff, HwSleep, clock, Holders, Stages, Rest
  <2>8. ~freeing
    BY <1>11, LockHeld DEF BusOff, HwSleep
  <2>9. /\ UNCHANGED <<device, link, freeing, raced, resumed>> /\ link = "up"
    BY <1>11 DEF BusOff, sleeping
  <2>6. Recorded'
    BY <2>1, <2>8, <2>9 DEF Recorded, Quiet, Agrees, Stages, Rest, ClockType
  <2>7. Racing'
    BY <2>8, <2>9 DEF Racing
  <2> QED BY <2>1, <2>2, <2>3, <2>4, <2>5, <2>6, <2>7 DEF Sound
<1>12. CASE Suspend
  <2>1. /\ ClockType' /\ users' \in {users, users \ {"CAN"}} /\ faults' >= faults
        /\ link = "up" => users' = users \ {"CAN"}
        /\ link # "up" => users' = users
        /\ faults' = 0 /\ CheckClock => CheckClock'
    <3>1. CASE link = "up"
      BY <1>12, <3>1, <1>c, StopClockKeeps DEF Suspend, HwSleep, PowerOff, TransceiverOff
    <3>2. CASE link # "up"
      BY <1>12, <3>2, <1>c DEF Suspend, HwSleep, PowerOff, TransceiverOff, clock, ClockType, CheckClock
    <3> QED BY <3>1, <3>2
  <2>2. Rest' /\ leaked' \in Nat /\ leaked' <= faults'
    BY <1>12, <2>1 DEF Suspend, HwSleep, PowerOff, TransceiverOff, sleeping, supplies, Rest, Stages, ClockType
  <2>3. Stages'
    BY <1>12, <2>2 DEF Suspend, HwSleep, PowerOff, TransceiverOff, sleeping, Stages, Rest
  <2>4. SuppliesPaired'
    BY <1>12 DEF Suspend, HwSleep, PowerOff, TransceiverOff, supplies, sleeping, SuppliesPaired, Stages
  <2>5. Holders'
    BY <1>12, <2>1 DEF Suspend, HwSleep, PowerOff, TransceiverOff, clock, Holders, Stages, Rest
  <2>6. Recorded'
    BY <1>12, <2>1 DEF Suspend, HwSleep, PowerOff, TransceiverOff, clock, sleeping, Recorded, Quiet, Agrees, CheckClock, Racing, InSetup, Stages, Rest, ClockType
  <2>7. Racing'
    BY <1>12, <2>1 DEF Suspend, sleeping, Racing, InSetup, Stages, Rest
  <2> QED BY <2>1, <2>2, <2>3, <2>4, <2>5, <2>6, <2>7 DEF Sound
<1>13. CASE Resume
  <2>1. ClockType' /\ faults' = faults
    BY <1>13, Mcp25xxfdClockAssumption DEF Resume, clock, ClockType, Users, Modes
  <2>2. Rest' /\ leaked' \in Nat /\ leaked' <= faults'
    BY <1>13, <2>1 DEF Resume, sleeping, supplies, Rest, Stages, ClockType
  <2>3. Stages'
    BY <1>13, <2>2 DEF Resume, sleeping, Stages, Rest
  <2>4. SuppliesPaired'
    <3>1. device = "bound" /\ device' = device /\ link' = link /\ ~suspended' /\ leaked' = leaked
      BY <1>13 DEF Resume, Stages
    <3>2. power = leaked /\ power' = power + 1
      BY <1>13 DEF Resume, SuppliesPaired
    <3>3. transceiver = 0 /\ link \in {"down", "up"} /\ afterSuspend = (link = "up")
      BY <1>13 DEF Resume, SuppliesPaired, Stages
    <3>4. transceiver' = IF link # "down" THEN 1 ELSE 0
      <4>1. CASE link = "up"
        <5>1. afterSuspend
          BY <3>3, <4>1, Zenon
        <5>2. transceiver' = transceiver + 1
          BY <1>13, <5>1 DEF Resume
        <5> QED BY <3>3, <4>1, <5>2
      <4>2. CASE link = "down"
        BY <1>13, <3>3, <4>2 DEF Resume
      <4> QED BY <3>3, <4>1, <4>2
    <3> QED BY <3>1, <3>2, <3>4 DEF SuppliesPaired
  <2>5. Holders'
    BY <1>13, <2>1 DEF Resume, clock, Holders, Stages, Rest
  <2>6. Recorded'
    BY <1>13, <2>1 DEF Resume, clock, sleeping, Recorded, Quiet, Agrees, CheckClock, Racing, InSetup, Stages, Rest, ClockType
  <2>7. Racing'
    BY <1>13, <2>1 DEF Resume, sleeping, Racing, InSetup, Stages, Rest
  <2> QED BY <2>1, <2>2, <2>3, <2>4, <2>5, <2>6, <2>7 DEF Sound
<1>14. CASE Remove
  <2>1. ClockType' /\ faults' = faults
    BY <1>14, Mcp25xxfdClockAssumption DEF Remove, PowerOff, clock, ClockType, Users, Modes
  <2>2. Rest' /\ leaked' \in Nat /\ leaked' <= faults'
    BY <1>14, <2>1 DEF Remove, PowerOff, sleeping, supplies, Rest, Stages, ClockType
  <2>3. Stages'
    BY <1>14, <2>2 DEF Remove, PowerOff, sleeping, Stages, Rest
  <2>4. SuppliesPaired'
    BY <1>14 DEF Remove, PowerOff, supplies, sleeping, SuppliesPaired, Stages
  <2>5. Holders'
    BY <1>14, <2>1 DEF Remove, PowerOff, clock, Holders, Stages, Rest
  <2>6. Recorded'
    BY <1>14, <2>1 DEF Remove, PowerOff, clock, sleeping, Recorded, Quiet, Agrees, CheckClock, Racing, InSetup, Stages, Rest, ClockType
  <2>7. Racing'
    BY <1>14, <2>1 DEF Remove, sleeping, Racing, InSetup, Stages, Rest
  <2> QED BY <2>1, <2>2, <2>3, <2>4, <2>5, <2>6, <2>7 DEF Sound
<1>15. CASE \E g \in Gpios : GpioRequest(g)
  <2>0. PICK g \in Gpios : GpioRequest(g)
    BY <1>15
  <2>g. g \in Users /\ g # "CAN"
    BY Mcp25xxfdClockAssumption DEF Users
  <2>1. /\ ClockType' /\ users' = users \cup {g} /\ faults' >= faults
        /\ faults' = 0 /\ CheckClock => CheckClock'
    BY <2>0, <2>g, <1>c, StartClockKeeps DEF GpioRequest
  <2>2. Rest' /\ leaked' \in Nat /\ leaked' <= faults'
    BY <2>0, <2>g, <2>1 DEF GpioRequest, sleeping, supplies, Rest, Stages, ClockType
  <2>3. Stages'
    BY <2>0, <2>g, <2>2 DEF GpioRequest, sleeping, Stages, Rest
  <2>4. SuppliesPaired'
    BY <2>0, <2>g DEF GpioRequest, supplies, sleeping, SuppliesPaired, Stages
  <2>5. Holders'
    BY <2>0, <2>g, <2>1 DEF GpioRequest, clock, Holders, Stages, Rest
  <2>8. ~freeing /\ ("CAN" \in users => UNCHANGED <<oscdis, hwMode>>)
    BY <2>0, <2>g, LockHeld, LaterUser DEF GpioRequest
  <2>9. UNCHANGED <<device, link, freeing, raced, resumed>> /\ device # "none"
    BY <2>0 DEF GpioRequest, sleeping
  <2>6. Recorded'
    <3>1. faults' = 0 => faults = 0
      BY <2>1 DEF ClockType
    <3>2. CASE link = "poll"
      <4>1. UNCHANGED <<oscdis, hwMode>>
        BY <2>8, <3>2 DEF Holders
      <4> QED BY <2>9, <3>1, <4>1 DEF Recorded, Quiet, Agrees, CheckClock
    <3>3. CASE link # "poll"
      BY <2>1, <2>8, <2>9, <3>1, <3>3 DEF Recorded, Quiet, Agrees
    <3> QED BY <3>2, <3>3
  <2>7. Racing'
    BY <2>8, <2>9 DEF Racing
  <2> QED BY <2>1, <2>2, <2>3, <2>4, <2>5, <2>6, <2>7 DEF Sound
<1>16. CASE \E g \in Gpios : GpioFree(g)
  <2>0. PICK g \in Gpios : GpioFree(g)
    BY <1>16
  <2>g. g \in Users /\ g # "CAN"
    BY Mcp25xxfdClockAssumption DEF Users
  <2>1. /\ ClockType' /\ users' = users \ {g} /\ faults' = faults
        /\ users' = {} \/ (oscdis' /\ freeing')
        /\ users' = {} => UNCHANGED <<oscdis, freeing>>
        /\ ~freeing /\ freeing' \in BOOLEAN
    <3>1. CASE users' = {}
      BY <2>0, <3>1 DEF GpioFree, ClockType, Rest
    <3>2. CASE users' # {}
      <4>1. /\ mode' = "sleep" /\ oscdis' = TRUE /\ freeing' = TRUE /\ clk' = clk - 1 /\ clk > -MaxClk
            /\ ~freeing /\ users' = users \ {g} /\ UNCHANGED <<hwMode, faults>>
        BY <2>0, <3>2 DEF GpioFree, OscRecorded
      <4>2. clk' \in -MaxClk .. MaxClk /\ mode' \in Modes
        BY <4>1, Mcp25xxfdClockAssumption DEF ClockType, Modes
      <4>3. ClockType'
        BY <4>1, <4>2 DEF ClockType
      <4>4. freeing' \in BOOLEAN /\ oscdis' /\ freeing'
        BY <4>1
      <4> QED BY <3>2, <4>1, <4>3, <4>4
    <3> QED BY <3>1, <3>2
  <2>2. Rest' /\ leaked' \in Nat /\ leaked' <= faults'
    <3>1. raced' \in BOOLEAN
      BY <2>0, Zenon DEF GpioFree, Rest
    <3>2. /\ UNCHANGED <<device, link, forceQuit, suspended, afterSuspend, resumed, leaked>>
          /\ requested' \subseteq Gpios
      BY <2>0 DEF GpioFree, sleeping, supplies, Rest
    <3> QED BY <2>1, <3>1, <3>2 DEF Rest, Stages
  <2>3. Stages'
    BY <2>0, <2>g, <2>2 DEF GpioFree, sleeping, Stages, Rest
  <2>4. SuppliesPaired'
    BY <2>0, <2>g DEF GpioFree, supplies, sleeping, SuppliesPaired, Stages
  <2>5. Holders'
    BY <2>0, <2>g, <2>1 DEF GpioFree, Holders, Stages, Rest
  <2>8. /\ UNCHANGED <<device, link, hwMode, resumed>> /\ (InSetup' <=> InSetup) /\ (raced' <=> raced \/ InSetup)
        /\ device # "none"
    BY <2>0 DEF GpioFree, sleeping, InSetup, Stages
  <2>6. Recorded'
    BY <2>1, <2>8 DEF Recorded, Quiet, Agrees, CheckClock, InSetup
  <2>7. Racing'
    BY <2>1, <2>8 DEF Racing
  <2> QED BY <2>1, <2>2, <2>3, <2>4, <2>5, <2>6, <2>7 DEF Sound
<1>19. CASE GpioFreeSleeps
  <2>0. Fault => faults' = faults + 1 /\ faults' \in 1 .. MaxSpiFaults
    BY <1>c, FaultCounts
  <2>1. /\ ClockType' /\ users' = users /\ faults' >= faults
        /\ faults' = 0 => faults = 0 /\ hwMode' = "sleep"
        /\ freeing /\ freeing' = FALSE
    <3>1. hwMode' \in Modes /\ UNCHANGED <<users, mode, oscdis, clk>>
      BY <1>19 DEF GpioFreeSleeps, Modes, ClockType
    <3>2. faults' \in 0 .. MaxSpiFaults /\ faults' >= faults /\ (faults' = 0 => faults' = faults)
      BY <1>19, <2>0 DEF GpioFreeSleeps, ClockType
    <3>3. faults' = 0 => hwMode' = "sleep"
      BY <1>19, <2>0 DEF GpioFreeSleeps
    <3> QED BY <1>19, <3>1, <3>2, <3>3 DEF ClockType, GpioFreeSleeps
  <2>2. Rest' /\ leaked' \in Nat /\ leaked' <= faults'
    <3>1. UNCHANGED <<device, link, requested, raced, forceQuit, sleeping, supplies>>
      BY <1>19 DEF GpioFreeSleeps
    <3>2. freeing' \in BOOLEAN
      BY <2>1, Zenon
    <3>3. Rest'
      BY <3>1, <3>2 DEF sleeping, Rest
    <3>4. leaked' = leaked
      BY <3>1 DEF supplies
    <3> QED BY <2>1, <3>3, <3>4 DEF Stages, ClockType
  <2>3. Stages'
    BY <1>19, <2>2 DEF GpioFreeSleeps, sleeping, Stages, Rest
  <2>4. SuppliesPaired'
    BY <1>19 DEF GpioFreeSleeps, supplies, sleeping, SuppliesPaired, Stages
  <2>5. Holders'
    BY <1>19, <2>1 DEF GpioFreeSleeps, Holders, Stages, Rest
  <2>8. UNCHANGED <<device, link, oscdis, resumed, raced>>
    BY <1>19 DEF GpioFreeSleeps, sleeping
  <2>6. Recorded'
    BY <2>1, <2>8 DEF Recorded, Quiet, Agrees, CheckClock, Racing, InSetup
  <2>7. Racing'
    BY <2>1 DEF Racing
  <2> QED BY <2>1, <2>2, <2>3, <2>4, <2>5, <2>6, <2>7 DEF Sound
<1> QED BY <1>1, <1>2, <1>3, <1>4, <1>5, <1>6, <1>7, <1>8, <1>9, <1>10, <1>11, <1>12, <1>13, <1>14, <1>15, <1>16, <1>17, <1>18, <1>19 DEF Next

LEMMA Step == Inv /\ [Next]_vars => Inv'
<1>1. Inv /\ Next => Sound'
  BY SoundStep, SoundIsInv
<1>2. Inv /\ UNCHANGED vars => Inv'
  BY DEF Inv, TypeOK, Stages, SuppliesPaired, Holders, Racing, InSetup, Recorded, Quiet, Agrees, CheckClock, vars
<1>3. Sound' => Inv'
  BY SoundIsInv, PTL
<1> QED BY <1>1, <1>2, <1>3

-----------------------------------------------------------------------------
(* For any bound on failing transfers: types, and the enable counts of the *)
(* supplies never leave their range.                                       *)
THEOREM TypeCorrect == Spec => []TypeOK
<1>1. Inv => TypeOK
  BY DEF Inv
<1> QED BY Initially, Step, <1>1, PTL DEF Spec

(* For any bound on failing transfers: the supplies are on exactly while   *)
(* the device is bound, and the interface open, and no suspend is on.      *)
THEOREM SuppliesCorrect == Spec => []SuppliesPaired
<1>1. Inv => SuppliesPaired
  BY DEF Inv
<1> QED BY Initially, Step, <1>1, PTL DEF Spec

(* clk_user_mask names the GPIO lines that are requested and, once the     *)
(* device is bound, the interface only while it is open.                   *)
THEOREM UsersCorrect == Spec => []UsersAreHolders
<1>1. Inv => UsersAreHolders
  BY DEF Inv, Holders, UsersAreHolders
<1> QED BY Initially, Step, <1>1, PTL DEF Spec

(* Whoever else has used and released the clock: without a failed transfer,*)
(* a suspend, or a GPIO line that is let go during a set-up, the record of *)
(* the oscillator register agrees with the controller when it is compared, *)
(* and opening the interface is not refused.                               *)
THEOREM OpenNotRefused == Spec => []NeverRefused
<1>1. Inv => NeverRefused
  BY DEF Inv, Recorded, Quiet, NeverRefused
<1> QED BY Initially, Step, <1>1, PTL DEF Spec
=============================================================================
