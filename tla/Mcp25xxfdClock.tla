--------------------------- MODULE Mcp25xxfdClock ---------------------------
(***************************************************************************)
(* Who keeps the mcp25xxfd controller awake: the CAN interface and two     *)
(* GPIO lines share one clock through clk_user_mask, under a mutex.  The   *)
(* module follows the controller's sleep mode, the driver's record of it   *)
(* and the enable counts of the clock and the supplies through probe,      *)
(* open, stop, bus-off, GPIO request and free, suspend, resume and remove. *)
(*                                                                         *)
(* start_clock and stop_clock run under clk_user_lock.  The set-up between *)
(* them in probe and open does not hold it, so GPIO operations come        *)
(* between its transfers, and it comes between the two halves of a         *)
(* stop_clock of a GPIO line; every other start or stop is one step.       *)
(***************************************************************************)
EXTENDS Integers, FiniteSets

CONSTANTS
  Gpios,        (* GPIO lines that are used, a subset of GPIO0, GPIO1      *)
  MaxClk,       (* bound: enable count of the clock, in both directions    *)
  MaxSpiFaults  (* bound: SPI transfers that fail or time out              *)

ASSUME Mcp25xxfdClockAssumption ==
  /\ Gpios \subseteq {"GPIO0", "GPIO1"}
  /\ MaxClk \in Nat /\ MaxSpiFaults \in Nat

Users == {"CAN"} \cup Gpios                    (* MCP25XXFD_CLK_USER_*     *)
Modes == {"sleep", "config", "normal"}

VARIABLES
  device,      (* "none", "probing", "probed" (hw_probe is done), "bound" *)
  link,        (* "down", a stage of mcp25xxfd_open, or "up"              *)
  requested,   (* GPIO lines that are requested                           *)
  users,       (* clk_user_mask                                           *)
  mode,        (* active_can_mode                                         *)
  oscdis,      (* OSCDIS in regs.osc, the driver's copy of the OSC register*)
  forceQuit,   (* force_quit                                              *)
  freeing,     (* stop_clock of a GPIO line holds clk_user_lock           *)
  suspended,   (* between suspend and resume                              *)
  afterSuspend,(* after_suspend: the interface was up                     *)
  clk,         (* enable count of the clock                               *)
  power,       (* enable count of the vdd regulator                       *)
  transceiver, (* enable count of the xceiver regulator                   *)
  hwMode,      (* the controller's mode; OSCDIS is set in sleep           *)
  resumed,     (* history: the system was suspended and resumed           *)
  raced,       (* history: a GPIO line was freed during a set-up          *)
  leaked,      (* history: probes that failed and left the supply on      *)
  faults       (* how many transfers have failed                          *)

vars == <<device, link, requested, users, mode, oscdis, forceQuit, freeing,
          suspended, afterSuspend, clk, power, transceiver, hwMode,
          resumed, raced, leaked, faults>>

clock == <<users, mode, oscdis, clk, hwMode, faults>>
supplies == <<power, transceiver, leaked>>
sleeping == <<suspended, afterSuspend, resumed>>
gpio == <<requested, freeing, raced>>

(* A former driver may have left the controller in any mode.               *)
Init ==
  /\ device = "none" /\ link = "down" /\ requested = {} /\ users = {}
  /\ mode = "sleep" /\ oscdis = FALSE /\ forceQuit = FALSE
  /\ suspended = FALSE /\ afterSuspend = FALSE /\ freeing = FALSE /\ raced = FALSE
  /\ clk = 0 /\ power = 0 /\ transceiver = 0 /\ leaked = 0 /\ resumed = FALSE
  /\ hwMode \in Modes
  /\ faults = 0

Fault == faults < MaxSpiFaults /\ faults' = faults + 1

-----------------------------------------------------------------------------
(* mcp25xxfd_hw_check_clock: the OSC register must be what the driver      *)
(* remembers.                                                              *)
CheckUnchecked == TRUE
CheckClock == oscdis = (hwMode = "sleep")

(* mcp25xxfd_wake_from_sleep: fails before or after OSCDIS was cleared in  *)
(* the controller.                                                         *)
Wake(ok) ==
  /\ oscdis' = FALSE
  /\ IF ok THEN hwMode' = "config" /\ mode' = "config" /\ UNCHANGED faults
           ELSE Fault /\ hwMode' \in {hwMode, "config"} /\ UNCHANGED mode

(* mcp25xxfd_start_clock: the first user starts the clock.                 *)
FirstUser(u) == users \cup {u} = {u}
StartClock(u, ok) ==
  /\ ~freeing
  /\ users' = users \cup {u}
  /\ IF ~FirstUser(u)
       THEN ok /\ UNCHANGED <<mode, oscdis, clk, hwMode, faults>>
       ELSE \/ /\ ~ok
               /\ \/ ~CheckClock /\ UNCHANGED faults
                  \/ Fault
               /\ UNCHANGED <<mode, oscdis, clk, hwMode>>
            \/ /\ CheckClock
               /\ clk < MaxClk /\ clk' = clk + 1
               /\ IF mode = "sleep"
                    THEN Wake(ok)
                    ELSE ok /\ UNCHANGED <<mode, oscdis, hwMode, faults>>

(* mcp25xxfd_set_opmode notes in regs.osc that sleep sets OSCDIS.          *)
OscNotRecorded == UNCHANGED oscdis
OscRecorded == oscdis' = TRUE

(* mcp25xxfd_stop_clock: returns when nobody is left; otherwise the        *)
(* controller is put to sleep and the clock disabled, whether or not the   *)
(* transfer succeeds.                                                      *)
StopClock(u) ==
  /\ ~freeing
  /\ users' = users \ {u}
  /\ IF users' = {}
       THEN UNCHANGED <<mode, oscdis, clk, hwMode, faults>>
       ELSE /\ mode' = "sleep" /\ OscRecorded
            /\ clk > -MaxClk /\ clk' = clk - 1
            /\ \/ hwMode' = "sleep" /\ UNCHANGED faults
               \/ Fault /\ UNCHANGED hwMode

-----------------------------------------------------------------------------
HwSleepForgotten == UNCHANGED clock
HwSleep == StopClock("CAN")

PowerOffForgotten == UNCHANGED power
PowerOff == power' = power - 1

TransceiverOffForgotten == UNCHANGED transceiver
TransceiverOff == transceiver' = transceiver - 1

(* mcp25xxfd_can_probe up to mcp25xxfd_hw_probe; the GPIO lines are there  *)
(* from here on.                                                           *)
Probe ==
  /\ device = "none"
  /\ device' = "probing"
  /\ users' = {"CAN"} /\ clk < MaxClk /\ clk' = clk + 1
  /\ mode' = "sleep" /\ power' = power + 1
  /\ UNCHANGED <<link, gpio, oscdis, forceQuit, sleeping, transceiver,
                 leaked, hwMode, faults>>

(* mcp25xxfd_hw_probe brings the controller into configuration mode.       *)
HwProbe ==
  /\ device = "probing"
  /\ device' = "probed"
  /\ hwMode' = "config" /\ mode' = "config" /\ oscdis' = FALSE
  /\ UNCHANGED <<link, gpio, users, clk, forceQuit, sleeping, supplies, faults>>

(* "and put controller to sleep"; the net device is registered.            *)
ProbeDone ==
  /\ device = "probed"
  /\ device' = "bound"
  /\ HwSleep
  /\ UNCHANGED <<link, gpio, forceQuit, sleeping, supplies>>

(* No controller is found: supply off, stop_clock; nobody else uses the    *)
(* clock then.                                                             *)
ProbeFails ==
  /\ device = "probing" /\ requested = {} /\ ~freeing
  /\ device' = "none"
  /\ Fault
  /\ users' = {}
  /\ PowerOff
  /\ UNCHANGED <<link, gpio, mode, oscdis, forceQuit, sleeping, clk,
                 transceiver, leaked, hwMode>>

(* The IOCON register cannot be written: probe returns at once.            *)
ProbeAborts ==
  /\ device = "probed" /\ requested = {} /\ ~freeing
  /\ device' = "none"
  /\ Fault /\ leaked' = leaked + 1
  /\ UNCHANGED <<link, gpio, users, mode, oscdis, forceQuit, sleeping,
                 clk, power, transceiver, hwMode>>

(* mcp25xxfd_open.                                                         *)
Open ==
  /\ device = "bound" /\ link = "down" /\ ~suspended
  /\ link' = "waking"
  /\ transceiver' = transceiver + 1 /\ forceQuit' = FALSE
  /\ UNCHANGED <<device, gpio, clock, sleeping, power, leaked>>

OpenWake ==
  /\ link = "waking"
  /\ \/ StartClock("CAN", TRUE) /\ link' = "setup"
     \/ StartClock("CAN", FALSE) /\ link' = "clean"
  /\ UNCHANGED <<device, gpio, forceQuit, sleeping, supplies>>

(* setup_osc writes the OSC register without OSCDIS, ...                   *)
OscWritten == IF hwMode = "sleep" THEN "config" ELSE hwMode

OpenOsc ==
  /\ link = "setup"
  /\ \/ link' = "poll" /\ hwMode' = OscWritten /\ UNCHANGED faults
     \/ link' = "clean" /\ hwMode' \in {hwMode, OscWritten} /\ Fault
  /\ UNCHANGED <<device, gpio, users, mode, oscdis, clk, forceQuit, sleeping,
                 supplies>>

(* ... and reads it into regs.osc until the oscillator is ready, which it  *)
(* never is in sleep.                                                      *)
OpenPoll ==
  /\ link = "poll"
  /\ \/ /\ link' = IF hwMode = "sleep" THEN "clean" ELSE "modes"
        /\ oscdis' = (hwMode = "sleep")
        /\ UNCHANGED faults
     \/ link' = "clean" /\ oscdis' \in {oscdis, hwMode = "sleep"} /\ Fault
  /\ UNCHANGED <<device, gpio, users, mode, clk, hwMode, forceQuit, sleeping,
                 supplies>>

(* The modes set after it end in the normal one; a controller without its  *)
(* oscillator stays asleep, and nobody looks.                              *)
Entered(m) == IF hwMode = "sleep" THEN "sleep" ELSE m

OpenModes ==
  /\ link = "modes"
  /\ \/ /\ link' = "up"
        /\ mode' = "normal" /\ hwMode' = Entered("normal")
        /\ UNCHANGED faults
     \/ /\ link' = "clean"
        /\ mode' \in {mode, "config", "normal"}
        /\ hwMode' \in {hwMode, Entered("config"), Entered("normal")}
        /\ Fault
  /\ UNCHANGED <<device, gpio, users, oscdis, clk, forceQuit, sleeping, supplies>>

OpenClean ==
  /\ link = "clean"
  /\ link' = "down"
  /\ HwSleep
  /\ TransceiverOff
  /\ UNCHANGED <<device, gpio, forceQuit, sleeping, power, leaked>>

Stop ==
  /\ link = "up" /\ ~suspended
  /\ link' = "down" /\ forceQuit' = TRUE
  /\ HwSleep
  /\ TransceiverOff
  /\ UNCHANGED <<device, gpio, sleeping, power, leaked>>

(* The interrupt thread in bus-off without automatic restart.              *)
BusOff ==
  /\ link = "up" /\ ~suspended /\ ~forceQuit
  /\ hwMode = "normal"
  /\ forceQuit' = TRUE
  /\ HwSleep
  /\ UNCHANGED <<device, link, gpio, sleeping, supplies>>

-----------------------------------------------------------------------------
(* A GPIO request ignores what start_clock returns.                        *)
GpioRequest(g) ==
  /\ device # "none" /\ g \notin requested /\ ~suspended
  /\ requested' = requested \cup {g}
  /\ \E ok \in BOOLEAN : StartClock(g, ok)
  /\ UNCHANGED <<device, link, freeing, raced, forceQuit, sleeping, supplies>>

(* stop_clock for a GPIO line, which may run beside a set-up: set_opmode   *)
(* first notes the mode and OSCDIS, ...                                    *)
InSetup == device = "probing" \/ link \in {"setup", "poll", "modes"}

GpioFree(g) ==
  /\ g \in requested /\ ~suspended /\ ~freeing
  /\ requested' = requested \ {g}
  /\ users' = users \ {g}
  /\ IF users' = {}
       THEN UNCHANGED <<mode, oscdis, clk, freeing>>
       ELSE /\ mode' = "sleep" /\ OscRecorded
            /\ clk > -MaxClk /\ clk' = clk - 1
            /\ freeing' = TRUE
  /\ raced' = (raced \/ InSetup)
  /\ UNCHANGED <<device, link, hwMode, faults, forceQuit, sleeping, supplies>>

(* ... then tells the controller; whether that worked is not looked at.    *)
GpioFreeSleeps ==
  /\ freeing /\ freeing' = FALSE
  /\ \/ hwMode' = "sleep" /\ UNCHANGED faults
     \/ Fault /\ UNCHANGED hwMode
  /\ UNCHANGED <<device, link, requested, users, mode, oscdis, clk, raced,
                 forceQuit, sleeping, supplies>>

Suspend ==
  /\ device = "bound" /\ ~suspended /\ ~freeing /\ link \in {"down", "up"}
  /\ suspended' = TRUE /\ forceQuit' = TRUE
  /\ afterSuspend' = (link = "up")
  /\ IF link = "up"
       THEN HwSleep /\ TransceiverOff
       ELSE UNCHANGED <<clock, transceiver>>
  /\ PowerOff
  /\ UNCHANGED <<device, link, gpio, resumed, leaked>>

(* Power that was off leaves the controller in its reset state.            *)
Resume ==
  /\ suspended
  /\ suspended' = FALSE /\ forceQuit' = FALSE /\ resumed' = TRUE
  /\ power' = power + 1
  /\ transceiver' = IF afterSuspend THEN transceiver + 1 ELSE transceiver
  /\ hwMode' = "config"
  /\ UNCHANGED <<device, link, gpio, users, mode, oscdis, afterSuspend,
                 clk, leaked, faults>>

(* unregister_candev stops an interface that is up.                        *)
Remove ==
  /\ device = "bound" /\ link = "down" /\ requested = {} /\ ~freeing /\ ~suspended
  /\ device' = "none"
  /\ PowerOff
  /\ clk > -MaxClk /\ clk' = clk - 1
  /\ UNCHANGED <<link, gpio, users, mode, oscdis, forceQuit, sleeping,
                 transceiver, leaked, hwMode, faults>>

Next ==
  \/ Probe \/ HwProbe \/ ProbeDone \/ ProbeFails \/ ProbeAborts
  \/ Open \/ OpenWake \/ OpenOsc \/ OpenPoll \/ OpenModes \/ OpenClean \/ Stop \/ BusOff
  \/ GpioFreeSleeps \/ \E g \in Gpios : GpioRequest(g) \/ GpioFree(g)
  \/ Suspend \/ Resume \/ Remove

Spec == Init /\ [][Next]_vars

-----------------------------------------------------------------------------
TypeOK ==
  /\ device \in {"none", "probing", "probed", "bound"}
  /\ link \in {"down", "waking", "setup", "poll", "modes", "clean", "up"}
  /\ requested \subseteq Gpios /\ users \subseteq Users
  /\ mode \in Modes /\ oscdis \in BOOLEAN /\ forceQuit \in BOOLEAN
  /\ suspended \in BOOLEAN /\ afterSuspend \in BOOLEAN
  /\ freeing \in BOOLEAN /\ raced \in BOOLEAN
  /\ clk \in -MaxClk .. MaxClk /\ power \in 0 .. 1 + MaxSpiFaults /\ transceiver \in 0 .. 1
  /\ hwMode \in Modes /\ resumed \in BOOLEAN /\ leaked \in 0 .. MaxSpiFaults /\ faults \in 0 .. MaxSpiFaults

(* The supplies are switched on and off in pairs: the controller has power *)
(* from probe to remove but for a suspend, and the transceiver while the   *)
(* interface is open, whatever fails in between; a probe that aborts is    *)
(* the one exception.                                                      *)
SuppliesPaired ==
  /\ power = leaked + IF device # "none" /\ ~suspended THEN 1 ELSE 0
  /\ transceiver = IF link # "down" /\ ~suspended THEN 1 ELSE 0

(* clk_user_mask names those who asked for the clock: every requested GPIO *)
(* line, and the interface only while it is being opened or is up.         *)
UsersAreHolders ==
  device = "bound" =>
    /\ users \ {"CAN"} = requested
    /\ "CAN" \in users => link # "down"

(* What start_clock compares, and setup_osc waits for, agrees unless a     *)
(* transfer failed, a suspend cut the power or a GPIO line was freed while *)
(* the controller was being set up: otherwise opening the interface is     *)
(* never refused for "Controller clock register in unexpected state" or    *)
(* "Clock did not lock within the timeout period".                         *)
NeverRefused == faults = 0 /\ ~resumed /\ ~raced => link # "clean"

(* "wake from sleep if necessary" in mcp25xxfd_open: the controller is     *)
(* awake as long as the interface is up, whoever else uses it.             *)
AwakeWhileUp == link = "up" /\ ~forceQuit => hwMode # "sleep"
=============================================================================
