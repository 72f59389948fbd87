----------------------------- MODULE Mcp2515Usb -----------------------------
(***************************************************************************)
(* The transmit path of the mcp2515-usb driver: start_xmit takes one of    *)
(* MAX_TX_URBS contexts, keeps the frame in the echo slot of that number   *)
(* and hands a URB to the USB core, which calls the driver back when the   *)
(* URB is done.  The callback runs beside start_xmit; the network stack    *)
(* serialises start_xmit and stops it before ndo_stop, the USB core calls  *)
(* back once at a time and in the order of submission, unless URBs are     *)
(* killed: that goes from the youngest to the oldest, while the oldest may *)
(* still end by itself, and waits for their callbacks.                     *)
(***************************************************************************)
EXTENDS Integers, Sequences, FiniteSets, SequencesExt, FiniteSetsExt

CONSTANTS
  MaxTxUrbs,  (* MAX_TX_URBS                                               *)
  MaxFrames,  (* bound: frames the stack hands over                        *)
  MaxFaults,  (* bound: allocations and submissions that fail              *)
  MaxOpens    (* bound: how often the interface is opened or restarted     *)

ASSUME Mcp2515UsbAssumption ==
  /\ MaxTxUrbs \in Nat \ {0}
  /\ MaxFrames \in Nat /\ MaxFaults \in Nat /\ MaxOpens \in Nat

Contexts == 0 .. MaxTxUrbs - 1
Frames == 1 .. MaxFrames
None == 0

VARIABLES
  link,      (* "down", "up" or "closing"                                 *)
  present,   (* netif_device_present                                      *)
  unplugged, (* the USB core knows that the device is gone                *)
  busOff,    (* can_bus_off was called and no restart since               *)
  queue,     (* "running" or "stopped"                                    *)
  taken,     (* contexts whose echo_index is not MAX_TX_URBS              *)
  echo,      (* the frame in each echo slot                               *)
  active,    (* active_tx_urbs                                            *)
  urbs,      (* URBs in the USB core: [context, frame], oldest first      *)
  xmit,      (* start_xmit: where it is, its frame and its context        *)
  callback,  (* write_int_callback: where it is and its context           *)
  next,      (* history: the next frame of the stack                      *)
  confirmed, (* history: frames looped back by can_get_echo_skb           *)
  killed,    (* history: frames of URBs killed while an older one was left *)
  faults,    (* history: what has failed so far                           *)
  opens      (* history: how often the interface was opened or restarted  *)

vars == <<link, present, unplugged, busOff, queue, taken, echo, active, urbs,
          xmit, callback, next, confirmed, killed, faults, opens>>
device == <<link, present, unplugged, busOff, opens>>
looped == <<confirmed, killed>>
history == <<next, looped, faults>>

Idle == [pc |-> "idle", frame |-> None, context |-> 0]
NoEcho == [c \in Contexts |-> None]

Init ==
  /\ link = "down" /\ present = TRUE /\ unplugged = FALSE /\ busOff = FALSE
  /\ queue = "stopped"
  /\ taken = {} /\ echo = NoEcho /\ active = 0 /\ urbs = <<>>
  /\ xmit = Idle /\ callback = [pc |-> "idle", context |-> 0]
  /\ next = 1 /\ confirmed = <<>> /\ killed = {} /\ faults = 0 /\ opens = 0

Fault == faults < MaxFaults /\ faults' = faults + 1

-----------------------------------------------------------------------------
(* mcp2515dm_bm_start_xmit.                                                *)

Ready == link = "up" /\ present /\ queue = "running" /\ xmit.pc = "idle"
FreeContexts == Contexts \ taken

(* No memory for the URB or its buffer: the frame is dropped.              *)
XmitNoMem ==
  /\ Ready /\ next \in Frames
  /\ Fault
  /\ next' = next + 1
  /\ UNCHANGED <<device, queue, taken, echo, active, urbs, xmit, callback,
                 looped>>

(* The first free context; without one the frame is given back to the      *)
(* stack and nothing changes.                                              *)
FirstFree == Min(FreeContexts)

XmitTake ==
  /\ Ready /\ next \in Frames
  /\ FreeContexts # {}
  /\ taken' = taken \cup {FirstFree}
  /\ echo' = [echo EXCEPT ![FirstFree] = IF @ = None THEN next ELSE @]
  /\ active' = active + 1
  /\ xmit' = [pc |-> "submit", frame |-> next, context |-> FirstFree]
  /\ next' = next + 1
  /\ UNCHANGED <<device, queue, urbs, callback, looped, faults>>

XmitSubmit ==
  /\ xmit.pc = "submit" /\ ~unplugged
  /\ urbs' = Append(urbs, [context |-> xmit.context, frame |-> xmit.frame])
  /\ xmit' = [xmit EXCEPT !.pc = "check"]
  /\ UNCHANGED <<device, queue, taken, echo, active, callback, history>>

(* A device that is gone is detached, which stops the queue.               *)
Detached ==
  /\ present' = FALSE
  /\ queue' = IF present THEN "stopped" ELSE queue

(* The submission fails, with ENODEV when the device is gone: the echo slot*)
(* is freed, the context stays taken.                                      *)
StillCounted == active
UncountedTwice == active - 2
Uncounted == active - 1

XmitFails ==
  /\ xmit.pc = "submit"
  /\ \/ Fault /\ UNCHANGED <<present, queue>>
     \/ Fault /\ Detached
     \/ unplugged /\ Detached /\ UNCHANGED faults
  /\ echo' = [echo EXCEPT ![xmit.context] = None]
  /\ active' = Uncounted
  /\ xmit' = Idle
  /\ UNCHANGED <<link, unplugged, busOff, opens, taken, urbs, callback, next,
                 looped>>

XmitCheck ==
  /\ xmit.pc = "check"
  /\ xmit' = IF active >= MaxTxUrbs THEN [xmit EXCEPT !.pc = "stop"] ELSE Idle
  /\ UNCHANGED <<device, queue, taken, echo, active, urbs, callback, history>>

XmitStop ==
  /\ xmit.pc = "stop"
  /\ queue' = "stopped"
  /\ xmit' = Idle
  /\ UNCHANGED <<device, taken, echo, active, urbs, callback, history>>

-----------------------------------------------------------------------------
(* mcp2515dm_bm_write_int_callback; a URB that is killed or whose transfer *)
(* failed gets the same treatment as one that the device took.             *)

AllStages == {"idle", "echo", "release", "wake"}
ReleaseFirst ==
  [done |-> "release", release |-> "echo", echo |-> "wake", wake |-> "idle"]
Stages ==
  [done |-> "echo", echo |-> "release", release |-> "wake", wake |-> "idle"]
Advance == callback' = [callback EXCEPT !.pc = Stages[@]]

(* usb_kill_anchored_urbs takes the youngest URB first; what the USB core  *)
(* does to the URBs of a device that is gone is left open in the same way. *)
Killing == link = "closing" \/ unplugged

UrbDone ==
  /\ callback.pc = "idle" /\ urbs # <<>>
  /\ \/ /\ urbs' = Tail(urbs)
        /\ callback' = [pc |-> IF present THEN Stages.done ELSE "idle",
                        context |-> Head(urbs).context]
        /\ UNCHANGED killed
     \/ /\ Killing /\ Len(urbs) > 1
        /\ urbs' = Front(urbs)
        /\ callback' = [pc |-> IF present THEN Stages.done ELSE "idle",
                        context |-> Last(urbs).context]
        /\ killed' = killed \cup {Last(urbs).frame}
  /\ active' = active - 1
  /\ UNCHANGED <<device, queue, taken, echo, xmit, next, confirmed, faults>>

NotEmptied == echo
Emptied == [echo EXCEPT ![callback.context] = None]
CallbackEcho ==
  /\ callback.pc = "echo"
  /\ confirmed' = IF echo[callback.context] = None THEN confirmed
                  ELSE Append(confirmed, echo[callback.context])
  /\ echo' = Emptied
  /\ Advance
  /\ UNCHANGED <<device, queue, taken, active, urbs, xmit, next, killed,
                 faults>>

CallbackRelease ==
  /\ callback.pc = "release"
  /\ taken' = taken \ {callback.context}
  /\ Advance
  /\ UNCHANGED <<device, queue, echo, active, urbs, xmit, history>>

CallbackWake ==
  /\ callback.pc = "wake"
  /\ queue' = "running"
  /\ Advance
  /\ UNCHANGED <<device, taken, echo, active, urbs, xmit, history>>

-----------------------------------------------------------------------------
(* mcp2515dm_bm_open; one that fails changes nothing here.                 *)
Open ==
  /\ link = "down" /\ present /\ ~unplugged
  /\ opens < MaxOpens /\ opens' = opens + 1
  /\ link' = "up" /\ busOff' = FALSE /\ queue' = "running"
  /\ UNCHANGED <<present, unplugged, taken, echo, active, urbs, xmit, callback,
                 history>>

(* The device is unplugged: what it has of URBs ends with an error, another *)
(* one is refused; mcp2515dm_bm_disconnect closes the interface later.      *)
Unplug ==
  /\ ~unplugged
  /\ unplugged' = TRUE
  /\ UNCHANGED <<link, present, busOff, opens, queue, taken, echo, active, urbs,
                 xmit, callback, history>>

(* mcp2515dm_bm_read_int_callback cannot submit its URB again: the device  *)
(* is gone.                                                                *)
Detach ==
  /\ link # "down" /\ present
  /\ Fault
  /\ Detached
  /\ UNCHANGED <<link, unplugged, busOff, opens, taken, echo, active, urbs, xmit,
                 callback, next, looped>>

(* A status message reports bus-off; the CAN core restarts: it flushes the *)
(* echo slots and calls set_mode, which opens the controller again.        *)
BusOff ==
  /\ link = "up" /\ present /\ ~busOff
  /\ busOff' = TRUE
  /\ UNCHANGED <<link, present, unplugged, opens, queue, taken, echo, active, urbs,
                 xmit, callback, history>>

Restart ==
  /\ link = "up" /\ busOff
  /\ opens < MaxOpens /\ opens' = opens + 1
  /\ busOff' = FALSE
  /\ echo' = NoEcho
  /\ UNCHANGED <<link, present, unplugged, queue, taken, active, urbs, xmit,
                 callback, history>>

(* mcp2515dm_bm_close: stop the queue, kill the URBs, reset the contexts;  *)
(* close_candev flushes the echo slots.                                    *)
Close ==
  /\ link = "up" /\ xmit.pc = "idle"
  /\ link' = "closing" /\ queue' = "stopped"
  /\ UNCHANGED <<present, unplugged, busOff, opens, taken, echo, active, urbs, xmit,
                 callback, history>>

Closed ==
  /\ link = "closing" /\ urbs = <<>> /\ callback.pc = "idle"
  /\ link' = "down"
  /\ active' = 0 /\ taken' = {} /\ echo' = NoEcho
  /\ UNCHANGED <<present, unplugged, busOff, opens, queue, urbs, xmit, callback,
                 history>>

Callback == UrbDone \/ CallbackEcho \/ CallbackRelease \/ CallbackWake
Xmit ==
  \/ XmitNoMem \/ XmitTake \/ XmitSubmit \/ XmitFails \/ XmitCheck \/ XmitStop

Next ==
  \/ Xmit \/ Callback
  \/ Open \/ Unplug \/ Detach \/ BusOff \/ Restart \/ Close \/ Closed

Spec == Init /\ [][Next]_vars

-----------------------------------------------------------------------------
(* Every variable has its type; active_tx_urbs does not become negative.   *)
TypeOK ==
  /\ link \in {"down", "up", "closing"} /\ present \in BOOLEAN
  /\ unplugged \in BOOLEAN /\ busOff \in BOOLEAN
  /\ queue \in {"running", "stopped"}
  /\ taken \subseteq Contexts /\ echo \in [Contexts -> Frames \cup {None}]
  /\ active \in Nat
  /\ urbs \in Seq([context : Contexts, frame : Frames])
  /\ xmit \in [pc : {"idle", "submit", "check", "stop"},
               frame : Frames \cup {None}, context : Contexts]
  /\ callback \in [pc : AllStages, context : Contexts]
  /\ next \in Nat \ {0}
  /\ confirmed \in Seq(Frames) /\ killed \subseteq Frames
  /\ faults \in Nat /\ opens \in Nat

(* active_tx_urbs, by which start_xmit decides to stop the queue, counts   *)
(* the URBs the USB core has and the one start_xmit is about to submit,    *)
(* whatever fails, and is 0 when the interface is down.                    *)
ActiveCounts ==
  /\ active = Len(urbs) + IF xmit.pc = "submit" THEN 1 ELSE 0
  /\ link = "down" => active = 0

(* The contexts of the URBs, of start_xmit and of the callback are taken   *)
(* and different from each other, and an echo slot holds the frame of its  *)
(* own URB or, after a restart, nothing; a free context has no frame: the  *)
(* stack is never told of another frame than the one that was transmitted. *)
ContextsInUse ==
  {urbs[i].context : i \in 1 .. Len(urbs)}
    \cup (IF xmit.pc = "submit" THEN {xmit.context} ELSE {})
    \cup (IF callback.pc \in {"echo", "release"} THEN {callback.context} ELSE {})

EchoMatches ==
  /\ ContextsInUse \subseteq taken
  /\ \A c \in Contexts \ taken : echo[c] = None
  /\ \A i, j \in 1 .. Len(urbs) : urbs[i].context = urbs[j].context => i = j
  /\ \A i \in 1 .. Len(urbs) :
       /\ echo[urbs[i].context] \in {None, urbs[i].frame}
       /\ xmit.pc = "submit" => urbs[i].context # xmit.context
       /\ callback.pc \in {"echo", "release"} => urbs[i].context # callback.context
  /\ xmit.pc = "submit" =>
       /\ echo[xmit.context] \in {None, xmit.frame}
       /\ callback.pc \in {"echo", "release"} => xmit.context # callback.context

(* Frames are looped back in the order in which the stack sent them, and   *)
(* none twice, however contexts and echo slots are used again.  Only a URB *)
(* that was killed while an older one was left, by close or because the    *)
(* device is gone, has its frame looped back before older ones: the        *)
(* callback loops it back whatever its status is.                          *)
Before(f, g) == f # g /\ (f < g \/ f \in killed)

LoopedBackInOrder ==
  \A i, j \in 1 .. Len(confirmed) : i < j => Before(confirmed[i], confirmed[j])
=============================================================================
