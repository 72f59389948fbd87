-------------------------- MODULE Mcp2515Usb_proofs --------------------------
(***************************************************************************)
(* Proofs about Mcp2515Usb, for any number of contexts, frames, failures   *)
(* and opens: active_tx_urbs counts the URBs, contexts and echo slots      *)
(* belong to the URBs that use them, and frames are looped back in order.  *)
(***************************************************************************)
EXTENDS Mcp2515Usb, ProofLemmas

(* What the three properties need in addition: start_xmit does not run     *)
(* while the interface is being closed and has a frame while it runs,      *)
(* nothing is left when it is down,                                        *)
(* and the callback has emptied the echo slot before it frees the context. *)
Quiet ==
  /\ link # "up" => xmit.pc = "idle"
  /\ xmit.pc # "idle" => xmit.frame \in Frames
  /\ link = "down" => urbs = <<>> /\ callback.pc = "idle"
  /\ callback.pc = "release" => echo[callback.context] = None

UsbInv == TypeOK /\ ActiveCounts /\ EchoMatches /\ Quiet

Urb == [context : Contexts, frame : Frames]

(* The first free context is a free context.                               *)
LEMMA FirstFreeIsFree ==
  ASSUME FreeContexts # {}, TypeOK
  PROVE  FirstFree \in Contexts /\ FirstFree \notin taken
<1>1. FreeContexts \subseteq Nat
  BY Mcp2515UsbAssumption DEF FreeContexts, Contexts
<1> QED BY <1>1, MinOfNat DEF FirstFree, FreeContexts

(* The URB at place n is done; it is the oldest or, when URBs are killed,   *)
(* the youngest.                                                           *)
Without(n, i) == IF i < n THEN i ELSE i + 1

IsDone(n) ==
  /\ n \in 1 .. Len(urbs) /\ urbs[n] \in Urb
  /\ urbs' \in Seq(Urb) /\ Len(urbs') = Len(urbs) - 1 /\ Len(urbs) \in Nat
  /\ \A i \in 1 .. Len(urbs') : urbs'[i] = urbs[Without(n, i)]
  /\ callback' = [pc |-> IF present THEN "echo" ELSE "idle", context |-> urbs[n].context]
  /\ killed' = IF n = 1 THEN killed ELSE killed \cup {urbs[n].frame}

LEMMA DoneUrb ==
  ASSUME TypeOK, UrbDone
  PROVE  \E n \in {1, Len(urbs)} : IsDone(n)
<1>1. urbs \in Seq(Urb) /\ urbs # <<>> /\ Len(urbs) \in Nat \ {0}
  <2>1. urbs \in Seq(Urb) /\ urbs # <<>>
    BY DEF TypeOK, Urb, UrbDone
  <2> QED
    BY <2>1, EmptySeq, LenProperties
<1>2. \A i \in 1 .. Len(urbs) : urbs[i] \in Urb
  BY <1>1, ElementOfSeq
<1>3. CASE /\ urbs' = Tail(urbs) /\ killed' = killed
           /\ callback' = [pc |-> IF present THEN "echo" ELSE "idle",
                           context |-> Head(urbs).context]
  <2>1. /\ urbs' \in Seq(Urb) /\ Head(urbs) = urbs[1] /\ Len(urbs') = Len(urbs) - 1
        /\ \A i \in 1 .. Len(urbs') : urbs'[i] = urbs[i + 1]
    BY <1>1, <1>3, HeadTailProperties
  <2>2. \A i \in 1 .. Len(urbs') : Without(1, i) = i + 1
    BY <2>1, <1>1 DEF Without
  <2>3. 1 \in 1 .. Len(urbs)
    BY <1>1
  <2> QED
    BY <1>1, <1>2, <1>3, <2>1, <2>2, <2>3 DEF IsDone
<1>4. CASE /\ Len(urbs) > 1 /\ urbs' = Front(urbs)
           /\ killed' = killed \cup {Last(urbs).frame}
           /\ callback' = [pc |-> IF present THEN "echo" ELSE "idle",
                           context |-> Last(urbs).context]
  <2>1. urbs' = [i \in 1 .. Len(urbs) - 1 |-> urbs[i]] /\ Last(urbs) = urbs[Len(urbs)]
    BY <1>1, <1>4 DEF Front, Last
  <2>2. /\ urbs' \in Seq(Urb) /\ Len(urbs') = Len(urbs) - 1
        /\ \A i \in 1 .. Len(urbs') : urbs'[i] = urbs[i]
    BY <1>1, <1>2, <1>4, <2>1
  <2>3. \A i \in 1 .. Len(urbs') : Without(Len(urbs), i) = i
    BY <2>2, <1>1 DEF Without
  <2>4. Len(urbs) \in 1 .. Len(urbs) /\ Len(urbs) # 1
    <3>1. \A m \in Nat : m > 1 => m \in 1 .. m /\ m # 1
      OBVIOUS
    <3> QED
      BY <1>1, <1>4, <3>1
  <2> QED
    BY <1>1, <1>2, <1>4, <2>1, <2>2, <2>3, <2>4 DEF IsDone
<1> QED
  BY <1>3, <1>4 DEF UrbDone, Stages

(* Every variable keeps its type; the counter is never decremented below 0. *)
LEMMA TypeStep == UsbInv /\ [Next]_vars => TypeOK'
<1> SUFFICES ASSUME UsbInv, [Next]_vars PROVE TypeOK'
  OBVIOUS
<1> USE Mcp2515UsbAssumption DEF UsbInv
<1>1. CASE XmitNoMem
  BY <1>1 DEF XmitNoMem, TypeOK, device, looped, Fault, Ready
<1>2. CASE XmitTake
  <2>1. FirstFree \in Contexts /\ next \in Frames
    BY <1>2, FirstFreeIsFree DEF XmitTake
  <2>2. taken' \subseteq Contexts
    BY <1>2, <2>1 DEF XmitTake, TypeOK
  <2>3. xmit' \in [pc : {"idle", "submit", "check", "stop"},
               frame : Frames \cup {None}, context : Contexts]
    BY <1>2, <2>1 DEF XmitTake
  <2>4. echo' \in [Contexts -> Frames \cup {None}]
    BY <1>2, <2>1 DEF XmitTake, TypeOK
  <2>5. active' \in Nat /\ next' \in Nat \ {0}
    BY <1>2 DEF XmitTake, TypeOK
  <2> QED
    BY <1>2, <2>2, <2>3, <2>4, <2>5 DEF XmitTake, TypeOK, device, looped
<1>3. CASE XmitSubmit
  <2>1. [context |-> xmit.context, frame |-> xmit.frame] \in Urb
    BY <1>3 DEF XmitSubmit, Quiet, TypeOK, Urb
  <2>2. urbs' \in Seq(Urb)
    BY <1>3, <2>1, AppendType DEF XmitSubmit, TypeOK, Urb
  <2>3. xmit' \in [pc : {"idle", "submit", "check", "stop"},
               frame : Frames \cup {None}, context : Contexts]
    BY <1>3 DEF XmitSubmit, TypeOK
  <2> QED
    BY <1>3, <2>2, <2>3 DEF XmitSubmit, TypeOK, device, history, looped, Urb
<1>4. CASE XmitFails
  <2>1. echo' \in [Contexts -> Frames \cup {None}]
    BY <1>4 DEF XmitFails, TypeOK
  <2>2. active' \in Nat
    BY <1>4 DEF XmitFails, Uncounted, ActiveCounts, TypeOK
  <2>3. xmit' \in [pc : {"idle", "submit", "check", "stop"},
               frame : Frames \cup {None}, context : Contexts]
    BY <1>4 DEF XmitFails, Idle, Contexts
  <2>4. faults' \in Nat
    BY <1>4 DEF XmitFails, Fault, TypeOK
  <2>5. present' \in BOOLEAN
    BY <1>4, Zenon DEF XmitFails, Detached, TypeOK
  <2>6. queue' \in {"running", "stopped"}
    BY <1>4 DEF XmitFails, Detached, TypeOK
  <2> QED
    BY <1>4, <2>1, <2>2, <2>3, <2>4, <2>5, <2>6 DEF XmitFails, TypeOK, looped
<1>5. CASE XmitCheck
  <2>1. Idle \in [pc : {"idle", "submit", "check", "stop"},
               frame : Frames \cup {None}, context : Contexts]
    BY DEF Idle, Contexts
  <2>2. xmit' \in [pc : {"idle", "submit", "check", "stop"},
               frame : Frames \cup {None}, context : Contexts]
    BY <1>5, <2>1 DEF XmitCheck, TypeOK
  <2> QED
    BY <1>5, <2>2 DEF XmitCheck, TypeOK, device, history, looped
<1>6. CASE XmitStop
  BY <1>6 DEF XmitStop, TypeOK, device, history, looped, Idle, Contexts, None
<1>7. CASE UrbDone
  <2>1. PICK n \in {1, Len(urbs)} : IsDone(n)
    BY <1>7, DoneUrb
  <2>2. urbs' \in Seq(Urb) /\ active' \in Nat /\ urbs[n] \in Urb
    BY <1>7, <2>1 DEF UrbDone, IsDone, ActiveCounts, TypeOK
  <2>3. callback' \in [pc : AllStages, context : Contexts]
    BY <2>1, <2>2 DEF IsDone, AllStages, Urb
  <2>4. killed' \subseteq Frames
    BY <2>1, <2>2 DEF IsDone, Urb, TypeOK
  <2> QED
    BY <1>7, <2>2, <2>3, <2>4 DEF UrbDone, TypeOK, device, Urb
<1>8. CASE CallbackEcho
  <2>1. confirmed' \in Seq(Frames)
    <3>1. CASE echo[callback.context] = None
      BY <1>8, <3>1 DEF CallbackEcho, TypeOK
    <3>2. CASE echo[callback.context] # None
      <4>1. echo[callback.context] \in Frames
        BY <3>2 DEF TypeOK
      <4> QED
        BY <1>8, <3>2, <4>1, AppendType DEF CallbackEcho, TypeOK
    <3> QED
      BY <3>1, <3>2
  <2>2. echo' \in [Contexts -> Frames \cup {None}]
    BY <1>8 DEF CallbackEcho, Emptied, TypeOK
  <2>3. callback' \in [pc : AllStages, context : Contexts]
    BY <1>8 DEF CallbackEcho, Advance, Stages, AllStages, TypeOK
  <2> QED
    BY <1>8, <2>1, <2>2, <2>3 DEF CallbackEcho, TypeOK, device
<1>9. CASE CallbackRelease
  <2>1. taken' \subseteq Contexts
    BY <1>9 DEF CallbackRelease, TypeOK
  <2>2. callback' \in [pc : AllStages, context : Contexts]
    BY <1>9 DEF CallbackRelease, Advance, Stages, AllStages, TypeOK
  <2> QED
    BY <1>9, <2>1, <2>2 DEF CallbackRelease, TypeOK, device, history, looped
<1>10. CASE CallbackWake
  <2>1. queue' \in {"running", "stopped"}
    BY <1>10 DEF CallbackWake, TypeOK
  <2>2. callback' \in [pc : AllStages, context : Contexts]
    BY <1>10 DEF CallbackWake, Advance, Stages, AllStages, TypeOK
  <2> QED
    BY <1>10, <2>1, <2>2 DEF CallbackWake, TypeOK, device, history, looped
<1>11. CASE Open
  <2>1. opens' \in Nat
    BY <1>11 DEF Open, TypeOK
  <2>2. busOff' \in BOOLEAN
    BY <1>11, Zenon DEF Open
  <2>3. link' \in {"down", "up", "closing"} /\ queue' \in {"running", "stopped"}
    BY <1>11 DEF Open
  <2> QED
    BY <1>11, <2>1, <2>2, <2>3 DEF Open, TypeOK, history, looped
<1>12. CASE Detach
  <2>1. faults' \in Nat
    BY <1>12 DEF Detach, Fault, TypeOK
  <2>2. present' \in BOOLEAN
    BY <1>12, Zenon DEF Detach, Detached
  <2>3. queue' \in {"running", "stopped"}
    BY <1>12 DEF Detach, Detached, TypeOK
  <2> QED
    BY <1>12, <2>1, <2>2, <2>3 DEF Detach, TypeOK, looped
<1>13. CASE BusOff
  <2>1. busOff' \in BOOLEAN
    BY <1>13, Zenon DEF BusOff
  <2> QED
    BY <1>13, <2>1 DEF BusOff, TypeOK, history, looped
<1>14. CASE Restart
  <2>1. opens' \in Nat
    BY <1>14 DEF Restart, TypeOK
  <2>2. busOff' \in BOOLEAN
    BY <1>14, Zenon DEF Restart
  <2>3. echo' \in [Contexts -> Frames \cup {None}]
    BY <1>14 DEF Restart, NoEcho
  <2> QED
    BY <1>14, <2>1, <2>2, <2>3 DEF Restart, TypeOK, history, looped
<1>15. CASE Close
  BY <1>15 DEF Close, TypeOK, history, looped
<1>16. CASE Closed
  BY <1>16 DEF Closed, TypeOK, history, looped, NoEcho, Contexts, Frames, None
<1>17. CASE UNCHANGED vars
  BY <1>17 DEF vars, TypeOK, device, history, looped
<1>18. CASE Unplug
  <2>1. unplugged' \in BOOLEAN
    BY <1>18, Zenon DEF Unplug
  <2> QED
    BY <1>18, <2>1 DEF Unplug, TypeOK, history, looped
<1> QED
  BY <1>1, <1>2, <1>3, <1>4, <1>5, <1>6, <1>7, <1>8,
     <1>9, <1>10, <1>11, <1>12, <1>13, <1>14, <1>15, <1>16, <1>17, <1>18
     DEF Next, Xmit, Callback

(* Every URB is counted once.                                              *)
LEMMA CountStep == UsbInv /\ [Next]_vars => ActiveCounts'
<1> SUFFICES ASSUME UsbInv, [Next]_vars PROVE ActiveCounts'
  OBVIOUS
<1> USE Mcp2515UsbAssumption DEF UsbInv
<1>1. CASE XmitNoMem
  BY <1>1 DEF XmitNoMem, ActiveCounts, device, looped, Ready
<1>2. CASE XmitTake
  BY <1>2 DEF XmitTake, ActiveCounts, device, Ready, None
<1>3. CASE XmitSubmit
  BY <1>3 DEF XmitSubmit, ActiveCounts, device, history, looped
<1>4. CASE XmitFails
  BY <1>4 DEF XmitFails, ActiveCounts, Idle, None, Uncounted, Detached
<1>5. CASE XmitCheck
  BY <1>5 DEF XmitCheck, ActiveCounts, device, history, looped, Idle
<1>6. CASE XmitStop
  BY <1>6 DEF XmitStop, ActiveCounts, device, history, looped, Idle
<1>7. CASE UrbDone
  <2>1. PICK n \in {1, Len(urbs)} : IsDone(n)
    BY <1>7, DoneUrb
  <2> QED
    BY <1>7, <2>1 DEF UrbDone, IsDone, ActiveCounts, device
<1>8. CASE CallbackEcho
  BY <1>8 DEF CallbackEcho, ActiveCounts, device, Advance, Emptied, None
<1>9. CASE CallbackRelease
  BY <1>9 DEF CallbackRelease, ActiveCounts, device, history, looped, Advance
<1>10. CASE CallbackWake
  BY <1>10 DEF CallbackWake, ActiveCounts, device, history, looped, Advance
<1>11. CASE Open
  BY <1>11 DEF Open, ActiveCounts, history, looped
<1>12. CASE Detach
  BY <1>12 DEF Detach, ActiveCounts, Detached
<1>13. CASE BusOff
  BY <1>13 DEF BusOff, ActiveCounts, history, looped
<1>14. CASE Restart
  BY <1>14 DEF Restart, ActiveCounts, history, looped, NoEcho
<1>15. CASE Close
  BY <1>15 DEF Close, ActiveCounts, history, looped
<1>16. CASE Closed
  BY <1>16 DEF Closed, ActiveCounts, history, looped, NoEcho, Quiet
<1>17. CASE UNCHANGED vars
  BY <1>17 DEF vars, ActiveCounts, device, history, looped
<1>18. CASE Unplug
  BY <1>18 DEF Unplug, ActiveCounts
<1> QED
  BY <1>1, <1>2, <1>3, <1>4, <1>5, <1>6, <1>7, <1>8,
     <1>9, <1>10, <1>11, <1>12, <1>13, <1>14, <1>15, <1>16, <1>17, <1>18
     DEF Next, Xmit, Callback

(* The interface is quiet when it is down.                                 *)
LEMMA QuietStep == UsbInv /\ [Next]_vars => Quiet'
<1> SUFFICES ASSUME UsbInv, [Next]_vars PROVE Quiet'
  OBVIOUS
<1> USE Mcp2515UsbAssumption DEF UsbInv
<1>1. CASE XmitNoMem
  BY <1>1 DEF XmitNoMem, Quiet, device, looped, Ready
<1>2. CASE XmitTake
  <2>1. FirstFree \in Contexts /\ FirstFree \notin taken /\ next \in Frames
    BY <1>2, FirstFreeIsFree DEF XmitTake
  <2>2. link' = "up" /\ callback' = callback
    BY <1>2 DEF XmitTake, Ready, device
  <2>3. callback.pc = "release" => echo'[callback.context] = None
    <3> SUFFICES ASSUME callback.pc = "release" PROVE echo'[callback.context] = None
      OBVIOUS
    <3>1. callback.context # FirstFree
      BY <2>1 DEF EchoMatches, ContextsInUse
    <3> QED
      BY <1>2, <3>1, <2>1 DEF XmitTake, Quiet, TypeOK
  <2> QED
    BY <1>2, <2>1, <2>2, <2>3 DEF XmitTake, Quiet
<1>3. CASE XmitSubmit
  BY <1>3 DEF XmitSubmit, Quiet, device, history, looped
<1>4. CASE XmitFails
  BY <1>4 DEF XmitFails, Quiet, Idle, None, Uncounted, Detached
<1>5. CASE XmitCheck
  BY <1>5 DEF XmitCheck, Quiet, device, history, looped, Idle
<1>6. CASE XmitStop
  BY <1>6 DEF XmitStop, Quiet, device, history, looped, Idle
<1>7. CASE UrbDone
  <2>1. PICK n \in {1, Len(urbs)} : IsDone(n)
    BY <1>7, DoneUrb
  <2> QED
    BY <1>7, <2>1 DEF UrbDone, IsDone, Quiet, device
<1>8. CASE CallbackEcho
  BY <1>8 DEF CallbackEcho, Quiet, device, Advance, Emptied, None, TypeOK, Stages
<1>9. CASE CallbackRelease
  BY <1>9 DEF CallbackRelease, Quiet, device, history, looped, Advance, Stages, TypeOK
<1>10. CASE CallbackWake
  BY <1>10 DEF CallbackWake, Quiet, device, history, looped, Advance, Stages, TypeOK
<1>11. CASE Open
  BY <1>11 DEF Open, Quiet, history, looped
<1>12. CASE Detach
  BY <1>12 DEF Detach, Quiet, Detached
<1>13. CASE BusOff
  BY <1>13 DEF BusOff, Quiet, history, looped
<1>14. CASE Restart
  BY <1>14 DEF Restart, Quiet, history, looped, NoEcho, TypeOK, None
<1>15. CASE Close
  BY <1>15 DEF Close, Quiet, history, looped
<1>16. CASE Closed
  BY <1>16 DEF Closed, Quiet, history, looped, NoEcho
<1>17. CASE UNCHANGED vars
  BY <1>17 DEF vars, Quiet, device, history, looped
<1>18. CASE Unplug
  BY <1>18 DEF Unplug, Quiet
<1> QED
  BY <1>1, <1>2, <1>3, <1>4, <1>5, <1>6, <1>7, <1>8,
     <1>9, <1>10, <1>11, <1>12, <1>13, <1>14, <1>15, <1>16, <1>17, <1>18
     DEF Next, Xmit, Callback

(* Contexts and echo slots stay with their URBs.                           *)
LEMMA EchoStep == UsbInv /\ [Next]_vars => EchoMatches'
<1> SUFFICES ASSUME UsbInv, [Next]_vars PROVE EchoMatches'
  OBVIOUS
<1> USE Mcp2515UsbAssumption DEF UsbInv
<1>1. CASE XmitNoMem
  BY <1>1 DEF XmitNoMem, EchoMatches, ContextsInUse, device, looped, Ready
<1>2. CASE XmitTake
  <2>1. FirstFree \in Contexts /\ FirstFree \notin taken /\ next \in Frames
    BY <1>2, FirstFreeIsFree DEF XmitTake
  <2> DEFINE F == FirstFree
  <2> HIDE DEF F
  <2>2. /\ taken' = taken \cup {F} /\ echo' = [echo EXCEPT ![F] = IF echo[F] = None THEN next ELSE echo[F]]
        /\ xmit' = [pc |-> "submit", frame |-> next, context |-> F]
        /\ xmit.pc = "idle" /\ urbs' = urbs /\ callback' = callback
    BY <1>2 DEF XmitTake, Ready, F
  <2>3. F \in Contexts /\ F \notin taken /\ echo[F] = None
    BY <2>1 DEF F, EchoMatches
  <2>4. F \notin ContextsInUse /\ ContextsInUse \subseteq taken
    BY <2>3 DEF EchoMatches
  <2>5. ContextsInUse' \subseteq taken'
    BY <2>2, <2>4 DEF ContextsInUse
  <2>6. \A c \in Contexts \ taken' : echo'[c] = None
    BY <2>2, <2>3 DEF EchoMatches, TypeOK
  <2>7. \A i \in 1 .. Len(urbs) : urbs[i].context \in Contexts /\ urbs[i].context # F
    BY <2>4 DEF ContextsInUse, TypeOK
  <2>8. \A i \in 1 .. Len(urbs) : echo'[urbs[i].context] \in {None, urbs[i].frame}
    BY <2>2, <2>7 DEF EchoMatches, TypeOK
  <2>9. echo'[F] \in {None, next}
    BY <2>2, <2>3 DEF TypeOK
  <2>10. callback.pc \in {"echo", "release"} => F # callback.context
    BY <2>4 DEF ContextsInUse
  <2> QED
    BY <2>2, <2>5, <2>6, <2>7, <2>8, <2>9, <2>10 DEF EchoMatches
<1>3. CASE XmitSubmit
  <2> DEFINE u == [context |-> xmit.context, frame |-> xmit.frame]
  <2>1. /\ urbs' = Append(urbs, u) /\ xmit.pc = "submit" /\ xmit'.pc = "check"
        /\ taken' = taken /\ echo' = echo /\ callback' = callback
    BY <1>3 DEF XmitSubmit, TypeOK
  <2>2. u.context = xmit.context /\ u.frame = xmit.frame /\ u \in Urb
    BY <2>1 DEF Quiet, TypeOK, Urb
  <2> HIDE DEF u
  <2>3. urbs \in Seq(Urb)
    BY DEF TypeOK, Urb
  <2>4. /\ Len(urbs') = Len(urbs) + 1 /\ Len(urbs) \in Nat
        /\ urbs'[Len(urbs) + 1] = u
        /\ \A i \in 1 .. Len(urbs) : urbs'[i] = urbs[i]
    BY <2>1, <2>2, <2>3
  <2>5. \A i \in 1 .. Len(urbs') : i \in 1 .. Len(urbs) \/ i = Len(urbs) + 1
    BY <2>4
  <2>6. ContextsInUse' \subseteq taken'
    BY <2>1, <2>2, <2>4, <2>5 DEF ContextsInUse, EchoMatches
  <2>7. \A i, j \in 1 .. Len(urbs') : urbs'[i].context = urbs'[j].context => i = j
    BY <2>1, <2>2, <2>4, <2>5 DEF EchoMatches
  <2>8. \A i \in 1 .. Len(urbs') :
          /\ echo[urbs'[i].context] \in {None, urbs'[i].frame}
          /\ callback.pc \in {"echo", "release"} => urbs'[i].context # callback.context
    BY <2>1, <2>2, <2>4, <2>5 DEF EchoMatches
  <2> QED
    BY <2>1, <2>6, <2>7, <2>8 DEF EchoMatches
<1>4. CASE XmitFails
  BY <1>4 DEF XmitFails, EchoMatches, ContextsInUse, Idle, None, Uncounted, Detached
<1>5. CASE XmitCheck
  BY <1>5 DEF XmitCheck, EchoMatches, ContextsInUse, device, history, looped, Idle
<1>6. CASE XmitStop
  BY <1>6 DEF XmitStop, EchoMatches, ContextsInUse, device, history, looped, Idle
<1>7. CASE UrbDone
  <2>1. PICK n \in {1, Len(urbs)} : IsDone(n)
    BY <1>7, DoneUrb
  <2>2. /\ UNCHANGED <<taken, echo, xmit>> /\ callback.pc = "idle"
        /\ callback'.context = urbs[n].context /\ n \in 1 .. Len(urbs)
    BY <1>7, <2>1 DEF UrbDone, IsDone
  <2>3. \A i \in 1 .. Len(urbs') :
          /\ Without(n, i) \in 1 .. Len(urbs) /\ Without(n, i) # n
          /\ urbs'[i] = urbs[Without(n, i)]
    BY <2>1, <2>2 DEF IsDone, Without
  <2>4. \A i, j \in 1 .. Len(urbs') : Without(n, i) = Without(n, j) => i = j
    BY <2>1, <2>2 DEF IsDone, Without
  <2>5. ContextsInUse' \subseteq ContextsInUse
    BY <2>2, <2>3 DEF ContextsInUse
  <2>6. \A i, j \in 1 .. Len(urbs') : urbs'[i].context = urbs'[j].context => i = j
    BY <2>3, <2>4 DEF EchoMatches
  <2>7. \A i \in 1 .. Len(urbs') :
          /\ echo[urbs'[i].context] \in {None, urbs'[i].frame}
          /\ xmit.pc = "submit" => urbs'[i].context # xmit.context
          /\ urbs'[i].context # callback'.context
    BY <2>2, <2>3 DEF EchoMatches
  <2>8. xmit.pc = "submit" =>
          /\ echo[xmit.context] \in {None, xmit.frame}
          /\ xmit.context # callback'.context
    BY <2>2 DEF EchoMatches
  <2>9. ContextsInUse \subseteq taken /\ \A c \in Contexts \ taken : echo[c] = None
    BY DEF EchoMatches
  <2> QED
    BY <2>2, <2>5, <2>6, <2>7, <2>8, <2>9 DEF EchoMatches
<1>8. CASE CallbackEcho
  BY <1>8 DEF CallbackEcho, EchoMatches, ContextsInUse, device, Advance, Emptied, None, Stages, TypeOK
<1>9. CASE CallbackRelease
  BY <1>9 DEF CallbackRelease, EchoMatches, ContextsInUse, device, history, looped, Advance, TypeOK, Stages, Quiet
<1>10. CASE CallbackWake
  BY <1>10 DEF CallbackWake, EchoMatches, ContextsInUse, device, history, looped, Advance, Stages, TypeOK
<1>11. CASE Open
  BY <1>11 DEF Open, EchoMatches, ContextsInUse, history, looped
<1>12. CASE Detach
  BY <1>12 DEF Detach, EchoMatches, ContextsInUse, Detached
<1>13. CASE BusOff
  BY <1>13 DEF BusOff, EchoMatches, ContextsInUse, history, looped
<1>14. CASE Restart
  <2>1. /\ urbs' = urbs /\ xmit' = xmit /\ callback' = callback /\ taken' = taken
        /\ echo' = NoEcho
    BY <1>14 DEF Restart, history, looped
  <2>2. \A c \in Contexts : echo'[c] = None
    BY <2>1 DEF NoEcho
  <2>3. ContextsInUse' = ContextsInUse /\ ContextsInUse \subseteq Contexts
    BY <2>1 DEF ContextsInUse, EchoMatches, TypeOK
  <2>4. \A i \in 1 .. Len(urbs) : urbs[i].context \in Contexts
    BY <2>3 DEF ContextsInUse
  <2>5. xmit.context \in Contexts
    BY DEF TypeOK
  <2> QED
    BY <2>1, <2>2, <2>3, <2>4, <2>5 DEF EchoMatches
<1>15. CASE Close
  BY <1>15 DEF Close, EchoMatches, ContextsInUse, history, looped
<1>16. CASE Closed
  BY <1>16 DEF Closed, EchoMatches, ContextsInUse, history, looped, NoEcho, Quiet, TypeOK
<1>17. CASE UNCHANGED vars
  BY <1>17 DEF vars, EchoMatches, ContextsInUse, device, history, looped
<1>18. CASE Unplug
  BY <1>18 DEF Unplug, EchoMatches, ContextsInUse
<1> QED
  BY <1>1, <1>2, <1>3, <1>4, <1>5, <1>6, <1>7, <1>8,
     <1>9, <1>10, <1>11, <1>12, <1>13, <1>14, <1>15, <1>16, <1>17, <1>18
     DEF Next, Xmit, Callback

-----------------------------------------------------------------------------
LEMMA UsbInvAlways == Spec => []UsbInv
<1>1. Init => UsbInv
  <2>1. Init => TypeOK
    <3>1. 0 \in Contexts /\ Frames \subseteq Nat
      BY Mcp2515UsbAssumption DEF Contexts, Frames
    <3>2. NoEcho \in [Contexts -> Frames \cup {None}]
      BY DEF NoEcho
    <3>3. Idle \in [pc : {"idle", "submit", "check", "stop"},
                   frame : Frames \cup {None}, context : Contexts]
      BY <3>1 DEF Idle
    <3>4. [pc |-> "idle", context |-> 0] \in [pc : AllStages, context : Contexts]
      BY <3>1 DEF AllStages
    <3>5. <<>> \in Seq([context : Contexts, frame : Frames]) /\ <<>> \in Seq(Frames)
      OBVIOUS
    <3> SUFFICES ASSUME Init PROVE TypeOK
      OBVIOUS
    <3>6. /\ echo \in [Contexts -> Frames \cup {None}]
          /\ callback \in [pc : AllStages, context : Contexts]
          /\ xmit \in [pc : {"idle", "submit", "check", "stop"},
                      frame : Frames \cup {None}, context : Contexts]
      BY <3>2, <3>3, <3>4, Zenon DEF Init
    <3>7. /\ urbs \in Seq([context : Contexts, frame : Frames])
          /\ confirmed \in Seq(Frames)
      BY <3>5, Zenon DEF Init
    <3>8. active \in Nat /\ next \in Nat \ {0} /\ faults \in Nat /\ opens \in Nat
      BY DEF Init
    <3>9. /\ link \in {"down", "up", "closing"} /\ queue \in {"running", "stopped"}
          /\ present \in BOOLEAN /\ unplugged \in BOOLEAN /\ busOff \in BOOLEAN
          /\ killed \subseteq Frames /\ taken \subseteq Contexts
      BY Zenon DEF Init
    <3> QED BY <3>6, <3>7, <3>8, <3>9, Zenon DEF TypeOK
  <2>2. Init => ActiveCounts
    BY DEF Init, ActiveCounts, Idle
  <2>3. Init => EchoMatches
    BY DEF Init, EchoMatches, ContextsInUse, NoEcho, Idle
  <2>4. Init => Quiet
    BY DEF Init, Quiet, Idle
  <2> QED
    BY <2>1, <2>2, <2>3, <2>4, Zenon DEF UsbInv
<1>2. UsbInv /\ [Next]_vars => UsbInv'
  BY TypeStep, CountStep, QuietStep, EchoStep, Zenon DEF UsbInv
<1> QED BY <1>1, <1>2, PTL DEF Spec

(* active_tx_urbs is never decremented below 0, and every context, echo    *)
(* slot and stage of start_xmit and the callback is one of the driver's.   *)
THEOREM TypeCorrect == Spec => []TypeOK
<1>1. UsbInv => TypeOK
  BY DEF UsbInv
<1> QED BY <1>1, UsbInvAlways, PTL

(* active_tx_urbs counts the URBs of the USB core and of start_xmit,       *)
(* however transfers, submissions and allocations fail.                    *)
THEOREM UrbsCounted == Spec => []ActiveCounts
<1>1. UsbInv => ActiveCounts
  BY DEF UsbInv
<1> QED BY <1>1, UsbInvAlways, PTL

(* An echo slot holds the frame of the URB that has its context: what      *)
(* can_get_echo_skb loops back is the frame that was transmitted.          *)
THEOREM EchoesMatch == Spec => []EchoMatches
<1>1. UsbInv => EchoMatches
  BY DEF UsbInv
<1> QED BY <1>1, UsbInvAlways, PTL
-----------------------------------------------------------------------------
(* The order in which frames are looped back.                              *)

(* The frame the callback is about to loop back, if there is one.          *)
Reporting == IF callback.pc = "echo" THEN echo[callback.context] ELSE None
Submitting == xmit.pc = "submit"

(* The frames that were looped back, the one that the callback is about to *)
(* loop back, those of the URBs, the one start_xmit is about to submit and *)
(* the next one of the stack come in the order of the stack, but for the   *)
(* frames of killed URBs; a frame is in one place only.                    *)
LoopInv ==
  /\ \A i \in 1 .. Len(confirmed) :
       /\ confirmed[i] < next
       /\ Reporting # None => Before(confirmed[i], Reporting)
       /\ \A k \in 1 .. Len(urbs) : Before(confirmed[i], urbs[k].frame)
       /\ Submitting => confirmed[i] < xmit.frame
  /\ \A k \in 1 .. Len(urbs) :
       /\ Reporting # None => Before(Reporting, urbs[k].frame)
       /\ urbs[k].frame < next
       /\ Submitting => urbs[k].frame < xmit.frame
       /\ \A l \in 1 .. Len(urbs) : k < l => urbs[k].frame < urbs[l].frame
  /\ Reporting < next
  /\ Submitting => Reporting < xmit.frame /\ xmit.frame < next
  /\ LoopedBackInOrder

(* What TypeOK says of the frames in these places.                         *)
LEMMA LoopTypes ==
  ASSUME TypeOK
  PROVE  /\ next \in Nat \ {0} /\ Reporting \in Nat /\ xmit.frame \in Nat
         /\ Len(confirmed) \in Nat /\ Len(urbs) \in Nat
         /\ confirmed \in Seq(Frames) /\ urbs \in Seq(Urb)
         /\ \A i \in 1 .. Len(confirmed) : confirmed[i] \in Nat
         /\ \A k \in 1 .. Len(urbs) : urbs[k] \in Urb /\ urbs[k].frame \in Nat \ {0}
<1>1. Frames \subseteq Nat \ {0} /\ None = 0
  BY Mcp2515UsbAssumption DEF Frames, None
<1>2. next \in Nat \ {0} /\ confirmed \in Seq(Frames) /\ urbs \in Seq(Urb)
  BY DEF TypeOK, Urb
<1>3. Len(confirmed) \in Nat /\ Len(urbs) \in Nat
  BY <1>2, LenProperties
<1>4. xmit.frame \in Frames \cup {None} /\ Reporting \in Frames \cup {None}
  BY DEF TypeOK, Reporting
<1>5. \A i \in 1 .. Len(confirmed) : confirmed[i] \in Frames
  BY <1>2, ElementOfSeq
<1>6. \A k \in 1 .. Len(urbs) : urbs[k] \in Urb
  BY <1>2, ElementOfSeq
<1>7. \A k \in 1 .. Len(urbs) : urbs[k].frame \in Frames
  BY <1>6 DEF Urb
<1> QED
  BY <1>1, <1>2, <1>3, <1>4, <1>5, <1>6, <1>7

(* A step that moves no frame forward: it may drop the callback's or that  *)
(* of start_xmit, or the stack's own.                                      *)
LEMMA LoopFrame ==
  ASSUME TypeOK, TypeOK', LoopInv, UNCHANGED <<confirmed, killed, urbs>>, next <= next',
         Reporting' \in {Reporting, None},
         Submitting' => Submitting /\ xmit'.frame = xmit.frame
  PROVE  LoopInv'
<1>1. /\ next \in Nat /\ next' \in Nat \ {0} /\ Reporting' \in Nat /\ None = 0
      /\ \A i \in 1 .. Len(confirmed) : confirmed[i] \in Nat
      /\ \A k \in 1 .. Len(urbs) : urbs[k].frame \in Nat \ {0}
      /\ xmit.frame \in Nat /\ Reporting \in Nat
  <2>1. next' \in Nat \ {0}
    BY DEF TypeOK
  <2>2. /\ next \in Nat /\ Reporting \in Nat /\ xmit.frame \in Nat
        /\ \A i \in 1 .. Len(confirmed) : confirmed[i] \in Nat
        /\ \A k \in 1 .. Len(urbs) : urbs[k].frame \in Nat \ {0}
    BY LoopTypes
  <2>3. None = 0 /\ None \in Nat
    BY DEF None
  <2>4. Reporting' \in Nat
    BY <2>2, <2>3, Zenon
  <2> QED
    BY <2>1, <2>2, <2>3, <2>4, Zenon
<1>2. LoopedBackInOrder'
  BY DEF LoopInv, LoopedBackInOrder, Before
<1>3. Submitting' => /\ \A i \in 1 .. Len(confirmed) : confirmed[i] < xmit'.frame
                     /\ \A k \in 1 .. Len(urbs) : urbs[k].frame < xmit'.frame
                     /\ Reporting' < xmit'.frame /\ xmit'.frame < next'
  <2> SUFFICES ASSUME Submitting'
               PROVE  /\ \A i \in 1 .. Len(confirmed) : confirmed[i] < xmit.frame
                      /\ \A k \in 1 .. Len(urbs) : urbs[k].frame < xmit.frame
                      /\ Reporting' < xmit.frame /\ xmit.frame < next'
    OBVIOUS
  <2>1. Reporting < xmit.frame /\ xmit.frame < next
    BY DEF LoopInv
  <2>2. Reporting' < xmit.frame /\ xmit.frame < next'
    BY <1>1, <2>1
  <2> QED
    BY <2>2 DEF LoopInv
<1>4. \A i \in 1 .. Len(confirmed) :
        /\ confirmed[i] < next'
        /\ Reporting' # None => Before(confirmed[i], Reporting)'
        /\ \A k \in 1 .. Len(urbs) : Before(confirmed[i], urbs[k].frame)'
  BY <1>1 DEF LoopInv, Before
<1>5. \A k \in 1 .. Len(urbs) :
        /\ Reporting' # None => Before(Reporting, urbs[k].frame)'
        /\ urbs[k].frame < next'
        /\ \A l \in 1 .. Len(urbs) : k < l => urbs[k].frame < urbs[l].frame
  BY <1>1 DEF LoopInv, Before
<1>6. Reporting' < next'
  BY <1>1 DEF LoopInv
<1> QED
  BY <1>2, <1>3, <1>4, <1>5, <1>6 DEF LoopInv

(* start_xmit takes the stack's frame, the youngest of all.                *)
LEMMA LoopTake ==
  ASSUME UsbInv, LoopInv, XmitTake, TypeOK'
  PROVE  LoopInv'
<1>1. /\ UNCHANGED <<confirmed, killed, urbs, callback>> /\ next' = next + 1
      /\ xmit' = [pc |-> "submit", frame |-> next, context |-> FirstFree]
      /\ echo' = [echo EXCEPT ![FirstFree] = IF @ = None THEN next ELSE @]
  BY DEF XmitTake, looped
<1>2. FirstFree \in Contexts /\ FirstFree \notin taken
  BY FirstFreeIsFree DEF XmitTake, UsbInv
<1>3. Reporting' = Reporting
  <2>1. callback.pc = "echo" => callback.context # FirstFree
    BY <1>2 DEF UsbInv, EchoMatches, ContextsInUse
  <2> QED
    BY <1>1, <1>2, <2>1 DEF Reporting, UsbInv, TypeOK
<1>4. Submitting' /\ xmit'.frame = next /\ next < next' /\ next \in Nat
  BY <1>1, LoopTypes DEF Submitting, UsbInv
<1>5. /\ next' \in Nat \ {0} /\ Reporting \in Nat
      /\ \A i \in 1 .. Len(confirmed) : confirmed[i] \in Nat
      /\ \A k \in 1 .. Len(urbs) : urbs[k].frame \in Nat \ {0}
  BY <1>1, LoopTypes DEF UsbInv
<1>6. \A i \in 1 .. Len(confirmed) : confirmed[i] < next /\ confirmed[i] < next'
  BY <1>4, <1>5 DEF LoopInv
<1>7. \A k \in 1 .. Len(urbs) : urbs[k].frame < next /\ urbs[k].frame < next'
  BY <1>4, <1>5 DEF LoopInv
<1>8. Reporting < next /\ Reporting < next'
  BY <1>4, <1>5 DEF LoopInv
<1> QED
  BY <1>1, <1>3, <1>4, <1>6, <1>7, <1>8 DEF LoopInv, LoopedBackInOrder, Before

(* The USB core takes it as its youngest URB.                              *)
LEMMA LoopSubmit ==
  ASSUME UsbInv, LoopInv, XmitSubmit
  PROVE  LoopInv'
<1> DEFINE u == [context |-> xmit.context, frame |-> xmit.frame]
<1>1. /\ urbs' = Append(urbs, u) /\ Submitting /\ ~Submitting'
      /\ UNCHANGED <<confirmed, killed, callback, echo, next>>
  BY DEF XmitSubmit, Submitting, history, looped, UsbInv, TypeOK
<1>2. u \in Urb /\ u.frame = xmit.frame
  BY <1>1 DEF UsbInv, Quiet, TypeOK, Urb, Submitting
<1> HIDE DEF u
<1>3. /\ Len(urbs') = Len(urbs) + 1 /\ Len(urbs) \in Nat /\ urbs'[Len(urbs) + 1] = u
      /\ \A k \in 1 .. Len(urbs) : urbs'[k] = urbs[k]
  BY <1>1, <1>2, LoopTypes, AppendProperties DEF UsbInv
<1>4. \A k \in 1 .. Len(urbs') : k \in 1 .. Len(urbs) \/ k = Len(urbs) + 1
  BY <1>3
<1>5. Reporting' = Reporting
  BY <1>1 DEF Reporting
<1>6. ASSUME NEW i \in 1 .. Len(confirmed)
      PROVE  \A k \in 1 .. Len(urbs') : Before(confirmed[i], urbs'[k].frame)
  <2>1. confirmed[i] \in Nat /\ xmit.frame \in Nat
    BY <1>6, LoopTypes DEF UsbInv
  <2>2. Before(confirmed[i], u.frame)
    BY <1>1, <1>2, <1>6, <2>1 DEF LoopInv, Before
  <2> QED
    BY <1>1, <1>3, <1>4, <1>6, <2>2 DEF LoopInv
<1>7. ASSUME NEW k \in 1 .. Len(urbs')
      PROVE  /\ Reporting # None => Before(Reporting, urbs'[k].frame)
             /\ urbs'[k].frame < next
  <2>1. Reporting \in Nat /\ xmit.frame \in Nat
    BY LoopTypes DEF UsbInv
  <2>2. Before(Reporting, u.frame)
    BY <1>1, <1>2, <2>1 DEF LoopInv, Before
  <2> QED
    BY <1>1, <1>2, <1>3, <1>4, <1>7, <2>2 DEF LoopInv
<1>8. ASSUME NEW k \in 1 .. Len(urbs'), NEW l \in 1 .. Len(urbs'), k < l
      PROVE  urbs'[k].frame < urbs'[l].frame
  <2>1. k \in 1 .. Len(urbs)
    BY <1>3, <1>8
  <2>2. CASE l \in 1 .. Len(urbs)
    BY <1>3, <1>8, <2>1, <2>2 DEF LoopInv
  <2>3. CASE l = Len(urbs) + 1
    BY <1>1, <1>2, <1>3, <2>1, <2>3 DEF LoopInv
  <2> QED
    BY <1>4, <2>2, <2>3
<1>9. LoopedBackInOrder' /\ Reporting < next
  BY <1>1 DEF LoopInv, LoopedBackInOrder, Before
<1>10. \A i \in 1 .. Len(confirmed) :
         confirmed[i] < next /\ (Reporting # None => Before(confirmed[i], Reporting))
  BY DEF LoopInv
<1>11. \A f, g : Before(f, g)' <=> Before(f, g)
  BY <1>1 DEF Before
<1> QED
  BY <1>1, <1>5, <1>6, <1>7, <1>8, <1>9, <1>10 DEF LoopInv, Before

(* A URB is done: the callback has its frame, if any is kept.              *)
LEMMA LoopDone ==
  ASSUME UsbInv, LoopInv, UrbDone, TypeOK'
  PROVE  LoopInv'
<1> DEFINE Ordered(f, g) == f # g /\ (f < g \/ f \in killed')
<1>1. PICK n \in {1, Len(urbs)} : IsDone(n)
  BY DoneUrb DEF UsbInv
<1>2. /\ n \in 1 .. Len(urbs) /\ callback.pc = "idle"
      /\ UNCHANGED <<confirmed, echo, xmit, next>> /\ killed \subseteq killed'
      /\ n # 1 => urbs[n].frame \in killed'
      /\ callback' = [pc |-> IF present THEN "echo" ELSE "idle", context |-> urbs[n].context]
  BY <1>1 DEF UrbDone, IsDone
<1>3. \A i \in 1 .. Len(urbs') :
        /\ Without(n, i) \in 1 .. Len(urbs) /\ Without(n, i) # n
        /\ urbs'[i] = urbs[Without(n, i)]
  BY <1>1, <1>2 DEF IsDone, Without
<1>4. Reporting' \in {None, urbs[n].frame} /\ (Submitting' <=> Submitting)
  <2>1. echo[urbs[n].context] \in {None, urbs[n].frame}
    BY <1>2 DEF UsbInv, EchoMatches
  <2>2. Reporting' \in {None, echo[urbs[n].context]}
    BY <1>2 DEF Reporting
  <2> QED
    BY <1>2, <2>1, <2>2 DEF Submitting
<1>5. \A f, g : Before(f, g) => Ordered(f, g)
  BY <1>2 DEF Before
<1>6. \A k \in 1 .. Len(urbs) : k # n => Ordered(urbs[n].frame, urbs[k].frame)
  <2> SUFFICES ASSUME NEW k \in 1 .. Len(urbs), k # n
               PROVE  Ordered(urbs[n].frame, urbs[k].frame)
    OBVIOUS
  <2>1. urbs[n].frame \in Nat /\ urbs[k].frame \in Nat /\ n \in Nat /\ k \in Nat
    BY <1>2, LoopTypes DEF UsbInv
  <2>2. n < k \/ k < n
    BY <2>1
  <2>3. urbs[n].frame # urbs[k].frame
    BY <1>2, <2>1, <2>2 DEF LoopInv
  <2>4. n = 1 => urbs[n].frame < urbs[k].frame
    BY <1>2, <2>1 DEF LoopInv
  <2> QED
    BY <1>1, <1>2, <2>3, <2>4
<1>7. \A k \in 1 .. Len(urbs') :
        /\ Reporting' # None => Ordered(Reporting', urbs'[k].frame)
        /\ urbs'[k].frame < next
        /\ Submitting => urbs'[k].frame < xmit.frame
  <2> HIDE DEF Ordered
  <2> QED
    BY <1>3, <1>4, <1>6 DEF LoopInv
<1>8. ASSUME NEW k \in 1 .. Len(urbs'), NEW l \in 1 .. Len(urbs'), k < l
      PROVE  urbs'[k].frame < urbs'[l].frame
  <2>1. Without(n, k) < Without(n, l)
    BY <1>2, <1>8 DEF Without
  <2> QED
    BY <1>3, <2>1 DEF LoopInv
<1>9. \A i \in 1 .. Len(confirmed) :
        /\ confirmed[i] < next
        /\ Reporting' # None => Ordered(confirmed[i], Reporting')
        /\ \A k \in 1 .. Len(urbs') : Ordered(confirmed[i], urbs'[k].frame)
        /\ Submitting => confirmed[i] < xmit.frame
  <2> HIDE DEF Ordered
  <2> QED
    BY <1>2, <1>3, <1>4, <1>5 DEF LoopInv
<1>10. Reporting' < next /\ (Submitting => Reporting' < xmit.frame /\ xmit.frame < next)
  <2>1. None < next /\ (Submitting => None < xmit.frame /\ xmit.frame < next)
    BY LoopTypes DEF UsbInv, LoopInv, None, Submitting, Quiet, Frames
  <2>2. urbs[n].frame < next /\ (Submitting => urbs[n].frame < xmit.frame)
    BY <1>2 DEF LoopInv
  <2> QED
    BY <1>4, <2>1, <2>2
<1>11. LoopedBackInOrder'
  BY <1>2, <1>5 DEF LoopInv, LoopedBackInOrder, Before
<1> QED
  BY <1>2, <1>4, <1>7, <1>8, <1>9, <1>10, <1>11 DEF LoopInv, Before

(* can_get_echo_skb hands the stack the youngest frame it has had so far.  *)
LEMMA LoopEcho ==
  ASSUME UsbInv, LoopInv, CallbackEcho, TypeOK'
  PROVE  LoopInv'
<1>1. /\ UNCHANGED <<urbs, xmit, next, killed>> /\ callback.pc = "echo"
      /\ Reporting' = None /\ (Submitting' <=> Submitting)
      /\ confirmed' = IF Reporting = None THEN confirmed ELSE Append(confirmed, Reporting)
  BY DEF CallbackEcho, Advance, Stages, Reporting, Submitting, UsbInv, TypeOK
<1>2. CASE Reporting = None
  BY <1>1, <1>2, LoopFrame, LoopTypes DEF UsbInv
<1>3. CASE Reporting # None
  <2>1. Reporting \in Frames /\ Reporting \in Nat \ {0}
    <3>1. Reporting \in Frames
      BY <1>1, <1>3 DEF Reporting, UsbInv, TypeOK
    <3> QED
      BY <3>1 DEF Frames
  <2>2. /\ Len(confirmed') = Len(confirmed) + 1 /\ Len(confirmed) \in Nat
        /\ confirmed'[Len(confirmed) + 1] = Reporting
        /\ \A i \in 1 .. Len(confirmed) : confirmed'[i] = confirmed[i]
    <3>1. confirmed \in Seq(Frames) /\ Len(confirmed) \in Nat
      BY LoopTypes DEF UsbInv
    <3>2. confirmed' = Append(confirmed, Reporting)
      BY <1>1, <1>3
    <3> QED
      BY <2>1, <3>1, <3>2, AppendProperties
  <2>3. \A i \in 1 .. Len(confirmed') : i \in 1 .. Len(confirmed) \/ i = Len(confirmed) + 1
    BY <2>2
  <2>4. ASSUME NEW i \in 1 .. Len(confirmed')
        PROVE  /\ confirmed'[i] < next
               /\ \A k \in 1 .. Len(urbs) : Before(confirmed'[i], urbs[k].frame)
               /\ Submitting => confirmed'[i] < xmit.frame
    BY <1>3, <2>2, <2>3, <2>4 DEF LoopInv
  <2>5. ASSUME NEW i \in 1 .. Len(confirmed'), NEW j \in 1 .. Len(confirmed'), i < j
        PROVE  Before(confirmed'[i], confirmed'[j])
    <3>1. i \in 1 .. Len(confirmed)
      BY <2>2, <2>5
    <3>2. CASE j \in 1 .. Len(confirmed)
      BY <2>2, <2>5, <3>1, <3>2 DEF LoopInv, LoopedBackInOrder
    <3>3. CASE j = Len(confirmed) + 1
      BY <1>3, <2>2, <3>1, <3>3 DEF LoopInv
    <3> QED
      BY <2>3, <3>2, <3>3
  <2>6. None < next /\ (Submitting => None < xmit.frame)
    <3>1. next \in Nat \ {0} /\ xmit.frame \in Nat
      BY LoopTypes DEF UsbInv
    <3>2. Submitting => Reporting < xmit.frame
      BY DEF LoopInv
    <3> QED
      BY <2>1, <3>1, <3>2 DEF None
  <2>7. \A k \in 1 .. Len(urbs) :
          /\ urbs[k].frame < next
          /\ Submitting => urbs[k].frame < xmit.frame
          /\ \A l \in 1 .. Len(urbs) : k < l => urbs[k].frame < urbs[l].frame
    BY DEF LoopInv
  <2>8. Submitting => xmit.frame < next
    BY DEF LoopInv
  <2>9. LoopedBackInOrder'
    BY <1>1, <2>5 DEF LoopedBackInOrder, Before
  <2> QED
    BY <1>1, <2>4, <2>6, <2>7, <2>8, <2>9 DEF LoopInv, Before
<1> QED
  BY <1>2, <1>3

(* Every other step leaves the frames where they are or drops one.         *)
LEMMA LoopOther ==
  ASSUME UsbInv, TypeOK', LoopInv,
         \/ XmitNoMem \/ XmitFails \/ XmitCheck \/ XmitStop
         \/ CallbackRelease \/ CallbackWake
         \/ Open \/ Unplug \/ Detach \/ BusOff \/ Restart \/ Close \/ Closed
         \/ UNCHANGED vars
  PROVE  LoopInv'
<1>1. UNCHANGED <<confirmed, killed, urbs>>
  BY DEF XmitNoMem, XmitFails, XmitCheck, XmitStop, CallbackRelease, CallbackWake,
       Open, Unplug, Detach, BusOff, Restart, Close, Closed, vars, history, looped
<1>2. next' = next \/ next' = next + 1
  BY DEF XmitNoMem, XmitFails, XmitCheck, XmitStop, CallbackRelease, CallbackWake,
       Open, Unplug, Detach, BusOff, Restart, Close, Closed, vars, history, looped
<1>3. xmit' = xmit \/ xmit'.pc # "submit"
  BY DEF XmitNoMem, XmitFails, XmitCheck, XmitStop, CallbackRelease, CallbackWake,
       Open, Unplug, Detach, BusOff, Restart, Close, Closed, vars, Idle, UsbInv, TypeOK
<1>4. Reporting' \in {Reporting, None}
  <2>1. CASE UNCHANGED <<callback, echo>>
    BY <2>1 DEF Reporting
  <2>2. CASE XmitFails
    BY <2>2 DEF XmitFails, Reporting, UsbInv, TypeOK, EchoMatches
  <2>3. CASE CallbackRelease \/ CallbackWake
    BY <2>3 DEF CallbackRelease, CallbackWake, Advance, Stages, Reporting, UsbInv, TypeOK
  <2>4. CASE Restart \/ Closed
    BY <2>4 DEF Restart, Closed, NoEcho, Reporting, UsbInv, TypeOK
  <2>5. UNCHANGED <<callback, echo>> \/ XmitFails \/ CallbackRelease \/ CallbackWake
          \/ Restart \/ Closed
    BY DEF XmitNoMem, XmitCheck, XmitStop, Open, Unplug, Detach, BusOff, Close, vars, history, looped
  <2> QED
    BY <2>1, <2>2, <2>3, <2>4, <2>5
<1>5. next <= next'
  BY <1>2, LoopTypes DEF UsbInv
<1> QED
  BY <1>1, <1>3, <1>4, <1>5, LoopFrame DEF Submitting, UsbInv

(* Frames are looped back in the order in which the stack sent them, and   *)
(* none twice, however contexts and echo slots are used again, URBs fail   *)
(* and the controller restarts; only the frame of a URB that was killed    *)
(* while an older one was left may come before older frames.               *)
THEOREM LoopedBackOrdered == Spec => []LoopedBackInOrder
<1>1. Init => LoopInv
  <2> SUFFICES ASSUME Init PROVE LoopInv
    OBVIOUS
  <2>1. Reporting = 0 /\ next = 1 /\ Len(confirmed) = 0 /\ Len(urbs) = 0 /\ ~Submitting
    BY DEF Init, Reporting, Submitting, Idle, None
  <2> QED
    BY <2>1 DEF LoopInv, LoopedBackInOrder
<1>2. UsbInv /\ UsbInv' /\ LoopInv /\ [Next]_vars => LoopInv'
  <2>1. UsbInv' => TypeOK'
    BY DEF UsbInv
  <2> QED
    BY <2>1, LoopTake, LoopSubmit, LoopDone, LoopEcho, LoopOther DEF Next, Xmit, Callback
<1>3. LoopInv => LoopedBackInOrder
  BY DEF LoopInv
<1> QED
  BY <1>1, <1>2, <1>3, UsbInvAlways, PTL DEF Spec
=============================================================================
