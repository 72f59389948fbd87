--------------------------- MODULE AthAudio_proofs ---------------------------
(***************************************************************************)
(* Proofs about AthAudio, for rings of any size and any number of calls:   *)
(* every variable keeps its type, the character device plays and records   *)
(* every buffer once and in order, and ALSA is never told of a descriptor  *)
(* that the engine has not finished.                                       *)
(***************************************************************************)
EXTENDS AthAudio, TLAPS

BeforeInRing(d) == IF d = 0 THEN NumDesc - 1 ELSE d - 1

(* A queue laid out in the ring: the descriptors in F, from first up to but*)
(* not including last, hold consecutive numbers, the ones after t up to g. *)
Between(d, first, last) ==
  IF first < last THEN first <= d /\ d < last ELSE first <= d \/ d < last

Queue(F, b, first, last, g, t) ==
  /\ first # last => \A d \in Descriptors : d \in F <=> Between(d, first, last)
  /\ first = last => F = {} \/ F = Descriptors
  /\ F = {} => t = g
  /\ F # {} => b[first] = Succ(t) /\ b[BeforeInRing(last)] = g
  /\ \A d \in F : d # BeforeInRing(last) => b[After(d)] = Succ(b[d])

(* The queue of the stream: for playback what the engine has still to play,*)
(* for capture what the caller has still to read.  Until the engine is     *)
(* started it is where the first call began.                               *)
Held == {d \in Descriptors : own[d] = IF mode = "playback" THEN 1 ELSE 0}
CallAt == IF call.pc = "idle" THEN tail ELSE call.at
EngineAt == IF opened < 2 \/ call.start THEN tail ELSE pos
First == IF mode = "playback" THEN EngineAt ELSE CallAt
Last == IF mode = "playback" THEN CallAt ELSE EngineAt

Control ==
  /\ phase = "closed" => call.pc = "idle" /\ opened = 0
  /\ phase # "closed" => opened > 0
  /\ phase = "closing" => call.pc = "idle"
  /\ call.pc = "idle" => ~call.start
  /\ call.pc # "idle" => opened = 2
  /\ call.start => call.pc = "copy"
  /\ call.asleep => call.pc = "wait"
  /\ call.pc = "wait" => call.at = tail
  /\ driver = "ath_i2s" /\ (opened < 2 \/ call.start) => engine = "stopped"

RingInv ==
  /\ TypeOK /\ Control
  /\ driver = "ath_i2s" /\ phase # "closed" /\ ~faulted
       => Queue(Held, buf, First, Last, given, taken)

-----------------------------------------------------------------------------
(* The neighbours of a descriptor.                                         *)
LEMMA Neighbours ==
  \A d \in Descriptors :
    /\ After(d) \in Descriptors /\ BeforeInRing(d) \in Descriptors
    /\ BeforeInRing(After(d)) = d /\ After(BeforeInRing(d)) = d
    /\ After(d) # d
  BY AthMboxDmaAssumption DEF After, BeforeInRing, Descriptors

(* Taking the first one leaves the queue of the others.                    *)
LEMMA QueueTake ==
  ASSUME NEW F \in SUBSET Descriptors, NEW b, NEW first \in Descriptors,
         NEW last \in Descriptors, NEW g, NEW t,
         Queue(F, b, first, last, g, t), first \in F
  PROVE  /\ b[first] = Succ(t)
         /\ Queue(F \ {first}, b, After(first), last, g, b[first])
<1> DEFINE G == F \ {first}
<1>1. b[first] = Succ(t) /\ b[BeforeInRing(last)] = g
  BY DEF Queue
<1>2. \A d \in Descriptors : d \in F <=> first = last \/ Between(d, first, last)
  BY DEF Queue
<1>3. After(first) # last
        => \A d \in Descriptors : d \in G <=> Between(d, After(first), last)
  BY <1>2, AthMboxDmaAssumption DEF After, Between, Descriptors
<1>4. After(first) = last => G = {}
  BY <1>2, AthMboxDmaAssumption DEF After, Between, Descriptors
<1>5. After(first) # last => first # BeforeInRing(last) /\ After(first) \in G
  <2>1. SUFFICES ASSUME After(first) # last
                 PROVE  first # BeforeInRing(last) /\ After(first) \in G
    OBVIOUS
  <2>2. first # BeforeInRing(last)
    BY <2>1, Neighbours
  <2>3. Between(After(first), After(first), last)
    BY <2>1, Neighbours DEF Between, Descriptors
  <2> QED BY <1>3, <2>1, <2>2, <2>3, Neighbours
<1>6. G = {} => b[first] = g
  BY <1>1, <1>5, Neighbours
<1>7. G # {} => b[After(first)] = Succ(b[first])
  BY <1>4, <1>5 DEF Queue
<1>8. \A d \in G : d # BeforeInRing(last) => b[After(d)] = Succ(b[d])
  BY DEF Queue
<1> QED BY <1>1, <1>3, <1>4, <1>6, <1>7, <1>8 DEF Queue

(* Putting one behind the last one continues the numbers.                  *)
LEMMA QueuePut ==
  ASSUME NEW F \in SUBSET Descriptors, NEW b \in [Descriptors -> Numbers],
         NEW first \in Descriptors, NEW last \in Descriptors,
         NEW g \in Numbers, NEW t, Succ(g) \in Numbers,
         Queue(F, b, first, last, g, t), last \notin F
  PROVE  Queue(F \cup {last}, [b EXCEPT ![last] = Succ(g)], first, After(last),
               Succ(g), t)
<1> DEFINE G == F \cup {last}
           c == [b EXCEPT ![last] = Succ(g)]
<1>1. first = last => F = {}
  BY DEF Queue
<1>2. \A d \in Descriptors : d \in F <=> first # last /\ Between(d, first, last)
  BY <1>1 DEF Queue
<1>3. first # After(last)
        => \A d \in Descriptors : d \in G <=> Between(d, first, After(last))
  BY <1>2, AthMboxDmaAssumption DEF After, Between, Descriptors
<1>4. first = After(last) => G = Descriptors
  <2>1. ASSUME first = After(last), NEW d \in Descriptors, d # last
        PROVE  first # last /\ Between(d, first, last)
    BY <2>1, AthMboxDmaAssumption DEF After, Between, Descriptors
  <2>2. first = After(last) => \A d \in Descriptors : d \in G
    BY <1>2, <2>1
  <2> QED BY <2>2
<1>5. c[last] = Succ(g) /\ \A d \in Descriptors \ {last} : c[d] = b[d]
  OBVIOUS
<1>6. F = {} => first = last
  <2>1. first # last => Between(first, first, last)
    BY DEF Between, Descriptors
  <2> QED BY <1>2, <2>1
<1>7. c[first] = Succ(t)
  BY <1>1, <1>5, <1>6 DEF Queue
<1>8. c[BeforeInRing(After(last))] = Succ(g)
  BY <1>5, Neighbours
<1>9. ASSUME NEW d \in G, d # BeforeInRing(After(last))
      PROVE  c[After(d)] = Succ(c[d])
  <2>1. d \in F /\ d # last
    BY <1>9, Neighbours
  <2>2. CASE d = BeforeInRing(last)
    BY <1>5, <2>1, <2>2, Neighbours DEF Queue
  <2>3. CASE d # BeforeInRing(last)
    <3>1. After(d) # last
      BY <2>3, Neighbours
    <3> QED BY <1>5, <2>1, <2>3, <3>1, Neighbours DEF Queue
  <2> QED BY <2>2, <2>3
<1> QED BY <1>3, <1>4, <1>7, <1>8, <1>9 DEF Queue

-----------------------------------------------------------------------------
(* The least of two numbers is one of them.                                *)
LEMMA MinOfTwo ==
  ASSUME NEW a \in Int, NEW b \in Int
  PROVE  Min({a, b}) \in {a, b}
<1>1. \E x \in {a, b} : \A y \in {a, b} : x <= y
  BY a <= b \/ b <= a
<1> QED BY <1>1 DEF Min

(* Numbers are followed by numbers.                                        *)
LEMMA SuccIsNumber == Succ(0) \in Numbers /\ \A n \in Numbers : Succ(n) \in Numbers
  BY AthI2sRingAssumption, AthMboxDmaAssumption DEF Succ, Numbers

(* Nothing is open, so nothing is in the ring.                             *)
LEMMA Initially == Init => RingInv
<1> SUFFICES ASSUME Init PROVE RingInv
  OBVIOUS
<1> USE AthMboxDmaAssumption, AthI2sRingAssumption DEF Init, DmaInit, I2sInit, PcmInit
<1>1. 0 \in Descriptors /\ 0 \in Numbers /\ Returned \in [Descriptors -> {0, 1}]
      /\ Returned \in [Descriptors -> Numbers]
  BY DEF Descriptors, Numbers, Returned
<1>2. NoCall \in [pc : {"idle", "wait", "copy"}, left : 0 .. MaxCount,
               at : Descriptors, start : BOOLEAN, asleep : BOOLEAN]
  BY <1>1 DEF NoCall
<1>3. TypeOK
  <2>1. DmaTypeOK
    BY <1>1 DEF DmaTypeOK
  <2>2. I2sTypeOK
    BY <1>1, <1>2 DEF I2sTypeOK
  <2>3. PcmTypeOK
    <3>1. elapsed = 0 /\ lag = 0
      OBVIOUS
    <3>2. elapsed \in Nat /\ lag \in Int
      BY <3>1
    <3>3. slipped \in BOOLEAN /\ last_played \in Descriptors \cup {NULL}
      OBVIOUS
    <3> QED BY <1>1, <3>2, <3>3 DEF PcmTypeOK
  <2> QED BY <2>1, <2>2, <2>3 DEF TypeOK
<1>4. Control
  BY DEF Control, NoCall
<1> QED BY <1>3, <1>4 DEF RingInv

(* The steps of the character device keep the types.                       *)
LEMMA I2sTypeStep ==
  TypeOK /\ I2sNext /\ UNCHANGED pcmVars => TypeOK'
<1> SUFFICES ASSUME TypeOK, I2sNext, UNCHANGED pcmVars PROVE TypeOK'
  OBVIOUS
<1> USE AthMboxDmaAssumption, AthI2sRingAssumption DEF TypeOK
<1> DEFINE Call == [pc : {"idle", "wait", "copy"}, left : 0 .. MaxCount,
                    at : Descriptors, start : BOOLEAN, asleep : BOOLEAN]
<1>0. /\ 0 \in Descriptors /\ NoCall \in Call
      /\ Given \in [Descriptors -> {0, 1}] /\ Returned \in [Descriptors -> {0, 1}]
  BY DEF Descriptors, NoCall, Given, Returned
<1>p. PcmTypeOK'
  BY DEF PcmTypeOK, pcmVars
<1>1. CASE I2sOpen
  BY <1>1, <1>p, <1>0 DEF I2sOpen, DmaTypeOK, I2sTypeOK, stream
<1>2. CASE \E n \in 1 .. MaxCount : Begin(n)
  <2>1. DmaTypeOK'
    BY <1>2 DEF Begin, dmaVars, DmaTypeOK
  <2>2. call' \in Call /\ opened' = 2
    BY <1>2 DEF Begin, I2sTypeOK
  <2>3. I2sTypeOK'
    BY <1>2, <2>2 DEF Begin, I2sTypeOK
  <2> QED BY <1>p, <2>1, <2>3
<1>3. CASE Wait
  BY <1>3, <1>p DEF Wait, dmaVars, DmaTypeOK, I2sTypeOK, stream
<1>4. CASE Copy
  <2>1. call' \in Call
    <3>1. /\ call.left - 1 \in 0 .. MaxCount /\ call.at \in Descriptors
          /\ After(call.at) \in Descriptors
      BY <1>4, Neighbours DEF Copy, Available, I2sTypeOK
    <3> QED BY <1>4, <3>1 DEF Copy, I2sTypeOK
  <2>2. own' \in [Descriptors -> {0, 1}]
    BY <1>4 DEF Copy, DmaTypeOK
  <2>3. buf' \in [Descriptors -> Numbers] /\ given' \in Numbers /\ taken' \in Numbers
    <3>1. call.at \in Descriptors /\ Succ(given) \in Numbers
      BY SuccIsNumber DEF I2sTypeOK
    <3>2. CASE mode = "playback"
      BY <1>4, <3>1, <3>2 DEF Copy, I2sTypeOK
    <3>3. CASE mode # "playback"
      BY <1>4, <3>1, <3>3 DEF Copy, I2sTypeOK
    <3> QED BY <3>2, <3>3
  <2> QED BY <1>4, <1>p, <2>1, <2>2, <2>3 DEF Copy, DmaTypeOK, I2sTypeOK, stream
<1>5. CASE Finish
  <2>1. call' \in Call
    BY <1>5, <1>0 DEF Finish, AfterCall, I2sTypeOK
  <2>2. pos' \in Descriptors /\ engine' \in {"stopped", "running", "stalled", "paused"}
    BY <1>5 DEF Finish, TellEngine, StartAt, Resumed, DmaTypeOK, I2sTypeOK
  <2>3. tail' \in Descriptors
    BY <1>5 DEF Finish, I2sTypeOK
  <2> QED BY <1>5, <1>p, <2>1, <2>2, <2>3 DEF Finish, DmaTypeOK, I2sTypeOK, stream
<1>6. CASE Signal
  <2>1. DmaTypeOK'
    BY <1>6, <1>0 DEF Signal, dmaVars, DmaTypeOK
  <2>2. I2sTypeOK'
    BY <1>6, <1>0 DEF Signal, I2sTypeOK, stream
  <2> QED BY <1>p, <2>1, <2>2
<1>7. CASE CopyFails
  <2>0. call.left \in 1 .. MaxCount
    BY <1>7 DEF CopyFails, Available, I2sTypeOK
  <2>1. DmaTypeOK'
    BY <1>7, <1>0 DEF CopyFails, dmaVars, DmaTypeOK
  <2>2. call' \in Call
    <3>1. \A n \in 0 .. MaxCount : GoOnWith(n) \in Call
      BY <1>0 DEF GoOnWith, NoCall, I2sTypeOK
    <3>2. NoCall \in Call
      BY <1>0
    <3>3. call' = NoCall \/ \E n \in call.left - 1 .. MaxCount : call' = GoOnWith(n)
      BY <1>7 DEF CopyFails
    <3>4. \A n \in call.left - 1 .. MaxCount : n \in 0 .. MaxCount
      BY <2>0
    <3>5. CASE call' = NoCall
      BY <3>2, <3>5
    <3>6. CASE call' # NoCall
      <4>1. PICK n \in call.left - 1 .. MaxCount : call' = GoOnWith(n)
        BY <3>3, <3>6
      <4>2. n \in 0 .. MaxCount
        BY <3>4
      <4>3. GoOnWith(n) \in Call
        BY <3>1, <4>2
      <4> QED BY <4>1, <4>3, Zenon
    <3> QED BY <3>5, <3>6
  <2>3. I2sTypeOK'
    <3>1. UNCHANGED <<phase, opened, paused, tail, buf, given, taken>> /\ faulted' = TRUE
      BY <1>7 DEF CopyFails, stream
    <3> QED BY <2>2, <3>1 DEF I2sTypeOK
  <2> QED BY <1>p, <2>1, <2>3
<1>8. CASE Pause
  BY <1>8, <1>p DEF Pause, MayCall, Paused, DmaTypeOK, I2sTypeOK, stream
<1>9. CASE Resume
  BY <1>9, <1>p DEF Resume, MayCall, Resumed, DmaTypeOK, I2sTypeOK, stream
<1>10. CASE I2sClose
  <2>1. CASE paused
    BY <1>10, <1>p, <1>0, <2>1 DEF I2sClose, Released, DmaTypeOK, I2sTypeOK
  <2>2. CASE ~paused
    BY <1>10, <1>p, <2>2 DEF I2sClose, DmaTypeOK, I2sTypeOK
  <2> QED BY <2>1, <2>2
<1>11. CASE I2sCloseDone
  <2>1. own' \in [Descriptors -> {0, 1}]
    BY <1>11, <1>0 DEF I2sCloseDone, Released
  <2>2. DmaTypeOK'
    BY <1>11, <2>1 DEF I2sCloseDone, Released, DmaTypeOK
  <2>3. I2sTypeOK'
    BY <1>11 DEF I2sCloseDone, Released, I2sTypeOK
  <2> QED BY <2>2, <2>3, <1>p
<1>12. CASE I2sIrqWake
  <2>1. DmaTypeOK'
    BY <1>12 DEF I2sIrqWake, DmaTypeOK
  <2>2. I2sTypeOK'
    BY <1>12 DEF I2sIrqWake, I2sTypeOK, stream
  <2> QED BY <1>p, <2>1, <2>2
<1>13. CASE I2sIrqAck
  <2>1. DmaTypeOK'
    BY <1>13 DEF I2sIrqAck, DmaTypeOK
  <2>2. I2sTypeOK'
    BY <1>13 DEF I2sIrqAck, i2sVars, I2sTypeOK
  <2> QED BY <1>p, <2>1, <2>2
<1>14. CASE I2sComplete
  <2>1. DmaTypeOK'
    BY <1>14, Neighbours, SuccIsNumber DEF I2sComplete, Complete, DmaTypeOK
  <2>2. I2sTypeOK'
    BY <1>14, Neighbours, SuccIsNumber DEF I2sComplete, I2sTypeOK, DmaTypeOK, stream
  <2> QED BY <1>p, <2>1, <2>2
<1>15. CASE Stall /\ UNCHANGED i2sVars
  BY <1>15, <1>p DEF Stall, i2sVars, DmaTypeOK, I2sTypeOK, stream
<1> QED BY <1>1, <1>2, <1>3, <1>4, <1>5, <1>6, <1>7, <1>8, <1>9, <1>10, <1>11, <1>12, <1>13, <1>14, <1>15 DEF I2sNext, I2sCall, I2sIrq

(* The steps of the ALSA driver keep the types.                            *)
LEMMA PcmTypeStep ==
  TypeOK /\ PcmNext /\ UNCHANGED i2sVars => TypeOK'
<1> SUFFICES ASSUME TypeOK, PcmNext, UNCHANGED i2sVars PROVE TypeOK'
  OBVIOUS
<1> USE AthMboxDmaAssumption, Ath79PcmAssumption DEF TypeOK
<1>0. /\ 0 \in Descriptors
      /\ Given \in [Descriptors -> {0, 1}] /\ Returned \in [Descriptors -> {0, 1}]
  BY DEF Descriptors, Given, Returned
<1>s. I2sTypeOK'
  BY DEF I2sTypeOK, i2sVars
<1>d. Descriptors \subseteq Int /\ Pointer \in Descriptors
  BY <1>0 DEF Descriptors, Pointer, PcmTypeOK
<1>w. walk \in Descriptors /\ (walk # NumDesc - 1 => walk + 1 \in Descriptors)
  BY DEF PcmTypeOK, Descriptors
<1>a. Advance => hwptr' \in Descriptors /\ lag' \in Int
  <2>1. Pointer \in Int /\ hwptr \in Int /\ lag \in Int
    BY <1>d DEF PcmTypeOK
  <2>2. (Pointer - hwptr) % NumDesc \in Int
    BY <2>1
  <2> QED BY <1>d, <2>1, <2>2 DEF Advance
<1>1. CASE PcmOpen
  BY <1>1, <1>s, <1>0 DEF PcmOpen, dmaVars, alsa, DmaTypeOK, PcmTypeOK
<1>2. CASE HwParams
  BY <1>2, <1>s, <1>0 DEF HwParams, alsa, DmaTypeOK, PcmTypeOK
<1>3. CASE Prepare
  BY <1>3, <1>s, <1>0 DEF Prepare, Forgotten, DmaTypeOK, PcmTypeOK
<1>4. CASE TriggerStart
  BY <1>4, <1>s, <1>0 DEF TriggerStart, StartAt, alsa, DmaTypeOK, PcmTypeOK
<1>5. CASE TriggerStop
  BY <1>5, <1>s, Neighbours DEF TriggerStop, Complete, alsa, DmaTypeOK, PcmTypeOK
<1>6. CASE HwFree
  BY <1>6, <1>s, <1>0 DEF HwFree, alsa, DmaTypeOK, PcmTypeOK
<1>7. CASE PcmClose
  BY <1>7, <1>s DEF PcmClose, dmaVars, alsa, DmaTypeOK, PcmTypeOK
<1>8. CASE Poll
  BY <1>8, <1>s, <1>a DEF Poll, dmaVars, DmaTypeOK, PcmTypeOK
<1>9. CASE IrqRead
  BY <1>9, <1>s, <1>0 DEF IrqRead, alsa, DmaTypeOK, PcmTypeOK
<1>10. CASE IrqLastPlayed
  BY <1>10, <1>s, <1>0, <1>w DEF IrqLastPlayed, alsa, DmaTypeOK, PcmTypeOK
<1>11. CASE IrqSetOwn
  <2>1. own' \in [Descriptors -> {0, 1}]
    BY <1>11 DEF IrqSetOwn, DmaTypeOK
  <2>2. Size(walk) \in Nat
    BY DEF Size
  <2>3. elapsed' \in Nat
    <3>1. Played \in Nat /\ elapsed \in Nat
      BY <2>2 DEF Played, PcmTypeOK
    <3> QED BY <1>11, <3>1 DEF IrqSetOwn
  <2>4. walk' \in Descriptors /\ irq' \in {"idle", "ack", "last", "own", "elapsed"}
    BY <1>11, <1>0, <1>w DEF IrqSetOwn, DmaTypeOK
  <2> QED BY <1>11, <1>s, <2>1, <2>3, <2>4 DEF IrqSetOwn, DmaTypeOK, PcmTypeOK, alsa
<1>12. CASE IrqAck
  BY <1>12, <1>s DEF IrqAck, alsa, DmaTypeOK, PcmTypeOK
<1>13. CASE IrqElapsed
  <2>1. elapsed' \in Nat
    <3>1. elapsed \in Nat /\ PeriodBytes \in Nat \ {0}
      BY DEF PcmTypeOK
    <3>2. elapsed % PeriodBytes \in Nat
      BY <3>1
    <3> QED BY <1>13, <3>1, <3>2 DEF IrqElapsed, Remainder
  <2>2. hwptr' \in Descriptors /\ lag' \in Int
    BY <1>13, <1>a DEF IrqElapsed, alsa, PcmTypeOK
  <2>3. /\ state' \in {"closed", "open", "setup", "prepared", "running"}
        /\ engine' \in {"stopped", "running", "stalled", "paused"}
        /\ pos' \in Descriptors /\ own' \in [Descriptors -> {0, 1}] /\ done' \in BOOLEAN
    BY <1>13, Neighbours DEF IrqElapsed, Complete, DmaTypeOK, PcmTypeOK
  <2> QED BY <1>13, <1>s, <2>1, <2>2, <2>3 DEF IrqElapsed, DmaTypeOK, PcmTypeOK
<1>14. CASE PcmComplete
  <2>1. lag' \in Int
    <3>1. lag + 1 \in Int /\ 2 * NumDesc \in Int
      BY DEF PcmTypeOK
    <3>2. Min({lag + 1, 2 * NumDesc}) \in {lag + 1, 2 * NumDesc}
      BY <3>1, MinOfTwo
    <3> QED BY <1>14, <3>1, <3>2 DEF PcmComplete
  <2>2. pos' \in Descriptors /\ own' \in [Descriptors -> {0, 1}]
    BY <1>14, Neighbours DEF PcmComplete, Complete, DmaTypeOK
  <2> QED BY <1>14, <1>s, <2>1, <2>2 DEF PcmComplete, Complete, DmaTypeOK, PcmTypeOK
<1>15. CASE Stall /\ UNCHANGED pcmVars
  BY <1>15, <1>s DEF Stall, pcmVars, DmaTypeOK, PcmTypeOK
<1> QED BY <1>1, <1>2, <1>3, <1>4, <1>5, <1>6, <1>7, <1>8, <1>9, <1>10, <1>11, <1>12, <1>13, <1>14, <1>15 DEF PcmNext, PcmIrq

-----------------------------------------------------------------------------
(* A call runs only while the stream is open, and the engine only after the*)
(* first call.                                                             *)
LEMMA ControlStep == RingInv /\ [Next]_vars => Control'
<1> SUFFICES ASSUME RingInv, [Next]_vars PROVE Control'
  OBVIOUS
<1> USE DEF RingInv, Control
<1>0. /\ opened \in {0, 1, 2} /\ phase \in {"closed", "open", "closing"}
      /\ call \in [pc : {"idle", "wait", "copy"}, left : 0 .. MaxCount,
                   at : Descriptors, start : BOOLEAN, asleep : BOOLEAN]
  BY DEF TypeOK, I2sTypeOK
<1>1. CASE I2sOpen
  BY <1>1, <1>0 DEF I2sOpen, stream
<1>2. CASE \E n \in 1 .. MaxCount : Begin(n)
  BY <1>2, <1>0 DEF Begin, dmaVars, stream
<1>3. CASE Wait
  BY <1>3, <1>0 DEF Wait, dmaVars, stream
<1>4. CASE Copy
  BY <1>4, <1>0 DEF Copy, Available, stream
<1>5. CASE Finish
  BY <1>5, <1>0 DEF Finish, Available, TellEngine, StartAt, Resumed, AfterCall, NoCall, stream
<1>6. CASE Signal
  BY <1>6, <1>0 DEF Signal, dmaVars, NoCall, stream
<1>7. CASE CopyFails
  <2>1. call' = NoCall \/ \E n \in call.left - 1 .. MaxCount : call' = GoOnWith(n)
    BY <1>7 DEF CopyFails
  <2>2. ASSUME NEW n \in call.left - 1 .. MaxCount
        PROVE  LET c == GoOnWith(n)
               IN  /\ ~c.start /\ ~c.asleep /\ c.pc \in {"idle", "wait"}
                   /\ c.pc = "wait" => c.at = tail
    BY <2>2 DEF GoOnWith, NoCall
  <2>3. /\ ~call'.start /\ ~call'.asleep /\ call'.pc \in {"idle", "wait"}
        /\ call'.pc = "wait" => call'.at = tail
    <3>1. CASE call' = NoCall
      BY <3>1 DEF NoCall
    <3>2. CASE call' # NoCall
      BY <2>1, <2>2, <3>2
    <3> QED BY <3>1, <3>2
  <2> QED BY <1>7, <1>0, <2>3 DEF CopyFails, dmaVars, Available, stream
<1>8. CASE Pause
  BY <1>8, <1>0 DEF Pause, MayCall, Paused, stream
<1>9. CASE Resume
  BY <1>9, <1>0 DEF Resume, MayCall, Resumed, stream
<1>10. CASE I2sClose
  BY <1>10, <1>0 DEF I2sClose, Released, stream
<1>11. CASE I2sCloseDone
  BY <1>11, <1>0 DEF I2sCloseDone, Released, stream
<1>12. CASE I2sIrqWake
  BY <1>12, <1>0 DEF I2sIrqWake, stream
<1>13. CASE I2sIrqAck
  BY <1>13, <1>0 DEF I2sIrqAck, i2sVars, stream
<1>14. CASE I2sComplete
  BY <1>14, <1>0 DEF I2sComplete, Complete, stream
<1>15. CASE Stall /\ UNCHANGED i2sVars
  BY <1>15, <1>0 DEF Stall, stream, i2sVars
<1>16. CASE driver = "ath79_pcm" /\ PcmNext /\ UNCHANGED i2sVars
  <2>1. driver' = driver
    BY <1>16 DEF PcmNext, PcmIrq, PcmOpen, HwParams, Prepare, TriggerStart, TriggerStop, HwFree,
       PcmClose, Poll, IrqRead, IrqLastPlayed, IrqSetOwn, IrqAck, IrqElapsed,
       PcmComplete, Stall, dmaVars
  <2> QED BY <1>16, <2>1 DEF i2sVars
<1>17. CASE UNCHANGED vars
  BY <1>17 DEF vars, dmaVars, i2sVars
<1> QED
  BY <1>1, <1>2, <1>3, <1>4, <1>5, <1>6, <1>7, <1>8, <1>9, <1>10, <1>11, <1>12, <1>13, <1>14, <1>15, <1>16, <1>17 DEF Next, I2sNext, I2sCall, I2sIrq

(* What a step of the stream does to the queue: nothing, or it takes the   *)
(* first one, or it puts one behind the last.                              *)
Same ==
  /\ Held' = Held /\ buf' = buf /\ First' = First /\ Last' = Last
  /\ given' = given /\ taken' = taken
Take ==
  /\ First \in Held /\ Held' = Held \ {First} /\ buf' = buf
  /\ First' = After(First) /\ Last' = Last
  /\ given' = given /\ taken' = buf[First]
Put ==
  /\ Last \notin Held /\ Held' = Held \cup {Last}
  /\ buf' = [buf EXCEPT ![Last] = Succ(given)]
  /\ First' = First /\ Last' = After(Last)
  /\ given' = Succ(given) /\ taken' = taken

Ends == First \in Descriptors /\ Last \in Descriptors
Active == driver = "ath_i2s" /\ phase # "closed" /\ ~faulted

(* A caller moves one buffer at its own end of the queue.                  *)
LEMMA CopyMoves == RingInv /\ Copy /\ Active => Take \/ Put
<1> SUFFICES ASSUME RingInv, Copy, Active PROVE Take \/ Put
  OBVIOUS
<1> USE DEF RingInv, TypeOK, DmaTypeOK, I2sTypeOK
<1>1. /\ call.pc = "copy" /\ call.at \in Descriptors /\ own[call.at] = 0
      /\ own' = [own EXCEPT ![call.at] = 1] /\ mode' = mode /\ pos' = pos
      /\ tail' = tail /\ opened' = opened
  BY DEF Copy, Available, stream
<1>2. call'.pc = "copy" /\ call'.at = After(call.at) /\ call'.start = call.start
  BY <1>1 DEF Copy
<1>3. CallAt = call.at /\ CallAt' = After(call.at) /\ EngineAt' = EngineAt
  BY <1>1, <1>2 DEF CallAt, EngineAt
<1>4. CASE mode = "playback"
  <2>1. call.at \notin Held /\ Held' = Held \cup {call.at}
    BY <1>1, <1>4 DEF Held
  <2>2. given' = Succ(given) /\ buf' = [buf EXCEPT ![call.at] = Succ(given)] /\ taken' = taken
    BY <1>4 DEF Copy
  <2> QED BY <1>1, <1>3, <1>4, <2>1, <2>2 DEF Put, First, Last
<1>5. CASE mode # "playback"
  <2>1. call.at \in Held /\ Held' = Held \ {call.at}
    BY <1>1, <1>5 DEF Held
  <2>2. given' = given /\ buf' = buf /\ taken' = buf[call.at]
    BY <1>5 DEF Copy
  <2> QED BY <1>1, <1>3, <1>5, <2>1, <2>2 DEF Take, First, Last
<1> QED BY <1>4, <1>5

(* The engine moves one at the other end.                                  *)
LEMMA CompleteMoves == RingInv /\ I2sComplete /\ Active => Take \/ Put
<1> SUFFICES ASSUME RingInv, I2sComplete, Active PROVE Take \/ Put
  OBVIOUS
<1> USE DEF RingInv, TypeOK, DmaTypeOK, I2sTypeOK
<1>1. /\ pos \in Descriptors /\ own[pos] = 1 /\ own' = [own EXCEPT ![pos] = 0]
      /\ pos' = After(pos) /\ mode' = mode /\ call' = call
      /\ tail' = tail /\ opened' = opened
  BY DEF I2sComplete, Complete, stream
<1>2. EngineAt = pos /\ EngineAt' = After(pos) /\ CallAt' = CallAt
  BY <1>1 DEF CallAt, EngineAt, Active, Control, I2sComplete, Complete
<1>3. CASE mode = "playback"
  <2>1. pos \in Held /\ Held' = Held \ {pos}
    BY <1>1, <1>3 DEF Held
  <2>2. given' = given /\ buf' = buf /\ taken' = buf[pos]
    BY <1>3 DEF I2sComplete
  <2> QED BY <1>1, <1>2, <1>3, <2>1, <2>2 DEF Take, First, Last
<1>4. CASE mode # "playback"
  <2>1. pos \notin Held /\ Held' = Held \cup {pos}
    BY <1>1, <1>4 DEF Held
  <2>2. given' = Succ(given) /\ buf' = [buf EXCEPT ![pos] = Succ(given)] /\ taken' = taken
    BY <1>4 DEF I2sComplete
  <2> QED BY <1>1, <1>2, <1>4, <2>1, <2>2 DEF Put, First, Last
<1> QED BY <1>3, <1>4

(* Every other step leaves the queue alone, unless it ends the stream.     *)
LEMMA OthersKeep ==
  ASSUME RingInv, I2sNext, Active, ~Copy, ~I2sComplete
  PROVE  Same \/ phase' = "closed" \/ faulted'
<1> USE DEF RingInv, Active
<1>0. /\ opened \in {0, 1, 2} /\ phase \in {"closed", "open", "closing"}
      /\ call \in [pc : {"idle", "wait", "copy"}, left : 0 .. MaxCount,
                   at : Descriptors, start : BOOLEAN, asleep : BOOLEAN]
  BY DEF TypeOK, I2sTypeOK
<1> DEFINE Ring == UNCHANGED <<mode, own, buf, given, taken>>
<1>h. Ring /\ UNCHANGED <<CallAt, EngineAt>> => Same
  BY DEF Same, Held, First, Last
<1>1. CASE \E n \in 1 .. MaxCount : Begin(n)
  <2>1. UNCHANGED <<CallAt, EngineAt>>
    <3>1. PICK n \in 1 .. MaxCount : Begin(n)
      BY <1>1
    <3>2. /\ call.pc = "idle" /\ ~call.start /\ opened' = 2 /\ tail' = tail /\ pos' = pos
          /\ call'.pc # "idle" /\ call'.at = tail /\ call'.start = (opened < 2)
      BY <3>1 DEF Begin, dmaVars, Control
    <3>3. CallAt' = CallAt
      BY <3>2 DEF CallAt
    <3>4. EngineAt' = IF opened < 2 THEN tail ELSE pos
      <4>1. CASE opened < 2
        BY <3>1, <3>2, <4>1 DEF Begin, EngineAt
      <4>2. CASE ~(opened < 2)
        <5>1. ~call'.start
          BY <3>1, <4>2 DEF Begin
        <5>2. ~(opened' < 2)
          BY <3>2
        <5> QED BY <3>2, <4>2, <5>1, <5>2 DEF EngineAt
      <4> QED BY <4>1, <4>2
    <3> QED BY <3>2, <3>3, <3>4 DEF EngineAt
  <2> QED BY <1>1, <2>1, <1>h DEF Begin, dmaVars
<1>2. CASE Wait
  <2>1. UNCHANGED <<CallAt, EngineAt>>
    BY <1>2, <1>0 DEF Wait, dmaVars, stream, CallAt, EngineAt, Control
  <2> QED BY <1>2, <2>1, <1>h DEF Wait, dmaVars
<1>3. CASE Signal
  <2>1. UNCHANGED <<CallAt, EngineAt>>
    BY <1>3, <1>0 DEF Signal, NoCall, dmaVars, stream, CallAt, EngineAt, Control
  <2> QED BY <1>3, <2>1, <1>h DEF Signal, dmaVars
<1>4. CASE Finish
  <2>1. CallAt' = CallAt
    BY <1>4, <1>0 DEF Finish, AfterCall, NoCall, CallAt, Control
  <2>2. EngineAt' = EngineAt
    BY <1>4, <1>0 DEF Finish, TellEngine, StartAt, AfterCall, NoCall, stream, EngineAt, Control
  <2> QED BY <1>4, <2>1, <2>2, <1>h DEF Finish
<1>5. CASE Pause
  <2>1. UNCHANGED <<CallAt, EngineAt>>
    BY <1>5 DEF Pause, CallAt, EngineAt
  <2> QED BY <1>5, <2>1, <1>h DEF Pause
<1>6. CASE Resume
  <2>1. UNCHANGED <<CallAt, EngineAt>>
    BY <1>6 DEF Resume, CallAt, EngineAt
  <2> QED BY <1>6, <2>1, <1>h DEF Resume
<1>7. CASE I2sClose /\ ~paused
  <2>1. UNCHANGED <<CallAt, EngineAt>>
    BY <1>7 DEF I2sClose, CallAt, EngineAt
  <2> QED BY <1>7, <2>1, <1>h DEF I2sClose
<1>8. CASE I2sIrqWake
  <2>1. UNCHANGED <<CallAt, EngineAt>>
    BY <1>8, <1>0 DEF I2sIrqWake, stream, CallAt, EngineAt
  <2> QED BY <1>8, <2>1, <1>h DEF I2sIrqWake
<1>9. CASE I2sIrqAck \/ (Stall /\ UNCHANGED i2sVars)
  <2>1. UNCHANGED <<CallAt, EngineAt>>
    BY <1>9 DEF I2sIrqAck, Stall, i2sVars, CallAt, EngineAt
  <2> QED BY <1>9, <2>1, <1>h DEF I2sIrqAck, Stall, i2sVars
<1>10. CASE CopyFails \/ I2sCloseDone \/ (I2sClose /\ paused)
  BY <1>10 DEF CopyFails, I2sCloseDone, I2sClose, Released
<1>11. ~I2sOpen
  BY DEF I2sOpen
<1> QED
  BY <1>1, <1>2, <1>3, <1>4, <1>5, <1>6, <1>7, <1>8, <1>9, <1>10, <1>11
     DEF I2sNext, I2sCall, I2sIrq

(* The engine and the caller are somewhere in the ring.                    *)
LEMMA EndsInRing == TypeOK => Ends /\ Held \in SUBSET Descriptors
  BY DEF TypeOK, DmaTypeOK, I2sTypeOK, Ends, First, Last, CallAt, EngineAt, Held

(* So the queue stays a queue, from an open to the close.                  *)
LEMMA QueueStep ==
  ASSUME RingInv, [Next]_vars, Active'
  PROVE  Queue(Held, buf, First, Last, given, taken)'
<1> USE DEF RingInv
<1>1. Ends /\ Held \in SUBSET Descriptors /\ given \in Numbers
      /\ buf \in [Descriptors -> Numbers] /\ Succ(given) \in Numbers
  BY EndsInRing, SuccIsNumber DEF TypeOK, I2sTypeOK
<1>2. CASE UNCHANGED vars
  <2>1. Same /\ Active
    BY <1>2 DEF vars, dmaVars, i2sVars, Same, Held, First, Last, CallAt, EngineAt, Active
  <2> QED BY <2>1 DEF Same, Active
<1>3. CASE driver = "ath79_pcm" /\ PcmNext /\ UNCHANGED i2sVars
  <2>1. driver' = driver
    BY <1>3 DEF PcmNext, PcmIrq, PcmOpen, HwParams, Prepare, TriggerStart, TriggerStop, HwFree,
       PcmClose, Poll, IrqRead, IrqLastPlayed, IrqSetOwn, IrqAck, IrqElapsed,
       PcmComplete, Stall, dmaVars
  <2> QED BY <1>3, <2>1 DEF Active
<1>4. CASE driver = "ath_i2s" /\ I2sNext /\ UNCHANGED pcmVars
  <2>1. CASE I2sOpen
    <3>1. Held' = {} /\ given' = taken' /\ First' = 0 /\ Last' = 0
      <4>1. call.pc = "idle" /\ ~call.start
        BY <2>1 DEF I2sOpen, Control
      <4>2. opened' = 1 /\ tail' = 0 /\ call' = call /\ taken' = given /\ given' = given
        BY <2>1 DEF I2sOpen
      <4>3. CallAt' = 0 /\ EngineAt' = 0
        BY <4>1, <4>2 DEF CallAt, EngineAt
      <4>4. Held' = {}
        <5>1. mode' = mode /\ \A d \in Descriptors : own'[d] = IF mode = "capture" THEN 1 ELSE 0
          BY <2>1 DEF I2sOpen, Given, Returned
        <5>2. mode \in {"playback", "capture"}
          BY DEF TypeOK, DmaTypeOK
        <5> QED BY <5>1, <5>2 DEF Held
      <4> QED BY <4>2, <4>3, <4>4 DEF First, Last
    <3> QED BY <3>1 DEF Queue
  <2>2. CASE ~I2sOpen
    <3>1. Active
      BY <1>4, <2>2 DEF Active, I2sNext, I2sCall, I2sIrq, Begin, Wait, Signal, Copy, CopyFails, Finish,
         Pause, Resume, MayCall, I2sClose, I2sCloseDone, Released, I2sIrqWake, I2sIrqAck, I2sComplete,
         Stall, i2sVars, stream
    <3>2. Same \/ Take \/ Put
      BY <1>4, <3>1, CopyMoves, CompleteMoves, OthersKeep DEF Active
    <3>3. Queue(Held, buf, First, Last, given, taken)
      BY <3>1 DEF Active
    <3>4. CASE Same
      BY <3>3, <3>4 DEF Same
    <3>5. CASE Take
      <4>1. Queue(Held \ {First}, buf, After(First), Last, given, buf[First])
        BY <1>1, <3>3, <3>5, QueueTake DEF Take, Ends
      <4> QED BY <3>5, <4>1 DEF Take
    <3>6. CASE Put
      <4>1. Queue(Held \cup {Last}, [buf EXCEPT ![Last] = Succ(given)], First,
                  After(Last), Succ(given), taken)
        BY <1>1, <3>3, <3>6, QueuePut DEF Put, Ends
      <4> QED BY <3>6, <4>1 DEF Put
    <3> QED BY <3>2, <3>4, <3>5, <3>6
  <2> QED BY <2>1, <2>2
<1> QED BY <1>2, <1>3, <1>4 DEF Next

(* The invariant is inductive.                                             *)
LEMMA Step == RingInv /\ [Next]_vars => RingInv'
<1> SUFFICES ASSUME RingInv, [Next]_vars PROVE RingInv'
  OBVIOUS
<1>1. TypeOK'
  <2>1. CASE UNCHANGED vars
    BY <2>1 DEF RingInv, TypeOK, DmaTypeOK, I2sTypeOK, PcmTypeOK, vars, dmaVars, i2sVars, pcmVars
  <2>2. CASE Next
    BY <2>2, I2sTypeStep, PcmTypeStep DEF RingInv, Next
  <2> QED BY <2>1, <2>2
<1>2. Control'
  BY ControlStep
<1>3. Active' => Queue(Held, buf, First, Last, given, taken)'
  BY QueueStep
<1> QED BY <1>1, <1>2, <1>3 DEF RingInv, Active

(* A step of the stream takes the next buffer or none, and close returns   *)
(* when all were taken.                                                    *)
LEMMA InOrderStep ==
  ASSUME RingInv, [Next]_vars
  PROVE  faulted \/ phase = "closed" \/
           /\ taken' \in {taken, Succ(taken)}
           /\ (phase = "closing" /\ phase' = "closed" /\ mode = "playback")
                => taken = given
<1> SUFFICES ASSUME ~faulted, phase # "closed"
             PROVE  /\ taken' \in {taken, Succ(taken)}
                    /\ (phase = "closing" /\ phase' = "closed" /\ mode = "playback")
                         => taken = given
  OBVIOUS
<1> USE DEF RingInv
<1>1. CASE UNCHANGED <<taken, phase>>
  BY <1>1
<1>2. CASE driver = "ath79_pcm" /\ PcmNext /\ UNCHANGED i2sVars
  BY <1>2 DEF i2sVars
<1>3. CASE driver = "ath_i2s" /\ I2sNext /\ UNCHANGED pcmVars
  <2>1. Active /\ Queue(Held, buf, First, Last, given, taken)
    BY <1>3 DEF Active
  <2>2. Ends /\ Held \in SUBSET Descriptors
    BY EndsInRing
  <2>3. CASE Copy \/ I2sComplete
    <3>1. Take \/ Put
      BY <2>1, <2>3, CopyMoves, CompleteMoves
    <3>2. taken' \in {taken, Succ(taken)}
      <4>1. CASE Take
        BY <2>1, <2>2, <4>1, QueueTake DEF Take, Ends
      <4>2. CASE Put
        BY <4>2 DEF Put
      <4> QED BY <3>1, <4>1, <4>2
    <3>3. phase' = phase
      BY <2>3 DEF Copy, I2sComplete, stream
    <3> QED BY <3>2, <3>3
  <2>4. CASE I2sCloseDone
    <3>1. taken' = taken
      BY <2>4 DEF I2sCloseDone
    <3>2. mode = "playback" => Held = {}
      BY <2>4 DEF I2sCloseDone, AllReturned, Held
    <3> QED BY <2>1, <3>1, <3>2 DEF Queue
  <2>5. CASE ~Copy /\ ~I2sComplete /\ ~I2sCloseDone
    <3>1. taken' = taken
      BY <1>3, <2>5 DEF I2sNext, I2sCall, I2sIrq, I2sOpen, Begin, Wait, Signal, CopyFails, Finish,
         Pause, Resume, I2sClose, I2sIrqWake, I2sIrqAck, Stall, i2sVars
    <3>2. phase = "closing" => phase' = phase
      BY <1>3, <2>5 DEF I2sNext, I2sCall, I2sIrq, I2sOpen, Begin, Wait, Signal, CopyFails, Finish,
         Pause, Resume, MayCall, I2sClose, I2sIrqWake, I2sIrqAck, Stall, i2sVars, stream
    <3> QED BY <3>1, <3>2
  <2> QED BY <2>3, <2>4, <2>5
<1> QED BY <1>1, <1>2, <1>3 DEF Next, vars, i2sVars

-----------------------------------------------------------------------------
(* For rings of any size and any number of calls every variable has its    *)
(* type: read, write, the handlers and the engine stay inside the ring.    *)
THEOREM TypeCorrect == Spec => []TypeOK
<1>1. RingInv => TypeOK
  BY DEF RingInv
<1> QED BY Initially, Step, <1>1, PTL DEF Spec

(* For rings of any size and any number of calls: the character device     *)
(* plays what was written and reads what was recorded, once and in order,  *)
(* and an unpaused close returns only when everything was played.          *)
THEOREM BuffersInOrder == Spec => StreamInOrder
<1>1. RingInv /\ [Next]_vars
        => [faulted \/ phase = "closed" \/
             /\ taken' \in {taken, Succ(taken)}
             /\ (phase = "closing" /\ phase' = "closed" /\ mode = "playback")
                  => taken = given]_vars
  BY InOrderStep
<1> QED BY Initially, Step, <1>1, PTL DEF Spec, StreamInOrder
-----------------------------------------------------------------------------
(* What ALSA is told.                                                      *)

(* How far it is round the ring from a to b.                               *)
Distance(a, b) == IF a <= b THEN b - a ELSE b - a + NumDesc

(* The n descriptors from s on, up to the engine, are finished; they and   *)
(* what lies between ALSA's position and s are not reported yet, also when *)
(* ALSA first goes to what ath79_pcm_pointer tells it.                     *)
Finished(s, n) ==
  /\ n = Distance(s, pos) \/ (n = NumDesc /\ s = pos)
  /\ \A d \in Descriptors : own[d] = 0 <=> Distance(s, d) < n
Unreported(s, n) == Distance(hwptr, s) + n <= lag
Covered(s, n) == Distance(hwptr, Pointer) + Distance(Pointer, s) + n <= lag

(* Of the descriptors below d only the last one before the engine is       *)
(* finished, if it was finished while the handler ran.                     *)
SlippedOnly(d) ==
  /\ Covered(pos, 0)
  /\ \A e \in Descriptors :
       e < d /\ own[e] = 0 => e = Before(pos) /\ slipped /\ Covered(Before(pos), 1)

(* Between two runs of the handler ALSA may only ask while at most one     *)
(* descriptor, which slipped in, is finished.  A handler that looks for the*)
(* engine has it before it, or finds the whole ring finished, or the       *)
(* engine has just gone on to descriptor 0, which is what NULL stands for. *)
Running ==
  /\ irq = "idle" =>
       \E s \in Descriptors, n \in 0 .. NumDesc :
         /\ Finished(s, n) /\ Unreported(s, n)
         /\ done => n > 0
         /\ ~done => n <= 1 /\ Covered(s, n)
  /\ irq = "last" =>
       \E s \in Descriptors, n \in 1 .. NumDesc :
         /\ Finished(s, n) /\ Unreported(s, n)
         /\ walk <= pos \/ n = NumDesc \/ (pos = 0 /\ slipped)
  /\ irq = "own" => SlippedOnly(walk)
  /\ irq \in {"ack", "elapsed"} => SlippedOnly(NumDesc)
  /\ irq = "elapsed" /\ done => \E d \in Descriptors : own[d] = 0

PointerInv ==
  /\ lag >= 0
  /\ state # "running" => engine = "stopped"
  /\ state = "prepared" =>
       Quiet /\ own = Given /\ hwptr = 0 /\ lag = 0 /\ last_played = NULL
  /\ state = "running" => Running

(* The way round the ring, and what ALSA computes for it.                  *)
LEMMA Distances ==
  ASSUME NEW a \in Descriptors, NEW b \in Descriptors
  PROVE  /\ Distance(a, b) \in 0 .. NumDesc - 1 /\ Distance(a, a) = 0
         /\ Distance(a, b) = 0 => a = b
         /\ (b - a) % NumDesc = Distance(a, b)
         /\ Distance(a, After(b)) = IF a = After(b) THEN 0 ELSE Distance(a, b) + 1
         /\ a = After(b) => Distance(a, b) = NumDesc - 1
<1>1. NumDesc \in Nat /\ NumDesc >= 2 /\ a \in 0 .. NumDesc - 1 /\ b \in 0 .. NumDesc - 1
  BY AthMboxDmaAssumption DEF Descriptors
<1>2. (b - a) % NumDesc = Distance(a, b)
  <2>1. CASE a <= b
    <3>1. b - a \in Nat /\ b - a < NumDesc
      BY <1>1, <2>1
    <3>2. \A n \in Nat \ {0}, x \in Nat : x < n => x % n = x
      OBVIOUS
    <3> QED BY <1>1, <2>1, <3>1, <3>2 DEF Distance
  <2>2. CASE ~(a <= b)
    <3>1. b - a \in Int /\ b - a < 0 /\ -NumDesc <= b - a
      BY <1>1, <2>2
    <3>2. \A n \in Nat \ {0}, x \in Int : x < 0 /\ -n <= x => x % n = x + n
      OBVIOUS
    <3>3. (b - a) % NumDesc = (b - a) + NumDesc
      <4>1. NumDesc \in Nat \ {0}
        BY <1>1
      <4> QED BY <3>1, <3>2, <4>1, Zenon
    <3>4. Distance(a, b) = (b - a) + NumDesc
      BY <1>1, <2>2 DEF Distance
    <3> QED BY <3>3, <3>4, Zenon
  <2> QED BY <2>1, <2>2
<1> QED BY <1>1, <1>2 DEF Distance, After

LEMMA Detour ==
  ASSUME NEW a \in Descriptors, NEW b \in Descriptors, NEW c \in Descriptors
  PROVE  /\ Distance(a, c) <= Distance(a, b) + Distance(b, c)
         /\ Distance(a, b) + Distance(b, c) <= Distance(a, c) + NumDesc
         /\ Distance(a, b) = Distance(a, c) => b = c
  BY AthMboxDmaAssumption DEF Descriptors, Distance

(* What the invariants speak of is in the ring.                            *)
LEMMA PcmTypes ==
  ASSUME TypeOK
  PROVE  /\ NumDesc \in Nat /\ NumDesc >= 2 /\ 0 \in Descriptors
         /\ pos \in Descriptors /\ hwptr \in Descriptors /\ Pointer \in Descriptors
         /\ walk \in Descriptors /\ own \in [Descriptors -> {0, 1}]
         /\ lag \in Int /\ done \in BOOLEAN /\ slipped \in BOOLEAN
         /\ Before(pos) \in Descriptors /\ After(Before(pos)) = pos
         /\ Distance(Before(pos), pos) = 1
<1>1. NumDesc \in Nat /\ NumDesc >= 2 /\ 0 \in Descriptors /\ pos \in Descriptors
      /\ hwptr \in Descriptors /\ walk \in Descriptors /\ own \in [Descriptors -> {0, 1}]
      /\ lag \in Int /\ done \in BOOLEAN /\ slipped \in BOOLEAN
      /\ last_played \in Descriptors \cup {NULL}
  BY AthMboxDmaAssumption DEF TypeOK, DmaTypeOK, PcmTypeOK, Descriptors
<1>2. Pointer \in Descriptors
  BY <1>1 DEF Pointer
<1>3. Before(pos) \in Descriptors /\ After(Before(pos)) = pos /\ Distance(Before(pos), pos) = 1
  BY <1>1 DEF Before, After, Distance, Descriptors
<1> QED BY <1>1, <1>2, <1>3

(* The engine finishes the descriptor it is at: there are n + 1 from s on. *)
LEMMA OneMore ==
  ASSUME TypeOK, Complete, NEW s \in Descriptors, NEW n \in 0 .. NumDesc, Finished(s, n)
  PROVE  n < NumDesc /\ Finished(s, n + 1)'
<1>1. NumDesc \in Nat /\ NumDesc >= 2 /\ pos \in Descriptors /\ own \in [Descriptors -> {0, 1}]
  BY PcmTypes
<1>2. own[pos] = 1 /\ own' = [own EXCEPT ![pos] = 0] /\ pos' = After(pos)
  BY DEF Complete
<1>3. n = Distance(s, pos) /\ n < NumDesc
  <2>1. ~(Distance(s, pos) < n)
    BY <1>1, <1>2 DEF Finished
  <2>2. Distance(pos, pos) = 0 /\ Distance(s, pos) \in 0 .. NumDesc - 1
    BY <1>1, Distances
  <2> QED BY <1>1, <2>1, <2>2 DEF Finished
<1>4. \A d \in Descriptors : own'[d] = 0 <=> Distance(s, d) < n + 1
  <2> SUFFICES ASSUME NEW d \in Descriptors
               PROVE  own'[d] = 0 <=> Distance(s, d) < n + 1
    OBVIOUS
  <2>1. own'[d] = IF d = pos THEN 0 ELSE own[d]
    BY <1>1, <1>2
  <2>2. Distance(s, d) \in Nat /\ (Distance(s, d) = n => d = pos) /\ (d = pos => Distance(s, d) = n)
    <3>1. Distance(s, d) \in Nat /\ (d = pos => Distance(s, d) = n)
      BY <1>1, <1>3, Distances
    <3>2. Distance(s, d) = n => d = pos
      BY <1>1, <1>3, Detour
    <3> QED BY <3>1, <3>2
  <2>3. own[d] = 0 <=> Distance(s, d) < n
    BY DEF Finished
  <2> QED BY <2>1, <2>2, <2>3
<1>5. n + 1 = Distance(s, pos') \/ (n + 1 = NumDesc /\ s = pos')
  <2>1. Distance(s, After(pos)) = IF s = After(pos) THEN 0 ELSE Distance(s, pos) + 1
    BY <1>1, Distances
  <2>2. s = After(pos) => Distance(s, pos) = NumDesc - 1
    BY <1>1, Distances
  <2> QED BY <1>1, <1>2, <1>3, <2>1, <2>2
<1> QED BY <1>3, <1>4, <1>5 DEF Finished

(* The least of two numbers.                                               *)
LEMMA MinIsLeast ==
  ASSUME NEW a \in Int, NEW b \in Int
  PROVE  Min({a, b}) = IF a <= b THEN a ELSE b
<1>1. \E x \in {a, b} : \A y \in {a, b} : x <= y
  BY a <= b \/ b <= a
<1>2. Min({a, b}) \in {a, b} /\ \A y \in {a, b} : Min({a, b}) <= y
  BY <1>1 DEF Min
<1> QED BY <1>2

(* So there is one more to be reported, and the bound of lag is never in   *)
(* the way.                                                                *)
LEMMA OneMoreToReport ==
  ASSUME TypeOK, PcmComplete
  PROVE  /\ lag >= 0 => lag' >= 0
         /\ \A x \in Nat : x <= lag /\ x < 2 * NumDesc => x + 1 <= lag'
<1>1. NumDesc \in Nat /\ lag \in Int
  BY PcmTypes
<1>2. lag' = IF lag + 1 <= 2 * NumDesc THEN lag + 1 ELSE 2 * NumDesc
  BY <1>1, MinIsLeast DEF PcmComplete
<1> QED BY <1>1, <1>2

LEMMA CompleteKeepsPointer ==
  ASSUME LastBytes >= SlipBytes, TypeOK, PointerInv, PcmComplete
  PROVE  PointerInv'
<1>1. /\ UNCHANGED <<state, engine, irq, last_played, hwptr, walk>> /\ Complete /\ engine = "running"
      /\ state = "running" /\ Running /\ lag >= 0
      /\ irq # "idle" => ~slipped /\ slipped' /\ done'
      /\ done'
  <2>1. ~(Size(pos) < SlipBytes)
    BY Ath79PcmAssumption DEF Size
  <2> QED BY <2>1 DEF PcmComplete, Complete, PointerInv
<1>2. /\ NumDesc \in Nat /\ NumDesc >= 2 /\ pos \in Descriptors /\ hwptr \in Descriptors
      /\ Pointer \in Descriptors /\ walk \in Descriptors /\ own \in [Descriptors -> {0, 1}] /\ lag \in Int
  BY PcmTypes
<1>3. /\ own[pos] = 1 /\ own' = [own EXCEPT ![pos] = 0] /\ pos' = After(pos) /\ Pointer' = Pointer
  BY <1>1 DEF Complete, Pointer
<1>4. lag' >= 0 /\ \A x \in Nat : x <= lag /\ x < 2 * NumDesc => x + 1 <= lag'
  BY <1>1, OneMoreToReport
<1>5. ASSUME NEW s \in Descriptors, NEW n \in 0 .. NumDesc, Finished(s, n), Unreported(s, n)
      PROVE  n + 1 \in 1 .. NumDesc /\ Finished(s, n + 1)' /\ Unreported(s, n + 1)'
  <2>1. n < NumDesc /\ Finished(s, n + 1)'
    BY <1>1, <1>5, OneMore
  <2>2. Distance(hwptr, s) \in 0 .. NumDesc - 1
    BY <1>2, Distances
  <2>3. Distance(hwptr, s) + n <= lag /\ Distance(hwptr, s) + n \in Nat
        /\ Distance(hwptr, s) + n < 2 * NumDesc
    BY <1>2, <1>5, <2>1, <2>2 DEF Unreported
  <2>4. (Distance(hwptr, s) + n) + 1 <= lag'
    BY <1>4, <2>3
  <2> QED BY <1>1, <1>2, <2>1, <2>2, <2>4 DEF Unreported
<1>6. ASSUME irq # "idle", NEW d \in 0 .. NumDesc, SlippedOnly(d)
      PROVE  SlippedOnly(d)'
  <2>1. pos' \in Descriptors /\ Before(pos') = pos
    BY <1>2, <1>3 DEF After, Before, Descriptors
  <2>2. /\ Distance(hwptr, Pointer) \in 0 .. NumDesc - 1
        /\ Distance(Pointer, pos) \in 0 .. NumDesc - 1
        /\ Distance(Pointer, pos') \in 0 .. NumDesc - 1
        /\ Distance(Pointer, pos') <= Distance(Pointer, pos) + 1
    BY <1>2, <1>3, <2>1, Distances
  <2>3. Distance(hwptr, Pointer) + Distance(Pointer, pos) <= lag
    BY <1>2, <1>6, <2>2 DEF SlippedOnly, Covered
  <2>4. (Distance(hwptr, Pointer) + Distance(Pointer, pos)) + 1 <= lag'
    BY <1>2, <1>4, <2>2, <2>3
  <2>5. lag' \in Int
    BY <1>2, MinIsLeast DEF PcmComplete
  <2>6. Covered(pos, 0)'
    BY <1>1, <1>3, <2>2, <2>4, <2>5 DEF Covered
  <2>7. Distance(hwptr', Pointer') + Distance(Pointer', Before(pos')) + 1 <= lag'
    BY <1>1, <1>3, <2>1, <2>4
  <2>8. ASSUME NEW e \in Descriptors, e < d, own'[e] = 0 PROVE e = Before(pos')
    <3>1. own[e] # 0
      BY <1>1, <1>6, <2>8 DEF SlippedOnly
    <3> QED BY <1>2, <1>3, <2>1, <2>8, <3>1
  <2> QED BY <1>1, <1>6, <2>6, <2>7, <2>8 DEF SlippedOnly, Covered
<1>7. CASE irq = "idle"
  <2>1. PICK s \in Descriptors, n \in 0 .. NumDesc : Finished(s, n) /\ Unreported(s, n)
    BY <1>1, <1>7 DEF Running
  <2>2. n + 1 \in 1 .. NumDesc /\ n + 1 \in 0 .. NumDesc /\ Finished(s, n + 1)' /\ Unreported(s, n + 1)'
    BY <1>2, <1>5, <2>1
  <2>3. n + 1 > 0
    BY <2>2
  <2>4. Running'
    BY <1>1, <1>7, <2>2, <2>3 DEF Running
  <2> QED BY <1>1, <1>4, <2>4 DEF PointerInv
<1>8. CASE irq = "last"
  <2>1. PICK s \in Descriptors, n \in 1 .. NumDesc :
          /\ Finished(s, n) /\ Unreported(s, n)
          /\ walk <= pos \/ n = NumDesc \/ (pos = 0 /\ slipped)
    BY <1>1, <1>8 DEF Running
  <2>2. n \in 0 .. NumDesc
    BY <1>2
  <2>3. n + 1 \in 1 .. NumDesc /\ Finished(s, n + 1)' /\ Unreported(s, n + 1)'
    BY <1>5, <2>1, <2>2
  <2>4. walk' <= pos' \/ (pos' = 0 /\ slipped')
    <3>1. walk <= pos
      BY <1>1, <1>2, <1>8, <2>1, <2>3
    <3> QED BY <1>1, <1>2, <1>3, <1>8, <3>1 DEF After, Descriptors
  <2>5. Running'
    BY <1>1, <1>8, <2>3, <2>4 DEF Running
  <2> QED BY <1>1, <1>4, <2>5 DEF PointerInv
<1>9. CASE irq = "own"
  <2>1. SlippedOnly(walk)'
    BY <1>1, <1>2, <1>6, <1>9 DEF Running, Descriptors
  <2>2. Running'
    BY <1>1, <1>9, <2>1 DEF Running
  <2> QED BY <1>1, <1>4, <2>2 DEF PointerInv
<1>10. CASE irq \in {"ack", "elapsed"}
  <2>1. SlippedOnly(NumDesc)'
    BY <1>1, <1>2, <1>6, <1>10 DEF Running
  <2>2. own'[pos] = 0
    BY <1>2, <1>3
  <2>3. Running'
    BY <1>1, <1>2, <1>10, <2>1, <2>2 DEF Running
  <2> QED BY <1>1, <1>4, <2>3 DEF PointerInv
<1>11. irq \in {"idle", "last", "own", "ack", "elapsed"}
  BY DEF TypeOK, DmaTypeOK
<1> QED BY <1>7, <1>8, <1>9, <1>10, <1>11

(* What ALSA takes for an advance was finished.                            *)
LEMMA AdvanceCovered ==
  ASSUME TypeOK, Advance, UNCHANGED last_played,
         NEW s \in Descriptors, NEW n \in 0 .. NumDesc, Covered(s, n)
  PROVE  lag' >= 0 /\ Covered(s, n)' /\ Unreported(s, n)'
<1>1. /\ NumDesc \in Nat /\ hwptr \in Descriptors /\ Pointer \in Descriptors /\ lag \in Int
  BY PcmTypes
<1>2. Pointer' = Pointer /\ hwptr' = Pointer /\ lag' = lag - Distance(hwptr, Pointer)
  BY <1>1, Distances DEF Advance, Pointer
<1>3. /\ Distance(hwptr, Pointer) \in 0 .. NumDesc - 1 /\ Distance(Pointer, Pointer) = 0
      /\ Distance(Pointer, s) \in 0 .. NumDesc - 1
  BY <1>1, Distances
<1>4. Distance(Pointer, s) + n <= lag'
  BY <1>1, <1>2, <1>3 DEF Covered
<1>5. lag' \in Int /\ lag' >= 0
  BY <1>1, <1>2, <1>3, <1>4
<1> QED BY <1>2, <1>3, <1>4, <1>5 DEF Covered, Unreported

(* A covered descriptor is one still to be reported.                       *)
LEMMA CoveredUnreported ==
  ASSUME TypeOK, NEW s \in Descriptors, NEW n \in 0 .. NumDesc, Covered(s, n)
  PROVE  Unreported(s, n)
<1>1. /\ NumDesc \in Nat /\ hwptr \in Descriptors /\ Pointer \in Descriptors /\ lag \in Int
  BY PcmTypes
<1>2. /\ Distance(hwptr, s) <= Distance(hwptr, Pointer) + Distance(Pointer, s)
      /\ Distance(hwptr, s) \in Nat /\ Distance(hwptr, Pointer) \in Nat
      /\ Distance(Pointer, s) \in Nat
  BY <1>1, Detour, Distances
<1> QED BY <1>1, <1>2 DEF Covered, Unreported

(* When the stream is prepared nothing is finished or reported.            *)
LEMMA StartKeepsPointer ==
  ASSUME TypeOK, PointerInv, TriggerStart
  PROVE  PointerInv'
<1>1. /\ irq' = "idle" /\ ~done' /\ own' = Given /\ hwptr' = 0 /\ lag' = 0 /\ last_played' = NULL
      /\ pos' = 0 /\ state' = "running"
  BY DEF TriggerStart, PointerInv, Quiet, StartAt, alsa
<1>2. 0 \in Descriptors /\ 0 \in 0 .. NumDesc /\ Distance(0, 0) = 0
      /\ \A d \in Descriptors : Distance(0, d) \in Nat
  BY PcmTypes, Distances
<1>3. Finished(0, 0)'
  <2>1. \A d \in Descriptors : own'[d] = 1 /\ ~(Distance(0, d) < 0)
    BY <1>1, <1>2 DEF Given
  <2> QED BY <1>1, <1>2, <2>1 DEF Finished
<1>4. Pointer' = 0
  BY <1>1 DEF Pointer
<1>5. Unreported(0, 0)' /\ Covered(0, 0)'
  BY <1>1, <1>2, <1>4 DEF Unreported, Covered
<1>6. Running'
  BY <1>1, <1>2, <1>3, <1>5 DEF Running
<1> QED BY <1>1, <1>6 DEF PointerInv

LEMMA PollKeepsPointer ==
  ASSUME TypeOK, PointerInv, Poll
  PROVE  PointerInv'
<1>1. /\ state = "running" /\ Running /\ irq = "idle" /\ ~done /\ Advance
      /\ UNCHANGED <<state, own, pos, done, irq, last_played>>
  BY DEF Poll, PointerInv, Quiet, dmaVars
<1>2. PICK s \in Descriptors, n \in 0 .. NumDesc :
        Finished(s, n) /\ n <= 1 /\ Covered(s, n)
  BY <1>1 DEF Running
<1>3. lag' >= 0 /\ Covered(s, n)' /\ Unreported(s, n)'
  BY <1>1, <1>2, AdvanceCovered
<1>4. Finished(s, n)'
  BY <1>1, <1>2 DEF Finished
<1>5. Running'
  BY <1>1, <1>2, <1>3, <1>4 DEF Running
<1> QED BY <1>1, <1>3, <1>5 DEF PointerInv

-----------------------------------------------------------------------------
(* The steps of the handler.                                               *)
LEMMA ReadKeepsPointer ==
  ASSUME TypeOK, PointerInv, state = "running", IrqRead
  PROVE  Running'
<1>1. /\ done /\ irq = "idle" /\ irq' = "last" /\ walk' = 0 /\ Running
      /\ UNCHANGED <<own, pos, hwptr, lag>>
  BY DEF IrqRead, PointerInv, alsa
<1>2. PICK s \in Descriptors, n \in 0 .. NumDesc : Finished(s, n) /\ Unreported(s, n) /\ n > 0
  BY <1>1 DEF Running
<1>3. n \in 1 .. NumDesc /\ walk' <= pos'
  BY <1>1, <1>2, PcmTypes DEF Descriptors
<1>4. Finished(s, n)' /\ Unreported(s, n)'
  BY <1>1, <1>2 DEF Finished, Unreported
<1> QED BY <1>1, <1>3, <1>4 DEF Running

(* The handler finds the engine, or goes on, or finds the list at its end. *)
LEMMA LastPlayedKeepsPointer ==
  ASSUME TypeOK, PointerInv, state = "running", IrqLastPlayed
  PROVE  Running'
<1>1. /\ irq = "last" /\ Running /\ UNCHANGED <<own, pos, hwptr, lag, slipped>>
      /\ irq' \in {"last", "own"}
  BY DEF IrqLastPlayed, PointerInv, alsa
<1>2. /\ NumDesc \in Nat /\ NumDesc >= 2 /\ pos \in Descriptors /\ hwptr \in Descriptors
      /\ walk \in Descriptors /\ own \in [Descriptors -> {0, 1}] /\ lag \in Int
      /\ 0 \in Descriptors /\ Before(pos) \in Descriptors /\ After(Before(pos)) = pos
  BY PcmTypes
<1>3. PICK s \in Descriptors, n \in 1 .. NumDesc :
        /\ Finished(s, n) /\ Unreported(s, n)
        /\ walk <= pos \/ n = NumDesc \/ (pos = 0 /\ slipped)
  BY <1>1 DEF Running
<1>4. Finished(s, n)' /\ Unreported(s, n)'
  BY <1>1, <1>3 DEF Finished, Unreported
<1>5. /\ Distance(hwptr, s) \in 0 .. NumDesc - 1 /\ Distance(s, pos) \in 0 .. NumDesc - 1
      /\ Distance(hwptr, pos) <= Distance(hwptr, s) + Distance(s, pos)
      /\ Distance(hwptr, 0) + Distance(0, pos) <= Distance(hwptr, pos) + NumDesc
      /\ Distance(hwptr, 0) \in 0 .. NumDesc - 1 /\ Distance(0, pos) \in 0 .. NumDesc - 1
      /\ Distance(hwptr, pos) \in 0 .. NumDesc - 1 /\ Distance(pos, pos) = 0
  BY <1>2, Distances, Detour
<1>6. Distance(hwptr, s) + n <= lag
  BY <1>3 DEF Unreported
<1>7. Distance(hwptr, pos) <= lag
  BY <1>2, <1>3, <1>5, <1>6 DEF Finished
<1>8. AtEngine <=> walk = pos /\ n < NumDesc
  <2>1. CASE n = NumDesc
    BY <1>2, <1>3, <2>1, Distances DEF Finished, AtEngine
  <2>2. CASE n < NumDesc
    <3>1. n = Distance(s, pos)
      BY <1>3, <2>2 DEF Finished
    <3>2. own[pos] = 1 /\ own[Before(pos)] = 0
      <4>1. own[pos] # 0
        BY <1>2, <1>3, <3>1, <1>5 DEF Finished
      <4>2. Distance(s, pos) = IF s = pos THEN 0 ELSE Distance(s, Before(pos)) + 1
        <5>1. Distance(s, After(Before(pos)))
                = IF s = After(Before(pos)) THEN 0 ELSE Distance(s, Before(pos)) + 1
          BY <1>2, Distances
        <5> QED BY <1>2, <5>1
      <4>3. Distance(s, Before(pos)) < n
        <5>1. s # pos
          BY <1>5, <3>1
        <5>2. Distance(s, Before(pos)) \in Nat
          BY <1>2, Distances
        <5> QED BY <3>1, <4>2, <5>1, <5>2
      <4> QED BY <1>2, <1>3, <4>1, <4>3 DEF Finished
    <3>3. ASSUME AtEngine PROVE walk = pos
      <4>1. /\ Before(walk) \in Descriptors /\ After(Before(walk)) = walk
        BY <1>2 DEF Before, After, Descriptors
      <4>2. ~(Distance(s, walk) < n) /\ Distance(s, Before(walk)) < n
        BY <1>2, <1>3, <3>3, <4>1 DEF AtEngine, Finished
      <4>3. Distance(s, walk) = IF s = walk THEN 0 ELSE Distance(s, Before(walk)) + 1
        BY <4>1, Distances
      <4>4. Distance(s, walk) \in Nat /\ Distance(s, Before(walk)) \in Nat
        BY <1>2, <4>1, Distances
      <4>5. Distance(s, walk) = n
        BY <4>2, <4>3, <4>4
      <4> QED BY <1>2, <3>1, <4>5, Detour
    <3>4. walk = pos => AtEngine
      BY <3>2 DEF AtEngine
    <3> QED BY <2>2, <3>3, <3>4
  <2>3. n = NumDesc \/ n < NumDesc
    BY <1>2, <1>3
  <2> QED BY <2>1, <2>2, <2>3, Zenon
<1>9. ASSUME walk' = 0, Distance(hwptr, Pointer') + Distance(Pointer', pos) <= lag
      PROVE  SlippedOnly(walk)'
  <2>1. \A d \in Descriptors : ~(d < walk')
    BY <1>9 DEF Descriptors
  <2>2. Covered(pos, 0)'
    <3>1. Distance(hwptr', Pointer') + Distance(Pointer', pos') + 0 <= lag'
      <4>1. Pointer' \in Descriptors
        <5>1. last_played' \in Descriptors \cup {NULL}
          BY <1>2 DEF IrqLastPlayed, TypeOK, PcmTypeOK
        <5> QED BY <1>2, <5>1 DEF Pointer
      <4>2. Distance(hwptr, Pointer') \in Nat /\ Distance(Pointer', pos) \in Nat
        BY <1>2, <4>1, Distances
      <4> QED BY <1>1, <1>9, <4>2
    <3> QED BY <3>1 DEF Covered
  <2> QED BY <2>1, <2>2 DEF SlippedOnly
<1>10. CASE AtEngine
  <2>1. last_played' = walk /\ irq' = "own" /\ walk' = 0 /\ walk = pos
    BY <1>8, <1>10 DEF IrqLastPlayed
  <2>2. Pointer' = pos
    BY <1>2, <2>1 DEF Pointer, NULL, Descriptors
  <2>3. Distance(hwptr, Pointer') + Distance(Pointer', pos) <= lag
    BY <1>2, <1>5, <1>7, <2>2
  <2>4. SlippedOnly(walk)'
    BY <1>9, <2>1, <2>3
  <2> QED BY <2>1, <2>4 DEF Running
<1>11. CASE ~AtEngine /\ walk = NumDesc - 1
  <2>1. last_played' = NULL /\ irq' = "own" /\ walk' = 0 /\ Pointer' = 0
    BY <1>11 DEF IrqLastPlayed, Pointer
  <2>2. n = NumDesc \/ pos = 0
    BY <1>2, <1>3, <1>8, <1>11 DEF Descriptors
  <2>3. Distance(hwptr, Pointer') + Distance(Pointer', pos) <= lag
    <3>1. CASE pos = 0
      BY <1>2, <1>5, <1>7, <2>1, <3>1
    <3>2. CASE n = NumDesc
      <4>1. s = pos
        BY <1>3, <1>5, <3>2 DEF Finished
      <4> QED BY <1>2, <1>5, <1>6, <2>1, <3>2, <4>1
    <3> QED BY <2>2, <3>1, <3>2
  <2>4. SlippedOnly(walk)'
    BY <1>9, <2>1, <2>3
  <2> QED BY <2>1, <2>4 DEF Running
<1>12. CASE ~AtEngine /\ walk # NumDesc - 1
  <2>1. irq' = "last" /\ walk' = walk + 1
    BY <1>1, <1>12 DEF IrqLastPlayed
  <2>2. walk' <= pos' \/ n = NumDesc \/ (pos' = 0 /\ slipped')
    BY <1>1, <1>2, <1>3, <1>8, <1>12, <2>1 DEF Descriptors
  <2> QED BY <1>4, <2>1, <2>2 DEF Running
<1> QED BY <1>10, <1>11, <1>12

LEMMA SetOwnKeepsPointer ==
  ASSUME TypeOK, PointerInv, state = "running", IrqSetOwn
  PROVE  Running'
<1>1. /\ irq = "own" /\ Running /\ own' = [own EXCEPT ![walk] = 1]
      /\ UNCHANGED <<pos, hwptr, lag, slipped, last_played>>
      /\ IF walk = NumDesc - 1 THEN irq' = "ack" ELSE walk' = walk + 1 /\ irq' = "own"
  BY DEF IrqSetOwn, PointerInv, alsa
<1>2. NumDesc \in Nat /\ walk \in Descriptors /\ own \in [Descriptors -> {0, 1}]
  BY PcmTypes
<1>3. SlippedOnly(walk) /\ Pointer' = Pointer
  BY <1>1 DEF Running, Pointer
<1>4. Covered(pos, 0)'
  BY <1>1, <1>3 DEF SlippedOnly, Covered
<1>5. ASSUME NEW e \in Descriptors, e <= walk, own'[e] = 0
      PROVE  e = Before(pos') /\ slipped' /\ Covered(Before(pos), 1)'
  <2>1. e < walk /\ own[e] = 0
    BY <1>1, <1>2, <1>5 DEF Descriptors
  <2>2. e = Before(pos) /\ slipped /\ Covered(Before(pos), 1)
    BY <1>3, <2>1 DEF SlippedOnly
  <2> QED BY <1>1, <1>3, <2>2 DEF Covered, Before
<1>6. CASE walk = NumDesc - 1
  <2>1. \A e \in Descriptors : e <= walk
    BY <1>2, <1>6 DEF Descriptors
  <2>2. SlippedOnly(NumDesc)' /\ irq' = "ack"
    BY <1>1, <1>4, <1>5, <1>6, <2>1 DEF SlippedOnly
  <2> QED BY <2>2 DEF Running
<1>7. CASE walk # NumDesc - 1
  <2>1. \A e \in Descriptors : e < walk' => e <= walk
    BY <1>1, <1>2, <1>7 DEF Descriptors
  <2>2. SlippedOnly(walk)' /\ irq' = "own"
    BY <1>1, <1>4, <1>5, <1>7, <2>1 DEF SlippedOnly
  <2> QED BY <2>2 DEF Running
<1> QED BY <1>6, <1>7

LEMMA AckKeepsPointer ==
  ASSUME TypeOK, PointerInv, state = "running", IrqAck
  PROVE  Running'
<1>1. /\ irq = "ack" /\ irq' = "elapsed" /\ ~done' /\ Running
      /\ UNCHANGED <<own, pos, hwptr, lag, slipped, last_played>>
  BY DEF IrqAck, PointerInv, alsa
<1>2. SlippedOnly(NumDesc)'
  BY <1>1 DEF Running, SlippedOnly, Covered, Pointer
<1> QED BY <1>1, <1>2 DEF Running

(* The handler ends, with at most one descriptor finished meanwhile.       *)
LEMMA ElapsedKeepsPointer ==
  ASSUME TypeOK, PointerInv, IrqElapsed
  PROVE  PointerInv'
<1>1. /\ irq = "elapsed" /\ irq' = "idle" /\ UNCHANGED last_played
      /\ \/ Advance /\ state = "running"
         \/ UNCHANGED <<alsa, state>>
      /\ \/ state' = "setup" /\ engine' = "stopped" /\ state = "running"
         \/ UNCHANGED <<state, engine, own, pos, done>>
      /\ state # "prepared" /\ lag >= 0
  BY DEF IrqElapsed, PointerInv, Quiet
<1>2. CASE state # "running"
  BY <1>1, <1>2 DEF PointerInv, alsa
<1>3. CASE state = "running"
  <2>1. SlippedOnly(NumDesc) /\ (done => \E d \in Descriptors : own[d] = 0)
    BY <1>1, <1>3 DEF PointerInv, Running
  <2>2. /\ NumDesc \in Nat /\ NumDesc >= 2 /\ pos \in Descriptors /\ Before(pos) \in Descriptors
        /\ Distance(Before(pos), pos) = 1 /\ Distance(pos, pos) = 0
        /\ \A d \in Descriptors : d < NumDesc
    <3>1. /\ NumDesc \in Nat /\ NumDesc >= 2 /\ pos \in Descriptors /\ Before(pos) \in Descriptors
          /\ Distance(Before(pos), pos) = 1
      BY PcmTypes
    <3>2. \A d \in Descriptors : d < NumDesc
      BY <3>1 DEF Descriptors
    <3> QED BY <3>1, <3>2, Distances
  <2>3. PICK s \in Descriptors, n \in 0 .. 1 :
          Finished(s, n) /\ Covered(s, n) /\ (done => n > 0)
    <3>1. CASE \A d \in Descriptors : own[d] # 0
      <4>1. \A d \in Descriptors : ~(Distance(pos, d) < 0)
        BY <2>2, Distances
      <4>2. Finished(pos, 0)
        BY <2>2, <3>1, <4>1 DEF Finished
      <4> QED BY <2>1, <2>2, <3>1, <4>2 DEF SlippedOnly
    <3>2. CASE ~ \A d \in Descriptors : own[d] # 0
      <4>1. PICK d \in Descriptors : own[d] = 0
        BY <3>2
      <4>2. own[Before(pos)] = 0 /\ Covered(Before(pos), 1)
            /\ \A e \in Descriptors : own[e] = 0 => e = Before(pos)
        BY <2>1, <2>2, <4>1 DEF SlippedOnly
      <4>3. \A e \in Descriptors : Distance(Before(pos), e) < 1 <=> e = Before(pos)
        <5> SUFFICES ASSUME NEW e \in Descriptors
                     PROVE  Distance(Before(pos), e) < 1 <=> e = Before(pos)
          OBVIOUS
        <5>1. Distance(Before(pos), e) \in Nat /\ (Distance(Before(pos), e) = 0 <=> e = Before(pos))
          BY <2>2, Distances
        <5> QED BY <5>1
      <4>4. Finished(Before(pos), 1)
        BY <2>2, <4>2, <4>3 DEF Finished
      <4> QED BY <2>2, <4>2, <4>4
    <3> QED BY <3>1, <3>2
  <2>4. n \in 0 .. NumDesc /\ n <= 1
    BY <2>2
  <2>5. lag' >= 0 /\ Covered(s, n)' /\ Unreported(s, n)'
    <3>1. CASE Advance
      BY <1>1, <2>3, <2>4, <3>1, AdvanceCovered
    <3>2. CASE UNCHANGED alsa
      BY <1>1, <2>3, <2>4, <3>2, CoveredUnreported DEF alsa, Covered, Unreported, Pointer
    <3> QED BY <1>1, <3>1, <3>2
  <2>6. CASE state' = "setup"
    BY <1>1, <2>5, <2>6 DEF PointerInv
  <2>7. CASE UNCHANGED <<state, engine, own, pos, done>>
    <3>1. Finished(s, n)'
      BY <2>3, <2>7 DEF Finished
    <3>2. Running'
      BY <1>1, <2>3, <2>4, <2>5, <2>7, <3>1 DEF Running
    <3> QED BY <1>1, <1>3, <2>5, <2>7, <3>2 DEF PointerInv
  <2> QED BY <1>1, <2>6, <2>7
<1> QED BY <1>2, <1>3

-----------------------------------------------------------------------------
LEMMA PcmKeepsPointer ==
  ASSUME LastBytes >= SlipBytes, TypeOK, PointerInv, PcmNext
  PROVE  PointerInv'
<1>1. CASE PcmOpen \/ HwParams \/ TriggerStop \/ HwFree \/ PcmClose
  <2>1. /\ state' \in {"open", "setup", "closed"} /\ lag' = lag
        /\ engine' = "stopped" \/ (engine' = engine /\ state # "running")
    BY <1>1 DEF PcmOpen, HwParams, TriggerStop, HwFree, PcmClose, dmaVars, alsa
  <2> QED BY <2>1 DEF PointerInv
<1>2. CASE Prepare
  <2>1. /\ state' = "prepared" /\ own' = Given /\ last_played' = NULL /\ hwptr' = 0 /\ lag' = 0
        /\ engine' = engine /\ state # "running" /\ Quiet'
    BY <1>2 DEF Prepare, Forgotten, Quiet
  <2> QED BY <2>1 DEF PointerInv
<1>3. CASE TriggerStart
  BY <1>3, StartKeepsPointer
<1>4. CASE Poll
  BY <1>4, PollKeepsPointer
<1>5. CASE IrqRead \/ IrqLastPlayed \/ IrqSetOwn \/ IrqAck
  <2>1. UNCHANGED <<state, engine, lag>> /\ ~Quiet
    BY <1>5 DEF IrqRead, IrqLastPlayed, IrqSetOwn, IrqAck, alsa, Quiet
  <2>2. state = "running" => Running'
    BY <1>5, ReadKeepsPointer, LastPlayedKeepsPointer, SetOwnKeepsPointer, AckKeepsPointer
  <2> QED BY <2>1, <2>2 DEF PointerInv
<1>6. CASE IrqElapsed
  BY <1>6, ElapsedKeepsPointer
<1>7. CASE PcmComplete
  BY <1>7, CompleteKeepsPointer
<1>8. CASE Stall /\ UNCHANGED pcmVars
  <2>1. /\ UNCHANGED <<own, pos, done, irq, state, last_played, walk, hwptr, lag, slipped>>
        /\ state = "running"
    BY <1>8 DEF Stall, pcmVars, PointerInv
  <2>2. Running'
    BY <2>1 DEF PointerInv, Running, Finished, Unreported, SlippedOnly, Covered, Pointer
  <2> QED BY <2>1, <2>2 DEF PointerInv
<1> QED BY <1>1, <1>2, <1>3, <1>4, <1>5, <1>6, <1>7, <1>8 DEF PcmNext, PcmIrq

TellInv == lag >= 0 /\ (driver = "ath79_pcm" => PointerInv)

LEMMA TellStep ==
  ASSUME LastBytes >= SlipBytes, TypeOK, TellInv, [Next]_vars
  PROVE  TellInv'
<1>1. CASE driver = "ath_i2s" /\ I2sNext /\ UNCHANGED pcmVars
  <2>1. driver' = driver /\ lag' = lag
    BY <1>1 DEF I2sNext, I2sCall, I2sIrq, I2sOpen, Begin, Wait, Signal, Copy, CopyFails, Finish, Pause,
       Resume, I2sClose, I2sCloseDone, I2sIrqWake, I2sIrqAck, I2sComplete, Stall, dmaVars, pcmVars
  <2> QED BY <1>1, <2>1 DEF TellInv
<1>2. CASE driver = "ath79_pcm" /\ PcmNext /\ UNCHANGED i2sVars
  <2>1. PointerInv'
    BY <1>2, PcmKeepsPointer DEF TellInv
  <2> QED BY <2>1 DEF TellInv, PointerInv
<1>3. CASE UNCHANGED vars
  <2>1. PointerInv => PointerInv'
    BY <1>3 DEF PointerInv, Running, Finished, Unreported, SlippedOnly, Covered, Pointer, Quiet, vars,
       dmaVars, pcmVars
  <2> QED BY <1>3, <2>1 DEF TellInv, vars, dmaVars, pcmVars
<1> QED BY <1>1, <1>2, <1>3 DEF Next

(* For rings of any size, periods of any length and any number of calls:   *)
(* ALSA is never told of a descriptor the engine has not finished, however *)
(* the engine goes on under the handler's walks of the list, when also the *)
(* last descriptor lasts longer than a run of the handler.                 *)
THEOREM PointerBehindEngine ==
  ASSUME LastBytes >= SlipBytes
  PROVE  Spec => []PointerNotAhead
<1>1. Init => TellInv
  <2>1. Init => lag = 0 /\ state = "closed" /\ engine = "stopped"
    BY DEF Init, DmaInit, PcmInit
  <2> QED BY <2>1 DEF TellInv, PointerInv
<1>2. TellInv => PointerNotAhead
  BY DEF TellInv, PointerNotAhead
<1>3. TypeOK /\ TellInv /\ [Next]_vars => TellInv'
  BY TellStep
<1> QED BY TypeCorrect, <1>1, <1>2, <1>3, PTL DEF Spec
=============================================================================
