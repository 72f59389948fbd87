------------------------- MODULE Mcp25xxfdRx_proofs -------------------------
(***************************************************************************)
(* Proofs about the receive path of the mcp25xxfd driver, for any number   *)
(* of FIFOs, frames, failing allocations and failing transfers: frames are *)
(* delivered in bus order, once, none is lost, and the object queue of a   *)
(* pass does not overflow.                                                 *)
(***************************************************************************)
EXTENDS Mcp25xxfdRx, ProofLemmas, FiniteSetTheorems

USE Mcp25xxfdRxAssumption

-----------------------------------------------------------------------------
(* The inductive invariant, one conjunct for each question.                *)

(* FIFOs that were filled when the status was read and are not released.   *)
Marked == IF pc = "clear" THEN status.rxif ELSE status.rxif \cup release
Reading == pc \in {"read", "release"}
Gathering == pc \in {"read", "release", "tef", "deliver"}

TypeInv == TypeOK /\ used.single <= used.faults

(* Every place holds events that were on the bus; received ones and own    *)
(* ones do not mix, and no event is in two FIFOs.                          *)
PlacesInv ==
  /\ own \subseteq 1 .. bus
  /\ \A f \in RxFifos : fifo[f] \in (0 .. bus) \ own
  /\ \A f, g \in RxFifos : f # g /\ fifo[f] = fifo[g] => fifo[f] = None
  /\ EventsIn(tef) \subseteq own
  /\ EventsIn(batch) \subseteq (1 .. bus) \ own
  /\ EventsIn(queued) \subseteq 1 .. bus
  /\ EventsIn(delivered) \subseteq 1 .. bus

(* A marked FIFO stays filled until it is released, and what is being      *)
(* released was read before.                                               *)
PassInv ==
  /\ pc = "clear" \/ Reading => \A f \in status.rxif : fifo[f] # None
  /\ pc = "read" => release = {} /\ batch = <<>>
  /\ pc = "release" =>
       /\ release # {} /\ release \cap status.rxif = {}
       /\ \A f \in release : fifo[f] # None
       /\ status.mode = "single" =>
            /\ batch = <<>> /\ \E f \in RxFifos : release = {f}
            /\ \A f \in release : fifo[f] \in EventsIn(queued)
       /\ status.mode = "bulk" => \A f \in release : fifo[f] \in EventsIn(batch)
  /\ Reading => EventsIn(queued) \cap own = {}

(* No two entries of a sequence are the same event, own ones excepted.     *)
Once(events, excepted) ==
  \A i, j \in 1 .. Len(events) :
    events[i] = events[j] /\ events[i] \notin excepted => i = j

(* Until a FIFO read on its own could not be released, a received event is *)
(* in one place, but for the FIFOs that are being released.                *)
OnceInv ==
  used.single = 0 =>
    /\ Once(delivered, own) /\ Once(queued, own) /\ Once(batch, {})
    /\ EventsIn(queued) \cap EventsIn(delivered) \subseteq own
    /\ EventsIn(batch) \cap (EventsIn(queued) \cup EventsIn(delivered)) = {}
    /\ \A f \in RxFifos :
         /\ fifo[f] \notin EventsIn(delivered)
         /\ fifo[f] \in EventsIn(queued)
              => pc = "release" /\ status.mode = "single" /\ f \in release
         /\ pc = "release" /\ status.mode = "bulk" /\ fifo[f] \in EventsIn(batch)
              => f \in release

(* The events of one place are older than those of another, or than what   *)
(* is in FIFOs.                                                            *)
Older(S, T) == \A x \in S, y \in T : x < y
Ahead(S, F) == \A x \in S, f \in F : fifo[f] # None => x < fifo[f]

(* The same but for a change of sign between two events of one pass.       *)
SortedIn(e, f, passes) == \E pass \in passes : {e, f} \subseteq pass
Precedes(e, f, passes) == e < f \/ (Era(e) # Era(f) /\ SortedIn(e, f, passes))
InOrder(events, excepted, passes) ==
  \A i, j \in 1 .. Len(events) :
    i < j /\ {events[i], events[j]} \cap excepted = {}
      => Precedes(events[i], events[j], passes)
Sooner(S, T, passes) == \A x \in S, y \in T : Precedes(x, y, passes)
NotLater(e, f) == Era(e) = Era(f) => e <= f
OfOnePass(S, passes) == \A x, y \in S : Era(x) = Era(y) \/ SortedIn(x, y, passes)

(* What was delivered is older than what was not, and what this pass reads *)
(* is older than what arrived since it read the status.  Only what one pass*)
(* has sorted may be in the wrong order, where the stamp changes its sign. *)
AgeInv ==
  used.faults = 0 =>
    LET Delivered == EventsIn(delivered) \ own
        Queued == EventsIn(queued) \ own
        New == RxFifos \ Marked
    IN /\ InOrder(delivered, own, mixed)
       /\ Ahead(Delivered, RxFifos) /\ Older(Delivered, EventsIn(batch))
       /\ Gathering => Sooner(Delivered, Queued, mixed)
       /\ pc = "clear" \/ Reading => Ahead({fifo[f] : f \in Marked}, New)
       /\ Reading => Ahead(Queued, New) /\ Ahead(EventsIn(batch), New)
       /\ pc \in {"tef", "deliver"} => Ahead(Queued, RxFifos)
       /\ pc = "deliver" => InTimeOrder(queued) /\ OfOnePass(EventsIn(queued), mixed)

(* Only what was dropped is left in the queue when a pass has ended.       *)
KeptInv ==
  used.faults = 0 =>
    /\ NothingLost
    /\ pc # "release" => batch = <<>>
    /\ ~Gathering => EventsIn(queued) \subseteq own \cup dropped

(* The FIFOs still to be read and the events of this round have room.      *)
RoomInv ==
  /\ QueueFits
  /\ Len(tef) <= round
  /\ Reading => Len(queued) + Len(batch) + Cardinality(status.rxif) <= NRx
  /\ pc = "tef" => Len(queued) + Len(batch) + Len(tef) <= NRx + round

RxInv ==
  /\ TypeInv /\ PlacesInv /\ PassInv
  /\ OnceInv /\ AgeInv /\ KeptInv /\ RoomInv

-----------------------------------------------------------------------------
(* Facts about sequences of events.                                        *)

(* An empty queue holds no event.                                          *)
LEMMA NoEvents ==
  /\ EventsIn(<<>>) = {} /\ Len(<<>>) = 0
  /\ \A excepted : Once(<<>>, excepted)
BY DEF EventsIn, Once

(* Queueing one more event.                                                *)
LEMMA EventsOfAppend ==
  ASSUME NEW S, NEW q \in Seq(S), NEW e \in S, NEW excepted, NEW passes
  PROVE  /\ Append(q, e) \in Seq(S) /\ Len(Append(q, e)) = Len(q) + 1
         /\ EventsIn(Append(q, e)) = EventsIn(q) \cup {e}
         /\ Once(q, excepted) /\ (e \in EventsIn(q) => e \in excepted)
              => Once(Append(q, e), excepted)
         /\ InOrder(q, excepted, passes) /\ (e \notin excepted => Sooner(EventsIn(q) \ excepted, {e}, passes))
              => InOrder(Append(q, e), excepted, passes)
<1> DEFINE r == Append(q, e)
<1>1. /\ r \in Seq(S) /\ Len(q) \in Nat /\ Len(r) = Len(q) + 1
      /\ \A i \in 1 .. Len(q) : r[i] = q[i]
      /\ r[Len(q) + 1] = e
  BY AppendProperties, LenProperties
<1> HIDE DEF r
<1>2. \A i \in 1 .. Len(r) : i \in 1 .. Len(q) \/ i = Len(q) + 1
  BY <1>1
<1>3. /\ \A i \in 1 .. Len(q) : i \in 1 .. Len(r)
      /\ Len(q) + 1 \in 1 .. Len(r)
  BY <1>1
<1>4. EventsIn(r) = EventsIn(q) \cup {e}
  BY <1>1, <1>2, <1>3 DEF EventsIn
<1>5. \A i \in 1 .. Len(q) : q[i] \in EventsIn(q)
  BY DEF EventsIn
<1>6. ASSUME Once(q, excepted), e \in EventsIn(q) => e \in excepted
      PROVE  Once(r, excepted)
  <2> SUFFICES ASSUME NEW i \in 1 .. Len(r), NEW j \in 1 .. Len(r),
                      r[i] = r[j], r[i] \notin excepted
               PROVE  i = j
    BY DEF Once
  <2>1. CASE i \in 1 .. Len(q) /\ j \in 1 .. Len(q)
    BY <1>1, <1>6, <2>1 DEF Once
  <2>2. CASE i = Len(q) + 1 \/ j = Len(q) + 1
    BY <1>1, <1>2, <1>5, <1>6, <2>2
  <2> QED
    BY <1>2, <2>1, <2>2
<1>7. ASSUME InOrder(q, excepted, passes),
             e \notin excepted => Sooner(EventsIn(q) \ excepted, {e}, passes)
      PROVE  InOrder(r, excepted, passes)
  <2> SUFFICES ASSUME NEW i \in 1 .. Len(r), NEW j \in 1 .. Len(r), i < j,
                      r[i] \notin excepted, r[j] \notin excepted
               PROVE  Precedes(r[i], r[j], passes)
    BY DEF InOrder
  <2>1. i \in 1 .. Len(q)
    BY <1>1
  <2>2. CASE j \in 1 .. Len(q)
    BY <1>1, <1>7, <2>1, <2>2 DEF InOrder
  <2>3. CASE j = Len(q) + 1
    BY <1>1, <1>5, <1>7, <2>1, <2>3 DEF Sooner
  <2> QED
    BY <1>2, <2>2, <2>3
<1> QED
  BY <1>1, <1>4, <1>6, <1>7 DEF r

(* A stamp that is not above another belongs to an earlier event, unless   *)
(* the sign has changed between them.                                      *)
LEMMA SignedOrder ==
  ASSUME NEW e \in Nat, NEW f \in Nat, SignedTs(e) <= SignedTs(f)
  PROVE  NotLater(e, f)
<1> SUFFICES ASSUME Era(e) = Era(f) PROVE e <= f
  BY DEF NotLater
<1> DEFINE shift == 2 * TsHalf * Era(e)
<1>1. Era(e) \in Int
  BY DEF Era
<1>2. shift \in Int
  BY <1>1
<1>3. SignedTs(e) = e - shift /\ SignedTs(f) = f - shift
  BY DEF SignedTs
<1> HIDE DEF shift
<1> QED
  BY <1>2, <1>3

(* Taking the oldest entry.                                                *)
LEMMA EventsOfTail ==
  ASSUME NEW S, S \subseteq Nat, NEW q \in Seq(S), q # <<>>, NEW excepted
  PROVE  /\ Head(q) \in S /\ Tail(q) \in Seq(S)
         /\ Len(q) \in Nat \ {0} /\ Len(Tail(q)) = Len(q) - 1
         /\ EventsIn(q) = {Head(q)} \cup EventsIn(Tail(q))
         /\ Once(q, excepted) =>
              /\ Once(Tail(q), excepted)
              /\ Head(q) \in EventsIn(Tail(q)) => Head(q) \in excepted
         /\ InTimeOrder(q) =>
              /\ InTimeOrder(Tail(q))
              /\ \A e \in EventsIn(Tail(q)) : NotLater(Head(q), e)
<1> DEFINE r == Tail(q)
<1>1. /\ r \in Seq(S) /\ Len(q) \in Nat \ {0} /\ Len(r) = Len(q) - 1
      /\ \A i \in 1 .. Len(r) : r[i] = q[i + 1]
      /\ Head(q) = q[1] /\ Head(q) \in S
  BY HeadTailProperties, EmptySeq, ElementOfSeq
<1> HIDE DEF r
<1>2. /\ \A i \in 1 .. Len(r) : i + 1 \in 1 .. Len(q) /\ i + 1 # 1
      /\ 1 \in 1 .. Len(q)
      /\ \A i \in 1 .. Len(q) : i = 1 \/ (i - 1 \in 1 .. Len(r) /\ r[i - 1] = q[i])
  BY <1>1
<1>3. EventsIn(q) = {Head(q)} \cup EventsIn(r)
  <2>1. EventsIn(q) \subseteq {Head(q)} \cup EventsIn(r)
    BY <1>1, <1>2 DEF EventsIn
  <2>2. {Head(q)} \cup EventsIn(r) \subseteq EventsIn(q)
    BY <1>1, <1>2 DEF EventsIn
  <2> QED
    BY <2>1, <2>2
<1>4. ASSUME Once(q, excepted)
      PROVE  /\ Once(r, excepted)
             /\ Head(q) \in EventsIn(r) => Head(q) \in excepted
  <2>1. Once(r, excepted)
    <3> SUFFICES ASSUME NEW i \in 1 .. Len(r), NEW j \in 1 .. Len(r),
                        r[i] = r[j], r[i] \notin excepted
                 PROVE  i = j
      BY DEF Once
    <3>1. i + 1 = j + 1
      BY <1>1, <1>2, <1>4 DEF Once
    <3> QED
      BY <3>1
  <2>2. ASSUME Head(q) \in EventsIn(r), Head(q) \notin excepted PROVE FALSE
    <3>1. PICK i \in 1 .. Len(r) : r[i] = Head(q)
      BY <2>2 DEF EventsIn
    <3>2. q[i + 1] = q[1] /\ i + 1 \in 1 .. Len(q) /\ q[1] \notin excepted
      BY <1>1, <1>2, <2>2, <3>1
    <3>3. i + 1 = 1
      BY <1>2, <1>4, <3>2 DEF Once
    <3> QED
      BY <1>2, <3>3
  <2> QED
    BY <2>1, <2>2
<1>5. ASSUME InTimeOrder(q)
      PROVE  InTimeOrder(r) /\ \A e \in EventsIn(r) : NotLater(Head(q), e)
  <2>1. InTimeOrder(r)
    <3> SUFFICES ASSUME NEW i \in 1 .. Len(r), NEW j \in 1 .. Len(r), i < j
                 PROVE  SignedTs(r[i]) <= SignedTs(r[j])
      BY DEF InTimeOrder
    <3>1. i + 1 < j + 1
      OBVIOUS
    <3> QED
      BY <1>1, <1>2, <1>5, <3>1 DEF InTimeOrder
  <2>2. ASSUME NEW i \in 1 .. Len(r) PROVE NotLater(Head(q), r[i])
    <3>1. 1 < i + 1
      BY <1>1
    <3>2. SignedTs(Head(q)) <= SignedTs(r[i])
      BY <1>1, <1>2, <1>5, <3>1 DEF InTimeOrder
    <3>3. Head(q) \in Nat /\ r[i] \in Nat
      <4>1. Head(q) \in S /\ r[i] \in S
        BY <1>1, <2>2, ElementOfSeq
      <4> QED
        BY <4>1
    <3> QED
      BY <3>2, <3>3, SignedOrder
  <2> QED
    BY <2>1, <2>2 DEF EventsIn
<1> QED
  BY <1>1, <1>3, <1>4, <1>5 DEF r

(* One queue behind the other.                                             *)
LEMMA EventsOfConcat ==
  ASSUME NEW S, NEW q \in Seq(S), NEW b \in Seq(S), NEW excepted
  PROVE  /\ q \o b \in Seq(S) /\ Len(q \o b) = Len(q) + Len(b)
         /\ EventsIn(q \o b) = EventsIn(q) \cup EventsIn(b)
         /\ Once(q, excepted) /\ Once(b, {}) /\ EventsIn(q) \cap EventsIn(b) = {}
              => Once(q \o b, excepted)
<1> DEFINE r == q \o b
<1>1. /\ r \in Seq(S) /\ Len(q) \in Nat /\ Len(b) \in Nat
      /\ Len(r) = Len(q) + Len(b)
      /\ \A i \in 1 .. Len(r) : r[i] = IF i <= Len(q) THEN q[i] ELSE b[i - Len(q)]
  BY ConcatProperties, LenProperties
<1> HIDE DEF r
<1>2. \A i \in 1 .. Len(r) :
        \/ i \in 1 .. Len(q) /\ r[i] = q[i]
        \/ i - Len(q) \in 1 .. Len(b) /\ r[i] = b[i - Len(q)] /\ i \notin 1 .. Len(q)
  BY <1>1
<1>3. /\ \A i \in 1 .. Len(q) : i \in 1 .. Len(r) /\ r[i] = q[i]
      /\ \A i \in 1 .. Len(b) : Len(q) + i \in 1 .. Len(r) /\ r[Len(q) + i] = b[i]
  <2>1. \A i \in 1 .. Len(q) : i \in 1 .. Len(r) /\ r[i] = q[i]
    BY <1>1
  <2>2. ASSUME NEW i \in 1 .. Len(b)
        PROVE  Len(q) + i \in 1 .. Len(r) /\ r[Len(q) + i] = b[i]
    <3>1. /\ Len(q) + i \in 1 .. Len(r) /\ ~ (Len(q) + i <= Len(q))
          /\ (Len(q) + i) - Len(q) = i
      BY <1>1
    <3> QED
      BY <1>1, <3>1
  <2> QED
    BY <2>1, <2>2
<1>4. EventsIn(r) = EventsIn(q) \cup EventsIn(b)
  <2>1. EventsIn(r) \subseteq EventsIn(q) \cup EventsIn(b)
    BY <1>2 DEF EventsIn
  <2>2. EventsIn(q) \cup EventsIn(b) \subseteq EventsIn(r)
    BY <1>3 DEF EventsIn
  <2> QED
    BY <2>1, <2>2
<1>5. ASSUME Once(q, excepted), Once(b, {}), EventsIn(q) \cap EventsIn(b) = {}
      PROVE  Once(r, excepted)
  <2> SUFFICES ASSUME NEW i \in 1 .. Len(r), NEW j \in 1 .. Len(r),
                      r[i] = r[j], r[i] \notin excepted
               PROVE  i = j
    BY DEF Once
  <2>1. /\ \A k \in 1 .. Len(q) : q[k] \in EventsIn(q)
        /\ \A k \in 1 .. Len(b) : b[k] \in EventsIn(b)
    BY DEF EventsIn
  <2>2. CASE i \in 1 .. Len(q) /\ j \in 1 .. Len(q)
    BY <1>3, <1>5, <2>2 DEF Once
  <2>3. CASE i \notin 1 .. Len(q) /\ j \notin 1 .. Len(q)
    <3>1. i - Len(q) = j - Len(q)
      BY <1>2, <1>5, <2>3 DEF Once
    <3> QED
      BY <1>1, <3>1
  <2>4. CASE i \in 1 .. Len(q) <=> j \notin 1 .. Len(q)
    BY <1>2, <1>5, <2>1, <2>4
  <2> QED
    BY <2>2, <2>3, <2>4
<1> QED
  BY <1>1, <1>4, <1>5 DEF r

(* Sorting changes neither what is queued nor how often.                   *)
LEMMA EventsOfRearranged ==
  ASSUME NEW S, NEW q \in Seq(S), NEW excepted,
         NEW order \in Bijection(1 .. Len(q), 1 .. Len(q)),
         NEW r, r = [i \in 1 .. Len(q) |-> q[order[i]]]
  PROVE  /\ r \in Seq(S) /\ Len(r) = Len(q)
         /\ EventsIn(r) = EventsIn(q)
         /\ Once(q, excepted) => Once(r, excepted)
<1> DEFINE D == 1 .. Len(q)
<1>1. /\ \A i \in D : order[i] \in D
      /\ \A i, j \in D : order[i] = order[j] => i = j
      /\ \A i \in D : \E j \in D : order[j] = i
  BY DEF Bijection, Injection, Surjection, IsInjective
<1>2. Len(q) \in Nat /\ \A i \in D : q[i] \in S
  BY LenProperties, ElementOfSeq
<1>3. r \in [D -> S]
  BY <1>1, <1>2
<1>4. r \in Seq(S) /\ Len(r) = Len(q)
  BY <1>2, <1>3, FunctionIsSeq
<1>5. \A i \in D : r[i] = q[order[i]]
  OBVIOUS
<1> HIDE DEF D
<1>6. EventsIn(r) = EventsIn(q)
  <2>1. EventsIn(q) = {q[i] : i \in D} /\ EventsIn(r) = {r[i] : i \in D}
    BY <1>4 DEF EventsIn, D
  <2>2. EventsIn(r) \subseteq EventsIn(q)
    BY <1>1, <1>5, <2>1
  <2>3. ASSUME NEW i \in D PROVE q[i] \in EventsIn(r)
    <3>1. PICK j \in D : order[j] = i
      BY <1>1
    <3> QED
      BY <1>5, <2>1, <3>1
  <2>4. EventsIn(q) \subseteq EventsIn(r)
    BY <2>1, <2>3
  <2> QED
    BY <2>2, <2>4
<1>7. ASSUME Once(q, excepted) PROVE Once(r, excepted)
  <2> SUFFICES ASSUME NEW i \in D, NEW j \in D, r[i] = r[j], r[i] \notin excepted
               PROVE  i = j
    BY <1>4 DEF Once, D
  <2>1. q[order[i]] = q[order[j]] /\ q[order[i]] \notin excepted
    BY <1>5
  <2>2. order[i] = order[j]
    BY <1>1, <1>7, <2>1 DEF Once, D
  <2> QED
    BY <1>1, <2>2
<1> QED
  BY <1>4, <1>6, <1>7 DEF D

-----------------------------------------------------------------------------
(* The FIFOs that are read in one transfer.                                *)

(* The topmost FIFO to be read.                                            *)
LEMMA TopToRead ==
  ASSUME TypeInv, status.rxif # {}
  PROVE  /\ Max(status.rxif) \in status.rxif /\ Max(status.rxif) \in RxFifos
         /\ \A f \in status.rxif : f \in RxFifos /\ f <= Max(status.rxif)
<1>1. status.rxif \subseteq RxFifos /\ RxFifos \subseteq Nat /\ NRx \in Nat
  BY DEF TypeInv, TypeOK, RxFifos
<1>2. \A f \in status.rxif : f <= NRx
  BY <1>1 DEF RxFifos
<1> QED
  BY <1>1, <1>2, MaxOfNat

(* The block read in bulk is an interval below the topmost FIFO.           *)
LEMMA BlockRange ==
  ASSUME TypeInv, status.rxif # {}
  PROVE  LET m == Min(Block)
             n == Cardinality(Block)
         IN /\ Block \subseteq status.rxif /\ Block # {}
            /\ m \in Nat /\ n \in Nat \ {0}
            /\ \A i \in 1 .. n : m + i - 1 \in Block
            /\ \A f \in Block : f - m + 1 \in 1 .. n
<1> DEFINE m == Min(Block)
           t == BlockTop
<1>1. /\ t \in status.rxif /\ t \in Nat
      /\ \A f \in status.rxif : f \in Nat /\ f <= t
  BY TopToRead DEF BlockTop, RxFifos
<1> HIDE DEF t
<1>2. /\ Block \subseteq status.rxif /\ Block \subseteq Nat
      /\ \A f \in Block : f .. t \subseteq status.rxif
  BY <1>1 DEF Block, t
<1>3. t \in Block
  <2>1. t .. t = {t}
    BY <1>1
  <2> QED
    BY <1>1, <2>1 DEF Block, t
<1>4. m \in Block /\ \A f \in Block : m <= f
  BY <1>2, <1>3, MinOfNat, Zenon DEF m
<1> HIDE DEF m
<1>5. m \in Nat /\ m <= t
  BY <1>2, <1>3, <1>4
<1>6. Block = m .. t
  <2>1. \A f \in Block : f \in m .. t
    BY <1>1, <1>2, <1>4, <1>5
  <2>2. ASSUME NEW f \in m .. t PROVE f \in Block
    <3>1. f .. t \subseteq m .. t
      BY <1>1, <1>5
    <3>2. f .. t \subseteq status.rxif /\ f \in status.rxif
      BY <1>2, <1>4, <2>2, <3>1
    <3> QED
      BY <3>2 DEF Block, t
  <2> QED
    BY <2>1, <2>2
<1>7. Cardinality(Block) = t - m + 1
  BY <1>1, <1>5, <1>6, FS_Interval
<1> HIDE DEF m
<1>8. /\ \A i \in 1 .. Cardinality(Block) : m + i - 1 \in Block
      /\ \A f \in Block : f - m + 1 \in 1 .. Cardinality(Block)
      /\ Cardinality(Block) \in Nat \ {0}
  BY <1>1, <1>5, <1>6, <1>7
<1> QED
  BY <1>2, <1>3, <1>5, <1>8 DEF m

(* Reading it gives the events in its FIFOs, each once.                    *)
LEMMA BlockContents ==
  ASSUME TypeInv, status.rxif # {},
         \A f \in status.rxif : fifo[f] # None,
         \A f, g \in RxFifos : f # g /\ fifo[f] = fifo[g] => fifo[f] = None
  PROVE  /\ BlockRead \in Seq(Events) /\ Len(BlockRead) = Cardinality(Block)
         /\ EventsIn(BlockRead) = {fifo[f] : f \in Block}
         /\ Once(BlockRead, {})
<1> DEFINE m == Min(Block)
           n == Cardinality(Block)
<1>1. /\ Block \subseteq status.rxif /\ m \in Nat /\ n \in Nat
      /\ \A i \in 1 .. n : m + i - 1 \in Block
      /\ \A f \in Block : f - m + 1 \in 1 .. n
  BY BlockRange
<1>2. /\ status.rxif \subseteq RxFifos /\ RxFifos \subseteq Nat
      /\ \A f \in RxFifos : fifo[f] \in Events \cup {None}
  BY DEF TypeInv, TypeOK, RxFifos
<1>3. BlockRead = [i \in 1 .. n |-> fifo[m + i - 1]]
  BY DEF BlockRead
<1> HIDE DEF m, n
<1>4. \A i \in 1 .. n : fifo[m + i - 1] \in Events
  BY <1>1, <1>2
<1>5. BlockRead \in Seq(Events) /\ Len(BlockRead) = n
  BY <1>1, <1>3, <1>4, FunctionIsSeq
<1>6. \A i \in 1 .. n : BlockRead[i] = fifo[m + i - 1]
  BY <1>3
<1>7. EventsIn(BlockRead) = {fifo[f] : f \in Block}
  <2>1. ASSUME NEW i \in 1 .. n PROVE BlockRead[i] \in {fifo[f] : f \in Block}
    BY <1>1, <1>6
  <2>2. ASSUME NEW f \in Block PROVE fifo[f] \in EventsIn(BlockRead)
    <3>1. m + (f - m + 1) - 1 = f
      BY <1>1, <1>2
    <3>2. BlockRead[f - m + 1] = fifo[f]
      BY <1>1, <1>6, <3>1
    <3> QED
      BY <1>1, <1>5, <3>2 DEF EventsIn
  <2> QED
    BY <1>5, <2>1, <2>2 DEF EventsIn
<1>8. Once(BlockRead, {})
  <2> SUFFICES ASSUME NEW i \in 1 .. n, NEW j \in 1 .. n,
                      BlockRead[i] = BlockRead[j]
               PROVE  i = j
    BY <1>5 DEF Once
  <2>1. \A f, g \in Block : fifo[f] = fifo[g] => f = g
    BY <1>1, <1>2
  <2>2. fifo[m + i - 1] = fifo[m + j - 1]
    BY <1>6
  <2>3. m + i - 1 = m + j - 1
    BY <1>1, <2>1, <2>2
  <2> QED
    BY <1>1, <2>3
<1> QED
  BY <1>5, <1>7, <1>8 DEF n

-----------------------------------------------------------------------------
(* Types.                                                                  *)

(* What the bounds have used up.                                           *)
Uses == [nomem : 0 .. MaxNoMem, faults : 0 .. MaxSpiFaults, single : 0 .. MaxSpiFaults]

(* A failing transfer.                                                     *)
LEMMA FaultSpent ==
  ASSUME used \in Uses, used.single <= used.faults, Spend("faults", MaxSpiFaults)
  PROVE  /\ used' \in Uses /\ used'.single <= used'.faults
         /\ used'.faults # 0 /\ used'.single = used.single
<1>1. /\ used.faults \in Nat /\ used.single \in Nat /\ used.faults < MaxSpiFaults
      /\ used' = [used EXCEPT !.faults = used.faults + 1]
  <2>1. used.faults \in Nat /\ used.single \in Nat
    BY DEF Uses
  <2>2. used.faults < MaxSpiFaults
    BY DEF Uses, Spend
  <2>3. used' = [used EXCEPT !.faults = used.faults + 1]
    BY DEF Spend
  <2> QED
    BY <2>1, <2>2, <2>3
<1>2. /\ used'.faults = used.faults + 1 /\ used'.single = used.single
  BY <1>1 DEF Uses
<1>3. used.faults + 1 \in 0 .. MaxSpiFaults
  BY <1>1
<1>4. used' \in Uses
  BY <1>1, <1>3 DEF Uses
<1> QED
  BY <1>1, <1>2, <1>4

(* A socket buffer that cannot be allocated.                               *)
LEMMA NoMemSpent ==
  ASSUME used \in Uses, Spend("nomem", MaxNoMem)
  PROVE  /\ used' \in Uses
         /\ used'.faults = used.faults /\ used'.single = used.single
<1>1. used.nomem \in Nat /\ used.nomem < MaxNoMem
  BY DEF Uses, Spend
<1>3. used' = [used EXCEPT !.nomem = used.nomem + 1]
  BY DEF Spend
<1>2. used.nomem + 1 \in 0 .. MaxNoMem
  BY <1>1
<1> QED
  BY <1>1, <1>2, <1>3 DEF Uses

(* A transfer that fails while FIFOs are read.                             *)
LEMMA GivenUp ==
  ASSUME used \in Uses, used.single <= used.faults, GiveUpReading
  PROVE  /\ pc' = "tef" /\ used' \in Uses /\ used'.single <= used'.faults
         /\ used'.faults # 0
         /\ used'.single = IF status.mode = "single" THEN used.single + 1 ELSE used.single
         /\ UNCHANGED <<bus, own, round, overflowed, dropped, delivered, mixed>>
<1> DEFINE single == IF status.mode = "single" THEN used.single + 1 ELSE used.single
<1>1. /\ used.faults \in Nat /\ used.single \in Nat /\ used.faults < MaxSpiFaults
      /\ MaxSpiFaults \in Nat
  BY DEF Uses, GiveUpReading
<1>2. used' = [used EXCEPT !.faults = used.faults + 1, !.single = single]
  BY DEF GiveUpReading
<1>3. /\ single \in Nat /\ single <= used.faults + 1 /\ single <= MaxSpiFaults
      /\ used.faults + 1 \in 0 .. MaxSpiFaults /\ single \in 0 .. MaxSpiFaults
  BY <1>1
<1>4. pc' = "tef" /\ UNCHANGED <<bus, own, round, overflowed, dropped, delivered, mixed>>
  BY DEF GiveUpReading
<1> HIDE DEF single
<1>5. used' \in Uses /\ used'.faults = used.faults + 1 /\ used'.single = single
  BY <1>2, <1>3 DEF Uses
<1> QED
  BY <1>1, <1>3, <1>4, <1>5 DEF single

(* FIFOs that are read are no longer to be read.                           *)
Statuses == [rx : BOOLEAN, tef : BOOLEAN, ov : BOOLEAN, rxif : SUBSET RxFifos,
             rxovif : BOOLEAN, mode : {"bulk", "single"}]

LEMMA ReadMarked ==
  ASSUME status \in Statuses, NEW F, status' = [status EXCEPT !.rxif = @ \ F]
  PROVE  /\ status' \in Statuses /\ status'.rxif = status.rxif \ F
         /\ status'.mode = status.mode
<1>1. status.rxif \ F \in SUBSET RxFifos
  BY DEF Statuses
<1> QED
  BY <1>1 DEF Statuses

(* The queue after it was sorted.                                          *)
LEMMA QueueSorted ==
  ASSUME TypeInv, IrqSort
  PROVE  /\ queued' \in Seq(Events) /\ Len(queued') = Len(queued)
         /\ EventsIn(queued') = EventsIn(queued)
         /\ Once(queued, own) => Once(queued', own)
         /\ InTimeOrder(queued')
<1>1. PICK order \in Bijection(1 .. Len(queued), 1 .. Len(queued)) :
        queued' = [i \in 1 .. Len(queued) |-> queued[order[i]]]
  BY DEF IrqSort
<1>2. queued \in Seq(Events) /\ InTimeOrder(queued')
  BY DEF TypeInv, TypeOK, IrqSort
<1> QED
  BY <1>1, <1>2, EventsOfRearranged

LEMMA TypeInit == Init => TypeInv
<1> SUFFICES ASSUME Init PROVE TypeInv
  OBVIOUS
<1>1. <<>> \in Seq(Events)
  OBVIOUS
<1>2. used \in [nomem : 0 .. MaxNoMem, faults : 0 .. MaxSpiFaults,
                single : 0 .. MaxSpiFaults] /\ used.single <= used.faults
  BY DEF Init
<1>3. status \in [rx : BOOLEAN, tef : BOOLEAN, ov : BOOLEAN, rxif : SUBSET RxFifos,
                  rxovif : BOOLEAN, mode : {"bulk", "single"}]
  BY DEF Init, NoStatus
<1>4. fifo \in [RxFifos -> Events \cup {None}]
  BY DEF Init
<1>5. bus \in 0 .. MaxEvents /\ round \in 0 .. NTx
  BY DEF Init
<1>6. /\ pc = "off" /\ release = {} /\ own = {} /\ overflowed = {} /\ dropped = {}
      /\ mixed = {} /\ tef = <<>> /\ batch = <<>> /\ queued = <<>> /\ delivered = <<>>
      /\ rxovif \in BOOLEAN
  BY DEF Init
<1> HIDE DEF Init
<1> QED
  BY <1>1, <1>2, <1>3, <1>4, <1>5, <1>6 DEF TypeInv, TypeOK

LEMMA TypeStep == TypeInv /\ PassInv /\ [Next]_vars => TypeInv'
<1> SUFFICES ASSUME TypeInv, PassInv, [Next]_vars PROVE TypeInv'
  OBVIOUS
<1> USE DEF TypeInv, TypeOK
<1>u. used \in Uses /\ used.single <= used.faults /\ status \in Statuses
  BY DEF Uses, Statuses
<1>e. <<>> \in Seq(Events)
  OBVIOUS
<1>1. CASE BusReceive
  <2>1. bus + 1 \in Events /\ bus' \in 0 .. MaxEvents
    BY <1>1 DEF BusReceive, Events
  <2>2. /\ fifo \in [RxFifos -> Events \cup {None}]
        /\ rxovif \in BOOLEAN /\ overflowed \subseteq Events
    OBVIOUS
  <2> HIDE DEF TypeInv, TypeOK
  <2>3. ASSUME Room # {}
        PROVE  /\ fifo' \in [RxFifos -> Events \cup {None}]
               /\ rxovif' \in BOOLEAN /\ overflowed' \subseteq Events
    <3>1. fifo' = [fifo EXCEPT ![FilledFirst(Room)] = bus + 1]
          /\ UNCHANGED <<rxovif, overflowed>>
      BY <1>1, <2>3 DEF BusReceive
    <3> QED
      BY <2>1, <2>2, <3>1
  <2>4. ASSUME Room = {}
        PROVE  /\ fifo' \in [RxFifos -> Events \cup {None}]
               /\ rxovif' \in BOOLEAN /\ overflowed' \subseteq Events
    <3>1. UNCHANGED fifo /\ rxovif' = TRUE /\ overflowed' = overflowed \cup {bus + 1}
      BY <1>1, <2>4 DEF BusReceive
    <3> QED
      BY <2>1, <2>2, <3>1
  <2>5. UNCHANGED <<tef, pc, status, release, batch, queued, own, round, dropped,
                    delivered, mixed, used>>
    BY <1>1 DEF BusReceive, thread
  <2>6. /\ fifo' \in [RxFifos -> Events \cup {None}]
        /\ rxovif' \in BOOLEAN /\ overflowed' \subseteq Events
    BY <2>3, <2>4
  <2> QED
    BY <2>1, <2>5, <2>6 DEF TypeInv, TypeOK
<1>2. CASE BusSend
  <2>1. bus + 1 \in Events /\ bus' \in 0 .. MaxEvents /\ round' \in 0 .. NTx
    BY <1>2 DEF BusSend, Events
  <2>2. tef' \in Seq(Events)
    BY <1>2, <2>1, AppendType DEF BusSend
  <2>3. own' \subseteq Events
    BY <1>2, <2>1 DEF BusSend
  <2>4. UNCHANGED <<fifo, rxovif, pc, status, release, batch, queued, overflowed,
                    dropped, delivered, mixed, used>>
    BY <1>2 DEF BusSend, thread
  <2> QED
    BY <2>1, <2>2, <2>3, <2>4
<1>3. CASE IrqStart
  BY <1>3 DEF IrqStart, controller, history
<1>4. CASE IrqReadFlags
  BY <1>4 DEF IrqReadFlags, controller, history, NoStatus
<1>5. CASE IrqReadFifos
  BY <1>5 DEF IrqReadFifos, controller, history, Filled
<1>6. CASE IrqClear
  BY <1>6, <1>e DEF IrqClear, controller, history, QueueCleared
<1>7. CASE IrqFault
  <2>1. used' \in Uses /\ used'.single <= used'.faults
    BY <1>u, <1>7, FaultSpent DEF IrqFault
  <2> QED
    BY <1>7, <2>1 DEF IrqFault, controller, Uses
<1>8. CASE IrqReadOne
  <2>1. CASE status.rxif = {}
    BY <1>8, <2>1 DEF IrqReadOne, controller, history
  <2>2. CASE status.rxif # {}
    <3> DEFINE f == Max(status.rxif)
    <3>1. f \in RxFifos /\ fifo[f] \in Events
      BY <1>8, <2>2, TopToRead DEF IrqReadOne, PassInv, Reading
    <3>2. Append(queued, fifo[f]) \in Seq(Events)
      BY <3>1, AppendType
    <3>3. /\ queued' \in {queued, Append(queued, fifo[f])}
          /\ release' \in {release, {f}}
          /\ UNCHANGED status \/ status' = [status EXCEPT !.rxif = @ \ {f}]
          /\ pc' \in {"release", "tef"}
          /\ \/ UNCHANGED history
             \/ GiveUpReading
          /\ UNCHANGED <<batch, controller>>
      BY <1>8, <2>2 DEF IrqReadOne, GiveUpReading
    <3> HIDE DEF f
    <3>4. used' \in Uses /\ used'.single <= used'.faults
      BY <1>u, <3>3, GivenUp DEF history
    <3>5. UNCHANGED <<bus, own, round, overflowed, dropped, delivered, mixed>>
      BY <3>3 DEF history, GiveUpReading
    <3>6. status' \in Statuses
      BY <1>u, <3>3, ReadMarked
    <3> QED
      BY <3>1, <3>2, <3>3, <3>4, <3>5, <3>6 DEF controller, Uses, Statuses
  <2> QED
    BY <2>1, <2>2
<1>9. CASE IrqReadBlock
  <2>1. CASE status.rxif = {}
    BY <1>9, <2>1 DEF IrqReadBlock, controller, history
  <2>2. CASE status.rxif # {}
    <3>3. /\ batch' \in {batch, BlockRead}
          /\ release' \in {release, Block}
          /\ UNCHANGED status \/ status' = [status EXCEPT !.rxif = @ \ Block]
          /\ pc' \in {"release", "tef"}
          /\ \/ UNCHANGED history
             \/ GiveUpReading
          /\ UNCHANGED <<queued, controller>>
      BY <1>9, <2>2 DEF IrqReadBlock, GiveUpReading
    <3>1. BlockRead \in Seq(Events) /\ Block \subseteq status.rxif
      <4>1. \A f \in status.rxif : fifo[f] # None
        BY <1>9 DEF IrqReadBlock, PassInv, Reading
      <4>2. /\ Block \subseteq status.rxif
            /\ \A i \in 1 .. Cardinality(Block) : Min(Block) + i - 1 \in Block
            /\ Cardinality(Block) \in Nat
        BY <2>2, BlockRange
      <4>3. \A i \in 1 .. Cardinality(Block) : fifo[Min(Block) + i - 1] \in Events
        BY <4>1, <4>2
      <4> QED
        BY <4>2, <4>3, FunctionIsSeq DEF BlockRead
    <3>4. used' \in Uses /\ used'.single <= used'.faults
      BY <1>u, <3>3, GivenUp DEF history
    <3>5. UNCHANGED <<bus, own, round, overflowed, dropped, delivered, mixed>>
      BY <3>3 DEF history, GiveUpReading
    <3>6. status' \in Statuses
      BY <1>u, <3>3, ReadMarked
    <3> QED
      BY <3>1, <3>3, <3>4, <3>5, <3>6 DEF controller, Uses, Statuses
  <2> QED
    BY <2>1, <2>2
<1>10. CASE IrqRelease
  <2>1. queued \o batch \in Seq(Events)
    BY ConcatProperties
  <2>2. /\ fifo' \in {fifo, Released(Min(release))}
        /\ release' \in {release, release \ {Min(release)}}
        /\ queued' \in {queued, queued \o batch} /\ batch' \in {batch, <<>>}
        /\ pc' \in {pc, "read", "tef"}
        /\ \/ UNCHANGED history
           \/ GiveUpReading
        /\ UNCHANGED <<status, tef, rxovif>>
    BY <1>10 DEF IrqRelease, GiveUpReading
  <2>3. Released(Min(release)) \in [RxFifos -> Events \cup {None}]
    BY DEF Released
  <2>4. used' \in Uses /\ used'.single <= used'.faults
    BY <1>u, <2>2, GivenUp DEF history
  <2>5. UNCHANGED <<bus, own, round, overflowed, dropped, delivered, mixed>>
    BY <2>2 DEF history, GiveUpReading
  <2>6. /\ fifo' \in [RxFifos -> Events \cup {None}] /\ release' \subseteq RxFifos
        /\ queued' \in Seq(Events) /\ batch' \in Seq(Events)
    BY <1>e, <2>1, <2>2, <2>3
  <2> QED
    BY <2>2, <2>4, <2>5, <2>6 DEF Uses
<1>11. CASE IrqTef
  <2>1. Head(tef) \in Events /\ Tail(tef) \in Seq(Events)
    BY <1>11, TailType DEF IrqTef
  <2>2. Append(queued, Head(tef)) \in Seq(Events)
    BY <2>1, AppendType
  <2> QED
    BY <1>11, <2>1, <2>2 DEF IrqTef, history
<1>12. CASE IrqSort
  <2>1. queued' \in Seq(Events)
    BY <1>12, QueueSorted
  <2>2. mixed' \subseteq SUBSET Events
    <3>1. EventsIn(queued) \subseteq Events
      BY ElementOfSeq DEF EventsIn
    <3> QED
      BY <1>12, <3>1 DEF IrqSort
  <2>3. UNCHANGED <<fifo, tef, rxovif, status, release, batch, bus, own, round,
                    overflowed, dropped, delivered, used>> /\ pc' = "deliver"
    BY <1>12 DEF IrqSort, controller
  <2> QED
    BY <2>1, <2>2, <2>3
<1>13. CASE IrqDeliver
  <2>1. queued # <<>>
    BY <1>13 DEF IrqDeliver
  <2>2. Head(queued) \in Events /\ Tail(queued) \in Seq(Events)
    BY <2>1, TailType
  <2>3. Append(delivered, Head(queued)) \in Seq(Events)
    BY <2>2, AppendType
  <2>4. EventsIn(queued) \subseteq Events
    BY ElementOfSeq DEF EventsIn
  <2>5. used' \in Uses /\ used'.single <= used'.faults
    BY <1>u, <1>13, NoMemSpent DEF IrqDeliver
  <2> QED
    BY <1>13, <2>2, <2>3, <2>4, <2>5 DEF IrqDeliver, controller, Uses
<1>14. CASE IrqDelivered
  BY <1>14 DEF IrqDelivered, controller, history
<1>15. CASE IrqEnd
  BY <1>15 DEF IrqEnd
<1>16. CASE UNCHANGED vars
  BY <1>16 DEF vars, controller, thread, history
<1> QED
  BY <1>1, <1>2, <1>3, <1>4, <1>5, <1>6, <1>7, <1>8, <1>9, <1>10, <1>11, <1>12,
     <1>13, <1>14, <1>15, <1>16 DEF Next, IrqThread

-----------------------------------------------------------------------------
(* What the steps do to the places an event can be in.                     *)

(* A frame is received: into an empty FIFO, when there is one.             *)
LEMMA Receive ==
  ASSUME TypeInv, BusReceive
  PROVE  /\ UNCHANGED <<tef, pc, status, release, batch, queued, own, round, dropped,
                        delivered, mixed, used>>
         /\ bus \in Nat /\ bus' = bus + 1
         /\ \/ /\ UNCHANGED overflowed
               /\ \E g \in RxFifos :
                    /\ fifo[g] = None /\ fifo' = [fifo EXCEPT ![g] = bus + 1]
                    /\ \A f \in RxFifos : fifo'[f] = IF f = g THEN bus + 1 ELSE fifo[f]
            \/ UNCHANGED fifo /\ overflowed' = overflowed \cup {bus + 1}
<1>1. /\ bus \in Nat /\ fifo \in [RxFifos -> Events \cup {None}]
      /\ RxFifos \subseteq Nat /\ \A f \in RxFifos : f <= NRx
  BY DEF TypeInv, TypeOK, RxFifos
<1>2. /\ UNCHANGED <<tef, pc, status, release, batch, queued, own, round, dropped,
                     delivered, mixed, used>>
      /\ bus' = bus + 1
  BY DEF BusReceive, thread
<1>3. CASE Room # {}
  <2>1. Room \subseteq Nat /\ \A f \in Room : f <= NRx
    BY <1>1 DEF Room
  <2>2. FilledFirst(Room) \in Room
    BY <1>3, <2>1, MaxOfNat DEF FilledFirst
  <2>3. PICK g \in RxFifos : fifo[g] = None /\ g = FilledFirst(Room)
    BY <2>2 DEF Room
  <2>4. UNCHANGED overflowed /\ fifo' = [fifo EXCEPT ![g] = bus + 1]
    BY <1>3, <2>3 DEF BusReceive
  <2>5. \A f \in RxFifos : fifo'[f] = IF f = g THEN bus + 1 ELSE fifo[f]
    BY <1>1, <2>4
  <2> QED
    BY <1>1, <1>2, <2>3, <2>4, <2>5
<1>4. CASE Room = {}
  BY <1>1, <1>2, <1>4 DEF BusReceive
<1> QED
  BY <1>3, <1>4

(* The thread has read all FIFOs.                                          *)
LEMMA ReadEnd ==
  ASSUME IrqReadOne \/ IrqReadBlock, status.rxif = {}
  PROVE  /\ pc = "read" /\ pc' = "tef"
         /\ UNCHANGED <<status, release, batch, queued, fifo, tef, rxovif, bus, own,
                        round, overflowed, dropped, delivered, mixed, used>>
BY DEF IrqReadOne, IrqReadBlock, controller, history

(* It reads one FIFO, or part of it.                                       *)
LEMMA ReadOne ==
  ASSUME TypeInv, PassInv, IrqReadOne, status.rxif # {}, NEW f, f = Max(status.rxif)
  PROVE  /\ f \in status.rxif /\ f \in RxFifos /\ fifo[f] \in Events
         /\ \A g \in status.rxif : g <= f
         /\ pc = "read" /\ status.mode = "single"
         /\ UNCHANGED <<fifo, tef, rxovif, batch, bus, own, round, overflowed,
                        dropped, delivered, mixed>>
         /\ \/ /\ queued' = Append(queued, fifo[f])
               /\ pc' = "release" /\ release' = {f} /\ UNCHANGED used
               /\ status'.rxif = status.rxif \ {f} /\ status'.mode = "single"
            \/ /\ queued' = queued \/ queued' = Append(queued, fifo[f])
               /\ pc' = "tef" /\ UNCHANGED <<release, status>>
               /\ used'.faults # 0 /\ used'.single # 0
         /\ queued' # queued => queued' = Append(queued, fifo[f])
         /\ Len(Append(queued, fifo[f])) = Len(queued) + 1
         /\ EventsIn(Append(queued, fifo[f])) = EventsIn(queued) \cup {fifo[f]}
         /\ Once(queued, own) /\ (fifo[f] \in EventsIn(queued) => fifo[f] \in own)
              => Once(Append(queued, fifo[f]), own)
<1>1. /\ used \in Uses /\ used.single <= used.faults /\ used.single \in Nat
      /\ status \in Statuses /\ queued \in Seq(Events)
      /\ fifo \in [RxFifos -> Events \cup {None}]
  BY DEF Uses, Statuses, TypeInv, TypeOK
<1>2. f \in status.rxif /\ f \in RxFifos /\ \A g \in status.rxif : g <= f
  BY TopToRead
<1>3. fifo[f] \in Events /\ pc = "read" /\ status.mode = "single"
  BY <1>1, <1>2 DEF IrqReadOne, PassInv, Reading
<1>4. /\ Len(Append(queued, fifo[f])) = Len(queued) + 1
      /\ EventsIn(Append(queued, fifo[f])) = EventsIn(queued) \cup {fifo[f]}
      /\ Once(queued, own) /\ (fifo[f] \in EventsIn(queued) => fifo[f] \in own)
           => Once(Append(queued, fifo[f]), own)
  <2>1. ASSUME NEW e \in Events
        PROVE  /\ Len(Append(queued, e)) = Len(queued) + 1
               /\ EventsIn(Append(queued, e)) = EventsIn(queued) \cup {e}
               /\ Once(queued, own) /\ (e \in EventsIn(queued) => e \in own)
                    => Once(Append(queued, e), own)
    BY <1>1, EventsOfAppend, Zenon
  <2> QED BY <1>3, <2>1
<1>5. GiveUpReading => /\ pc' = "tef" /\ used'.faults # 0 /\ used'.single # 0
                       /\ UNCHANGED <<bus, own, round, overflowed, dropped, delivered, mixed>>
  BY <1>1, <1>3, GivenUp
<1>6. status' = [status EXCEPT !.rxif = @ \ {f}]
        => status'.rxif = status.rxif \ {f} /\ status'.mode = "single"
  BY <1>1, <1>3, ReadMarked
<1>7. /\ UNCHANGED <<fifo, tef, rxovif, batch>>
      /\ \/ /\ queued' = Append(queued, fifo[f])
            /\ pc' = "release" /\ release' = {f} /\ UNCHANGED history
            /\ status' = [status EXCEPT !.rxif = @ \ {f}]
         \/ /\ queued' = queued \/ queued' = Append(queued, fifo[f])
            /\ GiveUpReading /\ UNCHANGED <<release, status>>
  BY DEF IrqReadOne, controller
<1> QED
  BY <1>2, <1>3, <1>4, <1>5, <1>6, <1>7 DEF history

(* It reads a block.                                                       *)
LEMMA ReadBlock ==
  ASSUME TypeInv, PlacesInv, PassInv, IrqReadBlock, status.rxif # {}
  PROVE  /\ Block \subseteq status.rxif /\ Block # {} /\ status.rxif \subseteq RxFifos
         /\ Cardinality(Block) \in Nat
         /\ pc = "read" /\ status.mode = "bulk" /\ batch = <<>>
         /\ UNCHANGED <<queued, fifo, tef, rxovif, bus, own, round, overflowed,
                        dropped, delivered, mixed>>
         /\ \/ /\ batch' = BlockRead /\ Len(batch') = Cardinality(Block)
               /\ EventsIn(batch') = {fifo[f] : f \in Block} /\ Once(batch', {})
               /\ pc' = "release" /\ release' = Block /\ UNCHANGED used
               /\ status'.rxif = status.rxif \ Block /\ status'.mode = "bulk"
            \/ /\ pc' = "tef" /\ UNCHANGED <<release, status, batch>>
               /\ used'.faults # 0 /\ used'.single = used.single
<1>1. /\ used \in Uses /\ used.single <= used.faults /\ status \in Statuses
      /\ status.rxif \subseteq RxFifos
  BY DEF Uses, Statuses, TypeInv, TypeOK
<1>2. /\ pc = "read" /\ status.mode = "bulk" /\ batch = <<>>
      /\ \A f \in status.rxif : fifo[f] # None
  BY DEF IrqReadBlock, PassInv, Reading
<1>3. Block \subseteq status.rxif /\ Block # {} /\ Cardinality(Block) \in Nat
  BY BlockRange
<1>4. /\ Len(BlockRead) = Cardinality(Block)
      /\ EventsIn(BlockRead) = {fifo[f] : f \in Block} /\ Once(BlockRead, {})
  BY <1>2, BlockContents DEF PlacesInv
<1>5. GiveUpReading => /\ pc' = "tef" /\ used'.faults # 0 /\ used'.single = used.single
                       /\ UNCHANGED <<bus, own, round, overflowed, dropped, delivered, mixed>>
  BY <1>1, <1>2, GivenUp
<1>6. status' = [status EXCEPT !.rxif = @ \ Block]
        => status'.rxif = status.rxif \ Block /\ status'.mode = "bulk"
  BY <1>1, <1>2, ReadMarked
<1>7. /\ UNCHANGED <<queued, fifo, tef, rxovif>>
      /\ \/ /\ batch' = BlockRead /\ pc' = "release" /\ release' = Block
            /\ UNCHANGED history
            /\ status' = [status EXCEPT !.rxif = @ \ Block]
         \/ GiveUpReading /\ UNCHANGED <<release, status, batch>>
  BY DEF IrqReadBlock, controller
<1> QED
  BY <1>1, <1>2, <1>3, <1>4, <1>5, <1>6, <1>7 DEF history

(* It releases the lowest FIFO of what it read.                            *)
LEMMA Release ==
  ASSUME TypeInv, PassInv, IrqRelease, NEW f, f = Min(release)
  PROVE  /\ f \in release /\ f \in RxFifos
         /\ pc = "release" /\ status.mode \in {"bulk", "single"}
         /\ UNCHANGED <<status, tef, rxovif, bus, own, round, overflowed, dropped,
                        delivered, mixed>>
         /\ \/ /\ fifo' = [fifo EXCEPT ![f] = None] /\ release' = release \ {f}
               /\ UNCHANGED used
               /\ \/ /\ release = {f} /\ pc' = "read"
                     /\ queued' = queued \o batch /\ batch' = <<>>
                  \/ release # {f} /\ UNCHANGED <<pc, queued, batch>>
            \/ /\ pc' = "tef" /\ UNCHANGED <<fifo, release, queued, batch>>
               /\ used'.faults # 0
               /\ used'.single = IF status.mode = "single" THEN used.single + 1
                                 ELSE used.single
         /\ queued \o batch \in Seq(Events)
         /\ Len(queued \o batch) = Len(queued) + Len(batch)
         /\ EventsIn(queued \o batch) = EventsIn(queued) \cup EventsIn(batch)
         /\ Once(queued, own) /\ Once(batch, {})
            /\ EventsIn(queued) \cap EventsIn(batch) = {}
              => Once(queued \o batch, own)
<1>1. /\ used \in Uses /\ used.single <= used.faults
      /\ status.mode \in {"bulk", "single"}
      /\ queued \in Seq(Events) /\ batch \in Seq(Events) /\ release \subseteq RxFifos
  BY DEF Uses, TypeInv, TypeOK
<1>2. pc = "release" /\ release # {}
  BY DEF IrqRelease, PassInv
<1>3. f \in release /\ f \in RxFifos
  <2>1. release \subseteq Nat
    BY <1>1 DEF RxFifos
  <2> QED
    BY <1>1, <1>2, <2>1, MinOfNat
<1>4. /\ queued \o batch \in Seq(Events)
      /\ Len(queued \o batch) = Len(queued) + Len(batch)
      /\ EventsIn(queued \o batch) = EventsIn(queued) \cup EventsIn(batch)
      /\ Once(queued, own) /\ Once(batch, {}) /\ EventsIn(queued) \cap EventsIn(batch) = {}
           => Once(queued \o batch, own)
  BY <1>1, EventsOfConcat
<1>5. GiveUpReading =>
        /\ pc' = "tef" /\ used'.faults # 0
        /\ used'.single = IF status.mode = "single" THEN used.single + 1 ELSE used.single
        /\ UNCHANGED <<bus, own, round, overflowed, dropped, delivered, mixed>>
  BY <1>1, GivenUp
<1>6. /\ UNCHANGED <<status, tef, rxovif>>
      /\ \/ /\ fifo' = [fifo EXCEPT ![f] = None] /\ release' = release \ {f}
            /\ \/ /\ release = {f} /\ pc' = "read"
                  /\ queued' = queued \o batch /\ batch' = <<>>
               \/ release # {f} /\ UNCHANGED <<pc, queued, batch>>
            /\ UNCHANGED history
         \/ GiveUpReading /\ UNCHANGED <<fifo, release, queued, batch>>
  BY DEF IrqRelease, Released
<1> QED
  BY <1>1, <1>2, <1>3, <1>4, <1>5, <1>6 DEF history

(* It queues a transmit event.                                             *)
LEMMA QueueTef ==
  ASSUME TypeInv, IrqTef
  PROVE  /\ pc = "tef" /\ tef # <<>> /\ Head(tef) \in Events
         /\ UNCHANGED <<pc, status, release, batch, fifo, rxovif, bus, own, round,
                        overflowed, dropped, delivered, mixed, used>>
         /\ Len(tef) \in Nat /\ Len(tef') = Len(tef) - 1
         /\ EventsIn(tef) = {Head(tef)} \cup EventsIn(tef')
         /\ Len(queued') = Len(queued) + 1
         /\ EventsIn(queued') = EventsIn(queued) \cup {Head(tef)}
         /\ Once(queued, own) /\ Head(tef) \in own => Once(queued', own)
<1>1. /\ pc = "tef" /\ tef # <<>> /\ tef' = Tail(tef) /\ queued' = Append(queued, Head(tef))
      /\ UNCHANGED <<pc, status, release, batch, fifo, rxovif, bus, own, round,
                     overflowed, dropped, delivered, mixed, used>>
  BY DEF IrqTef, history
<1>2. tef \in Seq(Events) /\ queued \in Seq(Events)
  BY DEF TypeInv, TypeOK
<1>3. /\ Head(tef) \in Events /\ Len(tef) \in Nat /\ Len(Tail(tef)) = Len(tef) - 1
      /\ EventsIn(tef) = {Head(tef)} \cup EventsIn(Tail(tef))
  <2>1. Events \subseteq Nat
    BY DEF Events
  <2> QED
    BY <1>1, <1>2, <2>1, EventsOfTail
<1>4. /\ Len(Append(queued, Head(tef))) = Len(queued) + 1
      /\ EventsIn(Append(queued, Head(tef))) = EventsIn(queued) \cup {Head(tef)}
      /\ Once(queued, own) /\ Head(tef) \in own => Once(Append(queued, Head(tef)), own)
  <2>1. ASSUME NEW e \in Events
        PROVE  /\ Len(Append(queued, e)) = Len(queued) + 1
               /\ EventsIn(Append(queued, e)) = EventsIn(queued) \cup {e}
               /\ Once(queued, own) /\ e \in own => Once(Append(queued, e), own)
    BY <1>2, EventsOfAppend, Zenon
  <2> QED BY <1>3, <2>1
<1> QED
  BY <1>1, <1>3, <1>4

(* It delivers the first of the queue, or gives up.                        *)
LEMMA Deliver ==
  ASSUME TypeInv, IrqDeliver, NEW e, e = Head(queued)
  PROVE  /\ pc = "deliver" /\ e \in Events /\ e \in EventsIn(queued)
         /\ UNCHANGED <<status, release, batch, fifo, tef, rxovif, bus, own, round,
                        overflowed, mixed>>
         /\ used'.faults = used.faults /\ used'.single = used.single
         /\ \/ /\ delivered' = Append(delivered, e) /\ queued' = Tail(queued)
               /\ UNCHANGED <<pc, dropped>>
            \/ /\ dropped' = dropped \cup EventsIn(queued) /\ pc' = "overflow"
               /\ UNCHANGED <<delivered, queued>>
         /\ Len(queued) \in Nat /\ Len(Tail(queued)) = Len(queued) - 1
         /\ EventsIn(queued) = {e} \cup EventsIn(Tail(queued))
         /\ Once(queued, own) => /\ Once(Tail(queued), own)
                                 /\ e \in EventsIn(Tail(queued)) => e \in own
         /\ InTimeOrder(queued) => /\ InTimeOrder(Tail(queued))
                                   /\ \A x \in EventsIn(Tail(queued)) : NotLater(e, x)
         /\ EventsIn(Append(delivered, e)) = EventsIn(delivered) \cup {e}
         /\ Once(delivered, own) /\ (e \in EventsIn(delivered) => e \in own)
              => Once(Append(delivered, e), own)
         /\ InOrder(delivered, own, mixed) /\ (e \notin own => Sooner(EventsIn(delivered) \ own, {e}, mixed))
              => InOrder(Append(delivered, e), own, mixed)
<1>1. /\ queued # <<>> /\ queued \in Seq(Events) /\ delivered \in Seq(Events)
      /\ used \in Uses
  BY DEF IrqDeliver, TypeInv, TypeOK, Uses
<1>2. /\ e \in Events
      /\ Len(queued) \in Nat /\ Len(Tail(queued)) = Len(queued) - 1
      /\ EventsIn(queued) = {e} \cup EventsIn(Tail(queued))
      /\ Once(queued, own) => /\ Once(Tail(queued), own)
                              /\ e \in EventsIn(Tail(queued)) => e \in own
      /\ InTimeOrder(queued) => /\ InTimeOrder(Tail(queued))
                                /\ \A x \in EventsIn(Tail(queued)) : NotLater(e, x)
  <2>1. Events \subseteq Nat
    BY DEF Events
  <2> QED
    BY <1>1, <2>1, EventsOfTail
<1>3. /\ EventsIn(Append(delivered, e)) = EventsIn(delivered) \cup {e}
      /\ Once(delivered, own) /\ (e \in EventsIn(delivered) => e \in own)
           => Once(Append(delivered, e), own)
      /\ InOrder(delivered, own, mixed) /\ (e \notin own => Sooner(EventsIn(delivered) \ own, {e}, mixed))
           => InOrder(Append(delivered, e), own, mixed)
  <2>1. e \in Events /\ delivered \in Seq(Events)
    BY <1>1, <1>2
  <2> QED
    BY <2>1, EventsOfAppend, Zenon
<1>4. Spend("nomem", MaxNoMem) => used'.faults = used.faults /\ used'.single = used.single
  BY <1>1, NoMemSpent
<1> QED
  BY <1>2, <1>3, <1>4 DEF IrqDeliver, controller

-----------------------------------------------------------------------------
(* Where events are.                                                       *)

LEMMA PlacesStep == RxInv /\ [Next]_vars => PlacesInv'
<1> SUFFICES ASSUME RxInv, [Next]_vars PROVE PlacesInv'
  OBVIOUS
<1>a. TypeInv /\ PlacesInv /\ PassInv
  BY DEF RxInv
<1>b. /\ bus \in Nat /\ own \subseteq 1 .. bus /\ tef \in Seq(Events)
      /\ fifo \in [RxFifos -> Events \cup {None}]
      /\ bus' \in Nat
  <2>1. bus \in Nat /\ tef \in Seq(Events) /\ fifo \in [RxFifos -> Events \cup {None}]
    BY <1>a DEF TypeInv, TypeOK
  <2>2. own \subseteq 1 .. bus
    BY <1>a DEF PlacesInv
  <2>3. TypeOK'
    BY <1>a, TypeStep DEF TypeInv
  <2>4. bus' \in Nat
    BY <2>3 DEF TypeOK
  <2> QED BY <2>1, <2>2, <2>4
<1>p. /\ \A f \in RxFifos : fifo[f] \in (0 .. bus) \ own
      /\ \A f, g \in RxFifos : f # g /\ fifo[f] = fifo[g] => fifo[f] = None
      /\ EventsIn(tef) \subseteq own
      /\ EventsIn(batch) \subseteq (1 .. bus) \ own
      /\ EventsIn(queued) \subseteq 1 .. bus
      /\ EventsIn(delivered) \subseteq 1 .. bus
  BY <1>a DEF PlacesInv
<1>n. EventsIn(<<>>) = {}
  BY NoEvents
<1>1. CASE BusReceive
  <2>1. /\ bus' = bus + 1 /\ UNCHANGED <<tef, batch, queued, own, delivered>>
    BY <1>1 DEF BusReceive, thread
  <2>2. /\ bus + 1 \notin own /\ 1 .. bus \subseteq 1 .. bus + 1
        /\ 0 .. bus \subseteq 0 .. bus + 1 /\ bus + 1 \in 0 .. bus + 1
    BY <1>b
  <2>3. PICK g : \A f \in RxFifos : fifo'[f] = fifo[f] \/ (f = g /\ fifo'[f] = bus + 1)
    BY <1>1, <1>a, Receive
  <2>4. \A f \in RxFifos : fifo'[f] \in (0 .. bus + 1) \ own
    BY <1>p, <2>2, <2>3
  <2>5. \A f \in RxFifos : fifo[f] # bus + 1
    BY <1>b, <1>p
  <2>6. \A f, h \in RxFifos : f # h /\ fifo'[f] = fifo'[h] => fifo'[f] = None
    BY <1>p, <2>3, <2>5
  <2> QED
    BY <1>b, <1>p, <2>1, <2>2, <2>4, <2>6 DEF PlacesInv
<1>2. CASE BusSend
  <2>1. /\ bus' = bus + 1 /\ own' = own \cup {bus + 1} /\ tef' = Append(tef, bus + 1)
        /\ UNCHANGED <<fifo, batch, queued, delivered>> /\ bus + 1 \in Events
    BY <1>2, <1>b DEF BusSend, thread, Events
  <2>2. /\ bus + 1 \notin 0 .. bus /\ bus + 1 \notin 1 .. bus /\ 1 .. bus \subseteq 1 .. bus + 1
        /\ 0 .. bus \subseteq 0 .. bus + 1 /\ bus + 1 \in 1 .. bus + 1
    BY <1>b
  <2>3. EventsIn(tef') = EventsIn(tef) \cup {bus + 1}
    BY <1>b, <2>1, EventsOfAppend
  <2> QED
    BY <1>b, <1>p, <2>1, <2>2, <2>3 DEF PlacesInv
<1>3. CASE IrqReadOne /\ status.rxif # {}
  <2> DEFINE f == Max(status.rxif)
  <2>1. /\ f \in RxFifos /\ fifo[f] \in Events
        /\ UNCHANGED <<fifo, tef, batch, bus, own, delivered>>
        /\ queued' # queued => queued' = Append(queued, fifo[f])
        /\ EventsIn(Append(queued, fifo[f])) = EventsIn(queued) \cup {fifo[f]}
    BY <1>a, <1>3, ReadOne
  <2>2. fifo[f] \in 1 .. bus
    BY <1>b, <1>p, <2>1 DEF Events
  <2>3. EventsIn(queued') \subseteq 1 .. bus
    <3>1. EventsIn(queued') = EventsIn(queued) \/ EventsIn(queued') = EventsIn(queued) \cup {fifo[f]}
      BY <2>1
    <3> HIDE DEF f
    <3> QED
      BY <1>p, <2>2, <3>1
  <2> QED
    BY <1>b, <1>p, <2>1, <2>3 DEF PlacesInv
<1>4. CASE IrqReadBlock /\ status.rxif # {}
  <2>1. /\ Block \subseteq status.rxif /\ status.rxif \subseteq RxFifos
        /\ UNCHANGED <<fifo, tef, queued, bus, own, delivered>>
        /\ batch' # batch => EventsIn(batch') = {fifo[g] : g \in Block}
        /\ \A g \in status.rxif : fifo[g] # None
    BY <1>a, <1>4, ReadBlock DEF PassInv, Reading
  <2>2. \A g \in Block : fifo[g] \in (1 .. bus) \ own
    BY <1>b, <1>p, <2>1 DEF None
  <2>3. EventsIn(batch') \subseteq (1 .. bus) \ own
    BY <1>p, <2>1, <2>2
  <2> QED
    BY <1>b, <1>p, <2>1, <2>3 DEF PlacesInv
<1>5. CASE (IrqReadOne \/ IrqReadBlock) /\ status.rxif = {}
  BY <1>b, <1>p, <1>5, ReadEnd DEF PlacesInv
<1>6. CASE IrqRelease
  <2> DEFINE f == Min(release)
  <2>1. /\ fifo' = fifo \/ fifo' = [fifo EXCEPT ![f] = None]
        /\ queued' = queued \/ queued' = queued \o batch
        /\ batch' = batch \/ batch' = <<>>
        /\ EventsIn(queued \o batch) = EventsIn(queued) \cup EventsIn(batch)
        /\ UNCHANGED <<tef, bus, own, delivered>>
    BY <1>a, <1>6, Release
  <2>2. \A g \in RxFifos : fifo'[g] = fifo[g] \/ fifo'[g] = None
    BY <1>b, <2>1
  <2>3. /\ \A g \in RxFifos : fifo'[g] \in (0 .. bus) \ own
        /\ \A g, h \in RxFifos : g # h /\ fifo'[g] = fifo'[h] => fifo'[g] = None
    BY <1>b, <1>p, <2>2 DEF None
  <2>4. EventsIn(batch') \subseteq (1 .. bus) \ own /\ EventsIn(queued') \subseteq 1 .. bus
    BY <1>n, <1>p, <2>1
  <2> QED
    BY <1>b, <1>p, <2>1, <2>3, <2>4 DEF PlacesInv
<1>7. CASE IrqTef
  <2>1. /\ EventsIn(tef) = {Head(tef)} \cup EventsIn(tef')
        /\ EventsIn(queued') = EventsIn(queued) \cup {Head(tef)}
        /\ UNCHANGED <<fifo, batch, bus, own, delivered>>
    BY <1>a, <1>7, QueueTef
  <2> QED
    BY <1>b, <1>p, <2>1 DEF PlacesInv
<1>8. CASE IrqSort
  <2>1. EventsIn(queued') = EventsIn(queued) /\ UNCHANGED <<fifo, tef, batch, bus, own, delivered>>
    BY <1>a, <1>8, QueueSorted DEF IrqSort, controller, history
  <2> QED
    BY <1>b, <1>p, <2>1 DEF PlacesInv
<1>9. CASE IrqDeliver
  <2> DEFINE e == Head(queued)
  <2>1. /\ UNCHANGED <<fifo, tef, batch, bus, own>>
        /\ EventsIn(queued) = {e} \cup EventsIn(Tail(queued))
        /\ EventsIn(Append(delivered, e)) = EventsIn(delivered) \cup {e}
        /\ queued' = queued \/ queued' = Tail(queued)
        /\ delivered' = delivered \/ delivered' = Append(delivered, e)
    BY <1>a, <1>9, Deliver
  <2>2. EventsIn(queued') \subseteq 1 .. bus /\ EventsIn(delivered') \subseteq 1 .. bus
    BY <1>p, <2>1
  <2> QED
    BY <1>b, <1>p, <2>1, <2>2 DEF PlacesInv
<1>10. ASSUME /\ UNCHANGED <<fifo, tef, bus, own, delivered>>
              /\ batch' = batch \/ batch' = <<>>
              /\ queued' = queued \/ queued' = <<>>
       PROVE  PlacesInv'
  BY <1>b, <1>n, <1>p, <1>10 DEF PlacesInv
<1>11. CASE IrqStart \/ IrqReadFlags \/ IrqReadFifos \/ IrqClear \/ IrqFault
  BY <1>10, <1>11 DEF IrqStart, IrqReadFlags, IrqReadFifos, IrqClear, IrqFault, QueueCleared,
     controller, history
<1>12. CASE IrqDelivered \/ IrqEnd \/ UNCHANGED vars
  BY <1>10, <1>12 DEF IrqDelivered, IrqEnd, vars, controller, thread, history
<1> QED
  BY <1>1, <1>2, <1>3, <1>4, <1>5, <1>6, <1>7, <1>8, <1>9, <1>11, <1>12
     DEF Next, IrqThread

-----------------------------------------------------------------------------
(* What the thread is about to read or to release.                         *)

LEMMA PassStep == RxInv /\ [Next]_vars => PassInv'
<1> SUFFICES ASSUME RxInv, [Next]_vars PROVE PassInv'
  OBVIOUS
<1>a. TypeInv /\ PlacesInv /\ PassInv
  BY DEF RxInv
<1>b. /\ bus \in Nat /\ status.rxif \subseteq RxFifos /\ release \subseteq RxFifos
      /\ fifo \in [RxFifos -> Events \cup {None}] /\ status \in Statuses
  BY <1>a DEF TypeInv, TypeOK, Statuses
<1>p. /\ EventsIn(queued) \subseteq 1 .. bus
      /\ \A f \in RxFifos : fifo[f] \in (0 .. bus) \ own
      /\ \A f, g \in RxFifos : f # g /\ fifo[f] = fifo[g] => fifo[f] = None
      /\ EventsIn(batch) \subseteq (1 .. bus) \ own
  BY <1>a DEF PlacesInv
<1>n. EventsIn(<<>>) = {}
  BY NoEvents
<1>1. CASE BusReceive
  <2>1. UNCHANGED <<pc, status, release, batch, queued, own>>
    BY <1>1, <1>a, Receive
  <2>2. \A f \in RxFifos : fifo[f] # None => fifo'[f] = fifo[f]
    BY <1>1, <1>a, Receive
  <2> QED
    BY <1>a, <1>b, <2>1, <2>2 DEF PassInv, Reading
<1>2. CASE BusSend
  <2>1. /\ own' = own \cup {bus + 1} /\ UNCHANGED <<fifo, pc, status, release, batch, queued>>
    BY <1>2 DEF BusSend, thread
  <2>2. bus + 1 \notin EventsIn(queued)
    BY <1>b, <1>p
  <2> QED
    BY <1>a, <2>1, <2>2 DEF PassInv, Reading
<1>3. CASE IrqReadFifos
  <2>1. /\ pc' \in {"clear", "off"} /\ status'.rxif = Filled /\ UNCHANGED fifo
    BY <1>3, <1>b DEF IrqReadFifos, controller, Statuses
  <2> QED
    BY <2>1 DEF PassInv, Reading, Filled
<1>4. CASE IrqClear
  <2>1. /\ pc = "clear" /\ pc' \in {"read", "tef"} /\ status'.rxif = status.rxif /\ UNCHANGED <<fifo, own>>
        /\ queued' = <<>> /\ batch' = <<>> /\ release' = {}
    BY <1>4, <1>b DEF IrqClear, controller, history, QueueCleared, Statuses
  <2> QED
    BY <1>a, <1>n, <2>1 DEF PassInv, Reading
<1>5. CASE IrqReadOne /\ status.rxif # {}
  <2> DEFINE f == Max(status.rxif)
  <2>1. /\ f \in RxFifos /\ fifo[f] \in Events /\ pc = "read" /\ UNCHANGED <<fifo, batch, own>>
        /\ \/ /\ queued' = Append(queued, fifo[f]) /\ pc' = "release" /\ release' = {f}
              /\ status'.rxif = status.rxif \ {f} /\ status'.mode = "single"
           \/ pc' = "tef"
        /\ EventsIn(Append(queued, fifo[f])) = EventsIn(queued) \cup {fifo[f]}
    BY <1>a, <1>5, ReadOne
  <2>2. CASE pc' = "tef"
    BY <2>2 DEF PassInv, Reading
  <2>3. CASE pc' = "release"
    <3>1. /\ release' = {f} /\ EventsIn(queued') = EventsIn(queued) \cup {fifo[f]}
          /\ status'.rxif = status.rxif \ {f} /\ status'.mode = "single"
      BY <2>1, <2>3
    <3>2. fifo[f] # None /\ fifo[f] \notin own
      BY <1>p, <2>1 DEF Events, None
    <3>3. /\ \A g \in status.rxif : fifo[g] # None
          /\ batch = <<>> /\ EventsIn(queued) \cap own = {}
      BY <1>a, <2>1 DEF PassInv, Reading
    <3> HIDE DEF f
    <3>4. EventsIn(queued') \cap own' = {}
      BY <2>1, <3>1, <3>2, <3>3
    <3>5. status'.mode = "single" =>
            /\ batch' = <<>> /\ \E g \in RxFifos : release' = {g}
            /\ \A g \in release' : fifo'[g] \in EventsIn(queued')
      BY <2>1, <3>1, <3>3
    <3>6. release' # {} /\ release' \cap status'.rxif = {} /\ \A g \in release' : fifo'[g] # None
      BY <2>1, <3>1, <3>2
    <3>7. \A g \in status'.rxif : fifo'[g] # None
      BY <2>1, <3>1, <3>3
    <3> QED
      BY <2>3, <3>1, <3>4, <3>5, <3>6, <3>7 DEF PassInv, Reading
  <2> QED
    BY <2>1, <2>2, <2>3
<1>6. CASE IrqReadBlock /\ status.rxif # {}
  <2>1. /\ Block \subseteq status.rxif /\ Block # {}
        /\ pc = "read" /\ UNCHANGED <<queued, fifo, own>>
        /\ \/ /\ EventsIn(batch') = {fifo[f] : f \in Block}
              /\ pc' = "release" /\ release' = Block
              /\ status'.rxif = status.rxif \ Block /\ status'.mode = "bulk"
           \/ pc' = "tef"
    BY <1>a, <1>6, ReadBlock
  <2>2. CASE pc' = "tef"
    BY <2>2 DEF PassInv, Reading
  <2>3. CASE pc' = "release"
    BY <1>a, <2>1, <2>3 DEF PassInv, Reading
  <2> QED
    BY <2>1, <2>2, <2>3
<1>7. CASE (IrqReadOne \/ IrqReadBlock) /\ status.rxif = {}
  BY <1>7, ReadEnd DEF PassInv, Reading
<1>8. CASE IrqRelease
  <2> DEFINE f == Min(release)
  <2>1. /\ f \in release /\ f \in RxFifos /\ pc = "release" /\ UNCHANGED <<status, own>>
        /\ EventsIn(queued \o batch) = EventsIn(queued) \cup EventsIn(batch)
        /\ status.mode \in {"bulk", "single"}
    BY <1>a, <1>8, Release
  <2>2. \/ /\ fifo' = [fifo EXCEPT ![f] = None] /\ release' = release \ {f}
           /\ \/ /\ release = {f} /\ pc' = "read"
                 /\ queued' = queued \o batch /\ batch' = <<>>
              \/ release # {f} /\ UNCHANGED <<pc, queued, batch>>
        \/ pc' = "tef"
    BY <1>a, <1>8, Release
  <2>3. /\ release \cap status.rxif = {} /\ \A g \in release : fifo[g] # None
        /\ \A g \in status.rxif : fifo[g] # None
        /\ EventsIn(queued) \cap own = {}
        /\ status.mode = "single" => \E g \in RxFifos : release = {g}
        /\ status.mode = "bulk" => \A g \in release : fifo[g] \in EventsIn(batch)
    BY <1>a, <2>1 DEF PassInv, Reading
  <2> HIDE DEF f
  <2>4. CASE pc' = "tef"
    BY <2>4 DEF PassInv, Reading
  <2>5. CASE pc' = "read"
    <3>1. /\ release' = {} /\ batch' = <<>> /\ EventsIn(queued') = EventsIn(queued) \cup EventsIn(batch)
          /\ fifo' = [fifo EXCEPT ![f] = None]
      BY <2>1, <2>2, <2>5
    <3>2. \A g \in status'.rxif : fifo'[g] # None
      BY <1>b, <2>1, <2>3, <3>1
    <3>3. EventsIn(queued') \cap own' = {}
      BY <1>p, <2>1, <2>3, <3>1
    <3> QED
      BY <2>5, <3>1, <3>2, <3>3 DEF PassInv, Reading
  <2>6. CASE pc' = "release"
    <3>1. /\ release' = release \ {f} /\ release # {f} /\ UNCHANGED <<queued, batch>>
          /\ fifo' = [fifo EXCEPT ![f] = None]
      BY <2>1, <2>2, <2>6
    <3>2. status.mode = "bulk"
      BY <2>1, <2>3, <3>1
    <3>3. \A g \in status'.rxif \cup release' : fifo'[g] = fifo[g] /\ g \in RxFifos
      BY <1>b, <2>1, <2>3, <3>1
    <3>4. /\ release' # {} /\ release' \cap status'.rxif = {}
          /\ \A g \in release' : fifo'[g] # None /\ fifo'[g] \in EventsIn(batch')
          /\ \A g \in status'.rxif : fifo'[g] # None
      BY <2>1, <2>3, <3>1, <3>2, <3>3
    <3>5. EventsIn(queued') \cap own' = {}
      BY <2>1, <2>3, <3>1
    <3> QED
      BY <2>1, <2>6, <3>2, <3>4, <3>5 DEF PassInv, Reading
  <2> QED
    BY <2>1, <2>2, <2>4, <2>5, <2>6
<1>9. ASSUME pc' \notin {"clear", "read", "release"}
      PROVE  PassInv'
  BY <1>9 DEF PassInv, Reading
<1>10. CASE IrqStart \/ IrqReadFlags \/ IrqFault \/ IrqTef \/ IrqSort \/ IrqDeliver \/ IrqDelivered \/ IrqEnd
  BY <1>9, <1>10 DEF IrqStart, IrqReadFlags, IrqFault, IrqTef, IrqSort, IrqDeliver, IrqDelivered, IrqEnd
<1>11. CASE UNCHANGED vars
  BY <1>a, <1>11 DEF vars, controller, thread, history, PassInv, Reading
<1> QED
  BY <1>1, <1>2, <1>3, <1>4, <1>5, <1>6, <1>7, <1>8, <1>10, <1>11 DEF Next, IrqThread

-----------------------------------------------------------------------------
(* No received event is in two places.                                     *)

LEMMA OnceStep == RxInv /\ [Next]_vars => OnceInv'
<1> SUFFICES ASSUME RxInv, [Next]_vars, used'.single = 0 PROVE OnceInv'
  BY DEF OnceInv
<1>a. TypeInv /\ PlacesInv /\ PassInv /\ OnceInv
  BY DEF RxInv
<1>b. bus \in Nat /\ used.single \in Nat
  BY <1>a DEF TypeInv, TypeOK
<1>p. /\ \A f \in RxFifos : fifo[f] \in (0 .. bus) \ own
      /\ \A f, g \in RxFifos : f # g /\ fifo[f] = fifo[g] => fifo[f] = None
      /\ EventsIn(tef) \subseteq own
      /\ EventsIn(batch) \subseteq (1 .. bus) \ own
      /\ EventsIn(queued) \subseteq 1 .. bus
      /\ EventsIn(delivered) \subseteq 1 .. bus
  BY <1>a DEF PlacesInv
<1>n. EventsIn(<<>>) = {} /\ \A excepted : Once(<<>>, excepted)
  BY NoEvents
<1>o. ASSUME used.single = 0
      PROVE  /\ Once(delivered, own) /\ Once(queued, own) /\ Once(batch, {})
             /\ EventsIn(queued) \cap EventsIn(delivered) \subseteq own
             /\ EventsIn(batch) \cap (EventsIn(queued) \cup EventsIn(delivered)) = {}
             /\ \A f \in RxFifos : fifo[f] \notin EventsIn(delivered)
             /\ \A f \in RxFifos : fifo[f] \in EventsIn(queued)
                  => pc = "release" /\ status.mode = "single" /\ f \in release
             /\ \A f \in RxFifos :
                  pc = "release" /\ status.mode = "bulk" /\ fifo[f] \in EventsIn(batch)
                    => f \in release
  BY <1>a, <1>o DEF OnceInv
<1>1. CASE BusReceive
  <2>1. /\ UNCHANGED <<pc, status, release, batch, queued, own, delivered, used>>
        /\ \A f \in RxFifos : fifo'[f] = fifo[f] \/ fifo'[f] = bus + 1
    BY <1>1, <1>a, Receive
  <2>2. /\ bus + 1 \notin EventsIn(delivered) /\ bus + 1 \notin EventsIn(queued)
        /\ bus + 1 \notin EventsIn(batch)
    BY <1>b, <1>p
  <2> QED
    BY <1>o, <2>1, <2>2 DEF OnceInv
<1>2. CASE BusSend
  <2>1. /\ UNCHANGED <<fifo, pc, status, release, batch, queued, delivered, used>>
        /\ own \subseteq own'
    BY <1>2 DEF BusSend, thread
  <2>2. \A q : Once(q, own) => Once(q, own')
    BY <2>1 DEF Once
  <2> QED
    BY <1>o, <2>1, <2>2 DEF OnceInv
<1>3. CASE IrqReadOne /\ status.rxif # {}
  <2> DEFINE f == Max(status.rxif)
  <2>1. /\ f \in RxFifos /\ fifo[f] \in Events /\ pc = "read"
        /\ UNCHANGED <<fifo, batch, own, delivered>>
        /\ \/ /\ queued' = Append(queued, fifo[f])
              /\ pc' = "release" /\ release' = {f} /\ UNCHANGED used
              /\ status'.mode = "single"
           \/ used'.single # 0
    BY <1>a, <1>3, ReadOne
  <2>2. /\ EventsIn(Append(queued, fifo[f])) = EventsIn(queued) \cup {fifo[f]}
        /\ Once(queued, own) /\ (fifo[f] \in EventsIn(queued) => fifo[f] \in own)
              => Once(Append(queued, fifo[f]), own)
    BY <1>a, <1>3, ReadOne
  <2> HIDE DEF f
  <2>3. used.single = 0 /\ batch = <<>>
    BY <1>a, <2>1 DEF PassInv
  <2>4. Once(queued', own) /\ EventsIn(queued') = EventsIn(queued) \cup {fifo[f]}
    BY <1>o, <2>1, <2>2, <2>3
  <2>5. \A g \in RxFifos : fifo[g] = fifo[f] => g = f
    BY <1>p, <2>1 DEF Events, None
  <2>6. \A g \in RxFifos : fifo[g] \in EventsIn(queued') => g \in release'
    BY <1>o, <2>1, <2>3, <2>4, <2>5
  <2>7. /\ EventsIn(queued') \cap EventsIn(delivered) \subseteq own
        /\ EventsIn(batch) = {} /\ Once(batch, {})
    BY <1>n, <1>o, <2>1, <2>3, <2>4
  <2> QED
    BY <1>o, <2>1, <2>3, <2>4, <2>6, <2>7 DEF OnceInv
<1>4. CASE IrqReadBlock /\ status.rxif # {}
  <2>1. /\ Block \subseteq RxFifos
        /\ pc = "read" /\ status.mode = "bulk" /\ batch = <<>>
        /\ UNCHANGED <<queued, fifo, own, delivered>>
    BY <1>a, <1>4, ReadBlock
  <2>2. \/ /\ EventsIn(batch') = {fifo[f] : f \in Block} /\ Once(batch', {})
           /\ pc' = "release" /\ release' = Block /\ UNCHANGED used
           /\ status'.mode = "bulk"
        \/ pc' = "tef" /\ UNCHANGED batch /\ used'.single = used.single
    BY <1>a, <1>4, ReadBlock
  <2>3. \A f \in Block : fifo[f] # None
    BY <1>a, <1>4, <2>1, ReadBlock DEF PassInv, Reading
  <2>4. used.single = 0
    BY <2>2
  <2>5. CASE pc' = "tef"
    BY <1>o, <2>1, <2>2, <2>4, <2>5 DEF OnceInv
  <2>6. CASE pc' = "release"
    <3>1. /\ EventsIn(batch') = {fifo[f] : f \in Block} /\ Once(batch', {})
          /\ release' = Block /\ status'.mode = "bulk"
      BY <2>2, <2>6
    <3>2. EventsIn(batch') \cap (EventsIn(queued) \cup EventsIn(delivered)) = {}
      BY <1>o, <2>1, <2>4, <3>1
    <3>3. \A f \in RxFifos : fifo[f] \in EventsIn(batch') => f \in Block
      BY <1>p, <2>1, <2>3, <3>1
    <3>4. \A f \in RxFifos : fifo[f] \notin EventsIn(queued)
      BY <1>o, <2>1, <2>4
    <3> QED
      BY <1>o, <2>1, <2>4, <3>1, <3>2, <3>3, <3>4 DEF OnceInv
  <2> QED
    BY <2>2, <2>5, <2>6
<1>5. CASE IrqRelease
  <2> DEFINE f == Min(release)
  <2>1. /\ f \in release /\ f \in RxFifos /\ pc = "release" /\ UNCHANGED <<status, own, delivered>>
        /\ status.mode \in {"bulk", "single"}
    BY <1>a, <1>5, Release
  <2>2. \/ /\ fifo' = [fifo EXCEPT ![f] = None] /\ release' = release \ {f}
           /\ UNCHANGED used
           /\ \/ /\ release = {f} /\ pc' = "read"
                 /\ queued' = queued \o batch /\ batch' = <<>>
              \/ release # {f} /\ UNCHANGED <<pc, queued, batch>>
        \/ /\ pc' = "tef" /\ UNCHANGED <<fifo, release, queued, batch>>
           /\ used'.single = IF status.mode = "single" THEN used.single + 1
                             ELSE used.single
    BY <1>a, <1>5, Release
  <2>3. /\ EventsIn(queued \o batch) = EventsIn(queued) \cup EventsIn(batch)
        /\ Once(queued, own) /\ Once(batch, {})
           /\ EventsIn(queued) \cap EventsIn(batch) = {}
             => Once(queued \o batch, own)
    BY <1>a, <1>5, Release
  <2>4. used.single = 0
    BY <1>b, <2>1, <2>2
  <2>5. /\ status.mode = "single" => batch = <<>> /\ \E g \in RxFifos : release = {g}
        /\ fifo \in [RxFifos -> Events \cup {None}]
    BY <1>a, <2>1 DEF PassInv, TypeInv, TypeOK
  <2> HIDE DEF f
  <2>6. CASE pc' = "tef"
    BY <1>o, <2>1, <2>2, <2>4, <2>5, <2>6 DEF OnceInv
  <2>7. ASSUME fifo' = [fifo EXCEPT ![f] = None]
        PROVE  \A g \in RxFifos : fifo'[g] = IF g = f THEN None ELSE fifo[g]
    BY <2>5, <2>7
  <2>8. \A q \in {queued, batch, delivered} : None \notin EventsIn(q)
    BY <1>p DEF None
  <2>9. CASE pc' = "read"
    <3>1. /\ fifo' = [fifo EXCEPT ![f] = None] /\ release = {f}
          /\ queued' = queued \o batch /\ batch' = <<>>
      BY <2>1, <2>2, <2>9
    <3>2. /\ Once(queued', own) /\ EventsIn(queued') = EventsIn(queued) \cup EventsIn(batch)
          /\ Once(batch', {}) /\ EventsIn(batch') = {}
      BY <1>n, <1>o, <2>3, <2>4, <3>1
    <3>3. EventsIn(queued') \cap EventsIn(delivered) \subseteq own
      BY <1>o, <2>4, <3>2
    <3>4. ASSUME NEW g \in RxFifos PROVE fifo'[g] \notin EventsIn(queued')
      <4>1. CASE g = f
        BY <2>7, <2>8, <3>1, <3>2, <4>1
      <4>2. CASE g # f
        <5>1. fifo'[g] = fifo[g] /\ g \notin release
          BY <2>7, <3>1, <4>2
        <5>2. fifo[g] \notin EventsIn(queued)
          BY <1>o, <2>4, <5>1
        <5>3. fifo[g] \notin EventsIn(batch)
          BY <1>n, <1>o, <2>1, <2>4, <2>5, <5>1
        <5> QED
          BY <3>2, <5>1, <5>2, <5>3
      <4> QED
        BY <4>1, <4>2
    <3>5. \A g \in RxFifos : fifo'[g] \notin EventsIn(delivered)
      BY <1>o, <2>4, <2>7, <2>8, <3>1
    <3> QED
      BY <1>o, <2>1, <2>4, <2>9, <3>2, <3>3, <3>4, <3>5 DEF OnceInv
  <2>10. CASE pc' = "release"
    <3>1. /\ fifo' = [fifo EXCEPT ![f] = None] /\ release # {f} /\ release' = release \ {f}
          /\ UNCHANGED <<queued, batch>>
      BY <2>1, <2>2, <2>10
    <3>2. status.mode = "bulk"
      BY <2>1, <2>5, <3>1
    <3>3. ASSUME NEW g \in RxFifos
          PROVE  /\ fifo'[g] \notin EventsIn(queued)
                 /\ fifo'[g] \in EventsIn(batch) => g \in release'
                 /\ fifo'[g] \notin EventsIn(delivered)
      <4>1. CASE g = f
        BY <2>7, <2>8, <3>1, <4>1
      <4>2. CASE g # f
        BY <1>o, <2>1, <2>4, <2>7, <3>1, <3>2, <4>2
      <4> QED
        BY <4>1, <4>2
    <3> QED
      BY <1>o, <2>1, <2>4, <3>1, <3>2, <3>3 DEF OnceInv
  <2> QED
    BY <2>1, <2>2, <2>6, <2>9, <2>10
<1>6. CASE IrqTef
  <2>1. /\ pc = "tef" /\ UNCHANGED <<pc, status, release, batch, fifo, own, delivered, used>>
        /\ EventsIn(queued') = EventsIn(queued) \cup {Head(tef)}
        /\ Once(queued, own) /\ Head(tef) \in own => Once(queued', own)
        /\ Head(tef) \in EventsIn(tef)
    BY <1>a, <1>6, QueueTef
  <2>2. Head(tef) \in own
    BY <1>p, <2>1
  <2>3. used.single = 0
    BY <2>1
  <2> QED
    BY <1>o, <1>p, <2>1, <2>2, <2>3 DEF OnceInv
<1>7. CASE IrqSort
  <2>1. /\ EventsIn(queued') = EventsIn(queued)
        /\ Once(queued, own) => Once(queued', own)
        /\ pc = "tef" /\ pc' = "deliver" /\ UNCHANGED <<batch, fifo, own, delivered, used>>
    BY <1>a, <1>7, QueueSorted DEF IrqSort, controller, history
  <2>2. used.single = 0
    BY <2>1
  <2>3. Once(queued', own) /\ \A f \in RxFifos : fifo[f] \notin EventsIn(queued')
    BY <1>o, <2>1, <2>2
  <2>4. /\ EventsIn(queued') \cap EventsIn(delivered) \subseteq own
        /\ EventsIn(batch) \cap (EventsIn(queued') \cup EventsIn(delivered)) = {}
    BY <1>o, <2>1, <2>2
  <2> QED
    BY <1>o, <2>1, <2>2, <2>3, <2>4 DEF OnceInv
<1>8. CASE IrqDeliver
  <2> DEFINE e == Head(queued)
  <2>1. /\ pc = "deliver" /\ pc' \in {"deliver", "overflow"} /\ e \in EventsIn(queued)
        /\ UNCHANGED <<batch, fifo, own>> /\ used'.single = used.single
        /\ \/ delivered' = Append(delivered, e) /\ queued' = Tail(queued)
           \/ UNCHANGED <<delivered, queued>>
    BY <1>a, <1>8, Deliver
  <2>2. /\ EventsIn(queued) = {e} \cup EventsIn(Tail(queued))
        /\ Once(queued, own) => /\ Once(Tail(queued), own)
                                /\ e \in EventsIn(Tail(queued)) => e \in own
        /\ EventsIn(Append(delivered, e)) = EventsIn(delivered) \cup {e}
        /\ Once(delivered, own) /\ (e \in EventsIn(delivered) => e \in own)
              => Once(Append(delivered, e), own)
    BY <1>a, <1>8, Deliver
  <2>3. used.single = 0
    BY <2>1
  <2> HIDE DEF e
  <2>4. CASE UNCHANGED <<delivered, queued>>
    BY <1>o, <2>1, <2>3, <2>4 DEF OnceInv
  <2>5. CASE delivered' = Append(delivered, e) /\ queued' = Tail(queued)
    <3>1. Once(queued', own) /\ Once(delivered', own)
      BY <1>o, <2>1, <2>2, <2>3, <2>5
    <3>2. /\ EventsIn(queued') \subseteq EventsIn(queued)
          /\ EventsIn(delivered') = EventsIn(delivered) \cup {e}
          /\ e \in EventsIn(queued') => e \in own
      BY <1>o, <2>2, <2>3, <2>5
    <3>3. EventsIn(queued') \cap EventsIn(delivered') \subseteq own
      BY <1>o, <2>3, <3>2
    <3>4. EventsIn(batch) \cap (EventsIn(queued') \cup EventsIn(delivered')) = {}
      BY <1>o, <2>1, <2>3, <3>2
    <3>5. \A f \in RxFifos : fifo[f] \notin EventsIn(queued) /\ fifo[f] \notin EventsIn(delivered)
      BY <1>o, <2>1, <2>3
    <3>6. \A f \in RxFifos : fifo[f] \notin EventsIn(queued') /\ fifo[f] \notin EventsIn(delivered')
      BY <2>1, <3>2, <3>5
    <3> QED
      BY <1>o, <2>1, <2>3, <3>1, <3>3, <3>4, <3>6 DEF OnceInv
  <2> QED
    BY <2>1, <2>4, <2>5
<1>9. ASSUME /\ UNCHANGED <<fifo, own, delivered>> /\ used.single = 0
             /\ batch' = batch \/ batch' = <<>>
             /\ queued' = queued \/ queued' = <<>>
             /\ pc # "release" /\ pc' # "release"
      PROVE  OnceInv'
  <2>1. /\ Once(queued', own) /\ Once(batch', {})
        /\ EventsIn(queued') \subseteq EventsIn(queued)
        /\ EventsIn(batch') \subseteq EventsIn(batch)
    BY <1>n, <1>o, <1>9
  <2>2. /\ EventsIn(queued') \cap EventsIn(delivered) \subseteq own
        /\ EventsIn(batch') \cap (EventsIn(queued') \cup EventsIn(delivered)) = {}
        /\ \A f \in RxFifos : fifo[f] \notin EventsIn(queued')
    BY <1>o, <1>9, <2>1
  <2> QED
    BY <1>o, <1>9, <2>1, <2>2 DEF OnceInv
<1>10. CASE (IrqReadOne \/ IrqReadBlock) /\ status.rxif = {}
  BY <1>9, <1>10, ReadEnd
<1>11. CASE IrqStart \/ IrqReadFlags \/ IrqReadFifos \/ IrqClear
  BY <1>9, <1>11 DEF IrqStart, IrqReadFlags, IrqReadFifos, IrqClear, QueueCleared,
     controller, history
<1>12. CASE IrqDelivered \/ IrqEnd
  BY <1>9, <1>12 DEF IrqDelivered, IrqEnd, controller, history
<1>13. CASE IrqFault
  <2>1. used'.single = used.single
    BY <1>a, <1>13, FaultSpent DEF IrqFault, TypeInv, TypeOK, Uses
  <2> QED
    BY <1>9, <1>13, <2>1 DEF IrqFault, controller
<1>14. CASE UNCHANGED vars
  BY <1>o, <1>14 DEF vars, controller, thread, history, OnceInv
<1> QED
  BY <1>1, <1>2, <1>3, <1>4, <1>5, <1>6, <1>7, <1>8, <1>10, <1>11, <1>12, <1>13, <1>14
     DEF Next, IrqThread

-----------------------------------------------------------------------------
(* What is older than what.                                                *)

LEMMA AgeStep == RxInv /\ [Next]_vars => AgeInv'
<1> SUFFICES ASSUME RxInv, [Next]_vars, used'.faults = 0 PROVE AgeInv'
  BY DEF AgeInv
<1>a. /\ TypeInv /\ PlacesInv /\ PassInv /\ OnceInv /\ AgeInv /\ KeptInv
      /\ PlacesInv'
  BY PlacesStep DEF RxInv
<1> DEFINE D == EventsIn(delivered) \ own
           Q == EventsIn(queued) \ own
           N == RxFifos \ Marked
<1>b. /\ bus \in Nat /\ used \in Uses /\ used.single <= used.faults
      /\ used.faults \in Nat /\ used.single \in Nat /\ status \in Statuses
      /\ status.rxif \subseteq RxFifos /\ release \subseteq RxFifos
      /\ fifo \in [RxFifos -> Events \cup {None}]
  BY <1>a DEF TypeInv, TypeOK, Uses, Statuses
<1>p. /\ \A f \in RxFifos : fifo[f] \in (0 .. bus) \ own
      /\ EventsIn(tef) \subseteq own
      /\ EventsIn(batch) \subseteq (1 .. bus) \ own
      /\ EventsIn(queued) \subseteq 1 .. bus
      /\ EventsIn(delivered) \subseteq 1 .. bus
  BY <1>a DEF PlacesInv
<1>n. EventsIn(<<>>) = {}
  BY NoEvents
<1>o. ASSUME used.faults = 0
      PROVE  /\ InOrder(delivered, own, mixed)
             /\ Ahead(D, RxFifos) /\ Older(D, EventsIn(batch))
             /\ Gathering => Sooner(D, Q, mixed)
             /\ pc = "clear" \/ Reading => Ahead({fifo[f] : f \in Marked}, N)
             /\ Reading => Ahead(Q, N) /\ Ahead(EventsIn(batch), N)
             /\ pc \in {"tef", "deliver"} => Ahead(Q, RxFifos)
             /\ pc = "deliver" => InTimeOrder(queued) /\ OfOnePass(EventsIn(queued), mixed)
  BY <1>a, <1>o DEF AgeInv
<1>1. CASE BusReceive
  <2>1. /\ UNCHANGED <<pc, status, release, batch, queued, own, delivered, mixed, used>>
        /\ \A f \in RxFifos :
             fifo'[f] = fifo[f] \/ (fifo[f] = None /\ fifo'[f] = bus + 1)
    BY <1>1, <1>a, Receive
  <2>2. UNCHANGED <<Marked, Reading, Gathering>>
    BY <2>1 DEF Marked, Reading, Gathering
  <2>3. ASSUME NEW S, S \subseteq 0 .. bus, NEW F, F \subseteq RxFifos, Ahead(S, F)
        PROVE  \A e \in S, f \in F : fifo'[f] # None => e < fifo'[f]
    BY <1>b, <2>1, <2>3 DEF Ahead
  <2>4. /\ D \subseteq 0 .. bus /\ Q \subseteq 0 .. bus /\ EventsIn(batch) \subseteq 0 .. bus
        /\ N \subseteq RxFifos
    BY <1>b, <1>p
  <2>5. ASSUME pc = "clear" \/ Reading
        PROVE  /\ Marked \subseteq RxFifos
               /\ \A f \in Marked : fifo[f] # None /\ fifo'[f] = fifo[f]
    <3>1. \A f \in Marked : f \in RxFifos /\ fifo[f] # None
      BY <1>a, <1>b, <2>5 DEF PassInv, Marked, Reading
    <3> QED
      BY <2>1, <3>1
  <2>6. ASSUME pc = "clear" \/ Reading
        PROVE  \A e \in {fifo'[f] : f \in Marked}, f \in N : fifo'[f] # None => e < fifo'[f]
    <3>1. {fifo[f] : f \in Marked} \subseteq 0 .. bus /\ Ahead({fifo[f] : f \in Marked}, N)
      BY <1>o, <1>p, <2>1, <2>5, <2>6
    <3>2. {fifo'[f] : f \in Marked} = {fifo[f] : f \in Marked}
      BY <2>5, <2>6
    <3> QED
      BY <2>3, <2>4, <3>1, <3>2
  <2>7. \A e \in D, f \in RxFifos : fifo'[f] # None => e < fifo'[f]
    BY <1>o, <2>1, <2>3, <2>4
  <2>8. Reading => /\ \A e \in Q, f \in N : fifo'[f] # None => e < fifo'[f]
                   /\ \A e \in EventsIn(batch), f \in N : fifo'[f] # None => e < fifo'[f]
    BY <1>o, <2>1, <2>3, <2>4
  <2>9. pc \in {"tef", "deliver"} => \A e \in Q, f \in RxFifos : fifo'[f] # None => e < fifo'[f]
    BY <1>o, <2>1, <2>3, <2>4
  <2> HIDE DEF D, Q, N
  <2>10. UNCHANGED <<D, Q, N>>
    BY <2>1, <2>2 DEF D, Q, N
  <2>11. /\ Ahead(D, RxFifos)' /\ (Reading => Ahead(Q, N) /\ Ahead(EventsIn(batch), N))'
         /\ (pc \in {"tef", "deliver"} => Ahead(Q, RxFifos))'
         /\ (pc = "clear" \/ Reading => Ahead({fifo[f] : f \in Marked}, N))'
    BY <2>1, <2>2, <2>6, <2>7, <2>8, <2>9, <2>10 DEF Ahead
  <2> QED
    BY <1>o, <2>1, <2>2, <2>10, <2>11 DEF AgeInv, D, Q, N
<1>2. CASE BusSend
  <2>1. /\ UNCHANGED <<fifo, pc, status, release, batch, queued, delivered, mixed, used>>
        /\ own' = own \cup {bus + 1}
    BY <1>2 DEF BusSend, thread
  <2>2. UNCHANGED <<D, Q>>
    <3>1. bus + 1 \notin EventsIn(delivered) /\ bus + 1 \notin EventsIn(queued)
      BY <1>b, <1>p
    <3> QED
      BY <2>1, <3>1
  <2>3. InOrder(delivered, own, mixed) => InOrder(delivered, own', mixed)
    BY <2>1 DEF InOrder
  <2>4. UNCHANGED <<Marked, Reading, Gathering>>
    BY <2>1 DEF Marked, Reading, Gathering
  <2>5. ASSUME NEW S, NEW F PROVE Ahead(S, F) => Ahead(S, F)'
    BY <2>1 DEF Ahead
  <2> HIDE DEF D, Q
  <2>6. /\ Ahead(D, RxFifos)' /\ (Reading => Ahead(Q, N) /\ Ahead(EventsIn(batch), N))'
        /\ (pc \in {"tef", "deliver"} => Ahead(Q, RxFifos))'
        /\ (pc = "clear" \/ Reading => Ahead({fifo[f] : f \in Marked}, N))'
    BY <1>o, <2>1, <2>2, <2>4 DEF Ahead
  <2> QED
    BY <1>o, <2>1, <2>2, <2>3, <2>4, <2>6 DEF AgeInv, D, Q
<1>3. CASE IrqReadFifos
  <2>1. /\ pc = "fifos" /\ pc' \in {"clear", "off"} /\ status'.rxif = Filled
        /\ UNCHANGED <<fifo, batch, own, delivered, mixed, used>>
    BY <1>3, <1>b DEF IrqReadFifos, controller, history, Statuses
  <2>2. \A f \in (RxFifos \ Marked)' : pc' = "clear" => fifo'[f] = None
    BY <2>1 DEF Marked, Filled
  <2>3. ~Reading' /\ ~Gathering'
    BY <2>1 DEF Reading, Gathering
  <2>4. (pc = "clear" => Ahead({fifo[f] : f \in Marked}, RxFifos \ Marked))'
    BY <2>2 DEF Ahead
  <2> QED
    BY <1>o, <2>1, <2>3, <2>4 DEF AgeInv, Ahead
<1>4. CASE IrqClear
  <2>1. /\ pc = "clear" /\ pc' \in {"read", "tef"} /\ status'.rxif = status.rxif
        /\ UNCHANGED <<fifo, own, delivered, mixed, used>>
        /\ queued' = <<>> /\ batch' = <<>> /\ release' = {}
    BY <1>4, <1>b DEF IrqClear, controller, history, QueueCleared, Statuses
  <2>2. UNCHANGED Marked
    BY <2>1 DEF Marked
  <2>3. EventsIn(queued') = {} /\ EventsIn(batch') = {}
    BY <1>n, <2>1
  <2> QED
    BY <1>o, <2>1, <2>2, <2>3 DEF AgeInv, Ahead, Older, Sooner, Reading, Gathering
<1>5. CASE IrqReadOne /\ status.rxif # {}
  <2> DEFINE f == Max(status.rxif)
  <2>1. /\ f \in status.rxif /\ f \in RxFifos /\ fifo[f] \in Events /\ pc = "read"
        /\ UNCHANGED <<fifo, batch, own, delivered, mixed>>
        /\ \/ /\ queued' = Append(queued, fifo[f])
              /\ pc' = "release" /\ release' = {f} /\ UNCHANGED used
              /\ status'.rxif = status.rxif \ {f}
           \/ used'.faults # 0
        /\ EventsIn(Append(queued, fifo[f])) = EventsIn(queued) \cup {fifo[f]}
    BY <1>a, <1>5, ReadOne
  <2> HIDE DEF f
  <2>2. /\ pc' = "release" /\ EventsIn(queued') = EventsIn(queued) \cup {fifo[f]}
        /\ used.faults = 0 /\ release = {}
    BY <1>a, <2>1 DEF PassInv
  <2>3. UNCHANGED Marked /\ f \in Marked
    BY <2>1, <2>2 DEF Marked
  <2>4. Reading /\ Reading' /\ Gathering /\ fifo[f] \notin own
    BY <1>p, <2>1, <2>2 DEF Reading, Gathering
  <2>5. /\ Sooner(D, Q \cup {fifo[f]}, mixed) /\ Ahead(Q \cup {fifo[f]}, N)
    <3>1. Sooner(D, Q, mixed) /\ Ahead(D, RxFifos) /\ Ahead(Q, N) /\ Ahead({fifo[g] : g \in Marked}, N)
      BY <1>o, <2>2, <2>4
    <3>2. fifo[f] # None
      BY <2>1 DEF Events, None
    <3>3. fifo[f] \in {fifo[g] : g \in Marked}
      BY <2>3
    <3> HIDE DEF D, Q, N
    <3>4. Sooner(D, Q \cup {fifo[f]}, mixed)
      BY <2>1, <3>1, <3>2 DEF Sooner, Precedes, Ahead
    <3>5. Ahead(Q \cup {fifo[f]}, N)
      BY <3>1, <3>3 DEF Ahead
    <3> QED
      BY <3>4, <3>5
  <2>6. EventsIn(queued') \ own = Q \cup {fifo[f]}
    BY <2>2, <2>4
  <2>7. /\ Sooner(D, EventsIn(queued) \ own, mixed)' /\ Ahead(EventsIn(queued) \ own, RxFifos \ Marked)'
    BY <2>1, <2>3, <2>5, <2>6 DEF Ahead
  <2>8. /\ InOrder(delivered, own, mixed)' /\ (Ahead(D, RxFifos) /\ Older(D, EventsIn(batch)))'
        /\ Ahead({fifo[g] : g \in Marked}, RxFifos \ Marked)'
        /\ Ahead(EventsIn(batch), RxFifos \ Marked)'
    BY <1>o, <2>1, <2>2, <2>3, <2>4 DEF Ahead
  <2> QED
    BY <2>2, <2>7, <2>8 DEF AgeInv
<1>6. CASE IrqReadBlock /\ status.rxif # {}
  <2>1. /\ Block \subseteq status.rxif /\ pc = "read" /\ status.rxif \subseteq RxFifos
        /\ UNCHANGED <<queued, fifo, own, delivered, mixed>>
        /\ \/ /\ EventsIn(batch') = {fifo[f] : f \in Block}
              /\ pc' = "release" /\ release' = Block /\ UNCHANGED used
              /\ status'.rxif = status.rxif \ Block
           \/ used'.faults # 0
    BY <1>a, <1>6, ReadBlock
  <2>2. used.faults = 0 /\ release = {} /\ Reading /\ Reading' /\ Gathering
    BY <1>a, <2>1 DEF PassInv, Reading, Gathering
  <2>3. UNCHANGED Marked /\ Block \subseteq Marked
    BY <2>1, <2>2 DEF Marked
  <2>4. \A f \in Block : f \in RxFifos /\ fifo[f] # None
    BY <1>a, <2>1, <2>2 DEF PassInv
  <2>5. Older(D, EventsIn(batch')) /\ Ahead(EventsIn(batch'), N)
    <3>1. Ahead(D, RxFifos) /\ Ahead({fifo[g] : g \in Marked}, N)
      BY <1>o, <2>2
    <3>2. EventsIn(batch') = {fifo[f] : f \in Block}
      BY <2>1
    <3>3. Older(D, EventsIn(batch'))
      BY <2>4, <3>1, <3>2 DEF Older, Ahead
    <3>4. Ahead(EventsIn(batch'), N)
      BY <2>3, <3>1, <3>2 DEF Ahead
    <3> QED
      BY <3>3, <3>4
  <2>6. /\ InOrder(delivered, own, mixed)' /\ Ahead(D, RxFifos)' /\ Sooner(D, Q, mixed)'
        /\ Ahead({fifo[g] : g \in Marked}, RxFifos \ Marked)'
        /\ Ahead(Q, RxFifos \ Marked)'
    BY <1>o, <2>1, <2>2, <2>3 DEF Ahead
  <2>7. /\ Older(D, EventsIn(batch))' /\ Ahead(EventsIn(batch), RxFifos \ Marked)'
    BY <2>1, <2>3, <2>5 DEF Ahead
  <2>8. pc' = "release"
    BY <2>1
  <2> QED
    BY <2>6, <2>7, <2>8 DEF AgeInv
<1>7. CASE (IrqReadOne \/ IrqReadBlock) /\ status.rxif = {}
  <2>1. /\ pc = "read" /\ pc' = "tef"
        /\ UNCHANGED <<batch, queued, fifo, own, delivered, mixed, used>>
    BY <1>7, ReadEnd
  <2>2. Marked = {} /\ Reading /\ Gathering
    BY <1>a, <1>7, <2>1 DEF PassInv, Marked, Reading, Gathering
  <2>3. N = RxFifos
    BY <2>2
  <2>4. Ahead(Q, RxFifos) /\ Sooner(D, Q, mixed) /\ Ahead(D, RxFifos) /\ Older(D, EventsIn(batch))
    BY <1>o, <2>1, <2>2, <2>3
  <2> QED
    BY <1>o, <2>1, <2>4 DEF AgeInv, Ahead, Reading
<1>8. CASE IrqRelease
  <2> DEFINE f == Min(release)
  <2>1. /\ f \in release /\ f \in RxFifos /\ pc = "release"
        /\ UNCHANGED <<status, own, delivered, mixed>>
        /\ EventsIn(queued \o batch) = EventsIn(queued) \cup EventsIn(batch)
        /\ \/ /\ fifo' = [fifo EXCEPT ![f] = None] /\ release' = release \ {f}
              /\ UNCHANGED used
              /\ \/ /\ release = {f} /\ pc' = "read"
                    /\ queued' = queued \o batch /\ batch' = <<>>
                 \/ release # {f} /\ UNCHANGED <<pc, queued, batch>>
           \/ used'.faults # 0
    BY <1>a, <1>8, Release
  <2> HIDE DEF f
  <2>2. /\ used.faults = 0 /\ Reading /\ Reading' /\ Gathering /\ pc' \in {"read", "release"}
    BY <2>1 DEF Reading, Gathering
  <2>3. /\ \A g \in RxFifos : g # f => fifo'[g] = fifo[g]
        /\ fifo'[f] = None
    BY <1>b, <2>1
  <2>4. /\ Marked' \subseteq Marked /\ \A g \in Marked : g = f \/ g \in Marked'
        /\ Marked \subseteq RxFifos /\ f \notin Marked'
    <3>1. release \cap status.rxif = {}
      BY <1>a, <2>1 DEF PassInv
    <3> QED
      BY <1>b, <2>1, <2>2, <3>1 DEF Marked
  <2>5. /\ EventsIn(queued') \subseteq EventsIn(queued) \cup EventsIn(batch)
        /\ EventsIn(batch') \subseteq EventsIn(batch)
        /\ EventsIn(batch) \cap own = {}
    BY <1>n, <1>p, <2>1
  <2> DEFINE Q2 == Q \cup EventsIn(batch)
  <2>6. /\ EventsIn(queued') \ own \subseteq Q2 /\ EventsIn(batch') \subseteq Q2
        /\ EventsIn(batch') \subseteq EventsIn(batch)
    BY <2>5
  <2>7. Sooner(D, Q2, mixed) /\ Ahead(Q2, N) /\ Older(D, EventsIn(batch))
    <3>1. /\ Older(D, EventsIn(batch)) /\ Sooner(D, Q, mixed)
          /\ Ahead(Q, N) /\ Ahead(EventsIn(batch), N)
      BY <1>o, <2>2
    <3> HIDE DEF D, Q, N
    <3>2. Sooner(D, EventsIn(batch), mixed)
      BY <3>1 DEF Older, Sooner, Precedes
    <3> QED
      BY <3>1, <3>2 DEF Sooner, Ahead
  <2>8. \A g \in RxFifos \ Marked' : fifo'[g] = None \/ (g \in N /\ fifo'[g] = fifo[g])
    BY <2>3, <2>4
  <2>9. \A g \in RxFifos : fifo'[g] = None \/ fifo'[g] = fifo[g]
    BY <2>3
  <2> HIDE DEF Q2
  <2>10. Ahead(EventsIn(queued) \ own, RxFifos \ Marked)'
    BY <2>1, <2>6, <2>7, <2>8 DEF Ahead
  <2>11. Ahead(EventsIn(batch), RxFifos \ Marked)'
    BY <2>6, <2>7, <2>8 DEF Ahead
  <2>12. Ahead({fifo[g] : g \in Marked}, RxFifos \ Marked)'
    <3>1. Ahead({fifo[g] : g \in Marked}, N)
      BY <1>o, <2>2
    <3>2. \A g \in Marked' : g \in Marked /\ fifo'[g] = fifo[g]
      BY <2>3, <2>4
    <3>3. \A g \in Marked', h \in RxFifos \ Marked' : fifo'[h] # None => fifo'[g] < fifo'[h]
      BY <2>8, <3>1, <3>2 DEF Ahead
    <3> QED
      BY <3>3 DEF Ahead
  <2>13. Ahead(D, RxFifos)'
    <3>1. Ahead(D, RxFifos)
      BY <1>o, <2>2
    <3> QED
      BY <2>1, <2>9, <3>1 DEF Ahead
  <2>14. Older(D, EventsIn(batch))' /\ Sooner(D, EventsIn(queued) \ own, mixed)'
    BY <2>1, <2>6, <2>7 DEF Older, Sooner
  <2> QED
    BY <1>o, <2>1, <2>2, <2>10, <2>11, <2>12, <2>13, <2>14 DEF AgeInv
<1>9. CASE IrqTef
  <2>1. /\ pc = "tef" /\ UNCHANGED <<pc, status, release, batch, fifo, own, delivered, mixed, used>>
        /\ EventsIn(queued') = EventsIn(queued) \cup {Head(tef)}
        /\ Head(tef) \in EventsIn(tef)
    BY <1>a, <1>9, QueueTef
  <2>2. UNCHANGED Q
    BY <1>p, <2>1
  <2>3. Gathering /\ ~Reading
    BY <2>1 DEF Gathering, Reading
  <2> HIDE DEF Q
  <2>4. Ahead(Q, RxFifos)'
    BY <1>o, <2>1, <2>2 DEF Ahead
  <2> QED
    BY <1>o, <2>1, <2>2, <2>3, <2>4 DEF AgeInv, Ahead, Reading, Q
<1>10. CASE IrqSort
  <2>1. /\ EventsIn(queued') = EventsIn(queued)
        /\ InTimeOrder(queued')
        /\ mixed' = IF SameEra(queued) THEN mixed ELSE mixed \cup {EventsIn(queued)}
        /\ pc = "tef" /\ pc' = "deliver" /\ UNCHANGED <<batch, fifo, own, delivered, used>>
    BY <1>a, <1>10, QueueSorted DEF IrqSort, controller
  <2>2. Gathering /\ ~Reading'
    BY <2>1 DEF Gathering, Reading
  <2>3. Ahead(Q, RxFifos)'
    BY <1>o, <2>1 DEF Ahead
  <2>4. \A x, y : Precedes(x, y, mixed) => Precedes(x, y, mixed')
    BY <2>1 DEF Precedes, SortedIn
  <2>5. /\ InOrder(delivered, own, mixed) => InOrder(delivered, own, mixed')
        /\ Sooner(D, Q, mixed) => Sooner(D, Q, mixed')
    BY <2>4 DEF InOrder, Sooner
  <2>6. OfOnePass(EventsIn(queued), mixed')
    <3>1. CASE SameEra(queued)
      BY <3>1 DEF SameEra, OfOnePass
    <3>2. CASE ~SameEra(queued)
      BY <2>1, <3>2 DEF OfOnePass, SortedIn
    <3> QED
      BY <3>1, <3>2
  <2> QED
    BY <1>o, <2>1, <2>2, <2>3, <2>5, <2>6 DEF AgeInv, Ahead
<1>11. CASE IrqDeliver
  <2> DEFINE e == Head(queued)
  <2>1. /\ pc = "deliver" /\ e \in Events /\ e \in EventsIn(queued)
        /\ UNCHANGED <<batch, fifo, own, mixed>>
        /\ used'.faults = used.faults
        /\ \/ delivered' = Append(delivered, e) /\ queued' = Tail(queued) /\ UNCHANGED pc
           \/ pc' = "overflow" /\ UNCHANGED <<delivered, queued>>
    BY <1>a, <1>11, Deliver
  <2>2. /\ EventsIn(queued) = {e} \cup EventsIn(Tail(queued))
        /\ Once(queued, own) => (e \in EventsIn(Tail(queued)) => e \in own)
        /\ InTimeOrder(queued) => /\ InTimeOrder(Tail(queued))
                                  /\ \A x \in EventsIn(Tail(queued)) : NotLater(e, x)
        /\ EventsIn(Append(delivered, e)) = EventsIn(delivered) \cup {e}
        /\ InOrder(delivered, own, mixed) /\ (e \notin own => Sooner(D, {e}, mixed))
             => InOrder(Append(delivered, e), own, mixed)
    BY <1>a, <1>11, Deliver
  <2> HIDE DEF e
  <2>3. /\ used.faults = 0 /\ used.single = 0 /\ Gathering /\ batch = <<>>
        /\ Once(queued, own)
    BY <1>a, <1>b, <2>1 DEF Gathering, KeptInv, OnceInv
  <2>4. CASE UNCHANGED <<delivered, queued>> /\ pc' = "overflow"
    <3>1. ~Reading' /\ ~Gathering'
      BY <2>4 DEF Reading, Gathering
    <3> QED
      BY <1>o, <2>1, <2>3, <2>4, <3>1 DEF AgeInv, Ahead
  <2>5. CASE delivered' = Append(delivered, e) /\ queued' = Tail(queued) /\ UNCHANGED pc
    <3>0. OfOnePass(EventsIn(queued), mixed)
      BY <1>o, <2>1, <2>3
    <3>1. /\ InTimeOrder(queued') /\ \A x \in EventsIn(queued') : NotLater(e, x)
          /\ EventsIn(queued') \subseteq EventsIn(queued)
          /\ e \in EventsIn(queued') => e \in own
      BY <1>o, <2>1, <2>2, <2>3, <2>5
    <3>2. e \notin own => Sooner(D, {e}, mixed) /\ Ahead({e}, RxFifos)
      BY <1>o, <2>1, <2>3 DEF Sooner, Ahead
    <3>3. InOrder(delivered', own, mixed)
      BY <1>o, <2>2, <2>3, <2>5, <3>2
    <3>4. EventsIn(delivered') \ own \subseteq D \cup ({e} \ own)
      BY <2>2, <2>5
    <3>5. \A x \in EventsIn(queued') \ own : x \in Q /\ x # e /\ NotLater(e, x) /\ x \in Nat
      BY <1>b, <1>p, <3>1
    <3>6. Sooner(EventsIn(delivered') \ own, EventsIn(queued') \ own, mixed)
      <4>1. Sooner(D, Q, mixed)
        BY <1>o, <2>3
      <4>2. e \in Nat
        BY <2>1 DEF Events
      <4> HIDE DEF D, Q
      <4>3. \A x \in EventsIn(queued') \ own : Precedes(e, x, mixed)
        BY <2>1, <3>0, <3>1, <3>5, <4>2 DEF NotLater, Precedes, OfOnePass
      <4> QED
        BY <3>4, <3>5, <4>1, <4>3 DEF Sooner
    <3>7. Ahead(EventsIn(delivered) \ own, RxFifos)'
      <4>1. Ahead(D, RxFifos)
        BY <1>o, <2>3
      <4> HIDE DEF D
      <4> QED
        BY <2>1, <3>2, <3>4, <4>1 DEF Ahead
    <3>8. Ahead(EventsIn(queued) \ own, RxFifos)'
      <4>1. Ahead(Q, RxFifos)
        BY <1>o, <2>1, <2>3
      <4> HIDE DEF Q
      <4> QED
        BY <2>1, <3>5, <4>1 DEF Ahead
    <3>9. EventsIn(batch') = {} /\ ~Reading'
      BY <1>n, <2>1, <2>3, <2>5 DEF Reading
    <3>10. OfOnePass(EventsIn(queued'), mixed)
      BY <3>0, <3>1 DEF OfOnePass
    <3> QED
      BY <2>1, <2>5, <3>1, <3>3, <3>6, <3>7, <3>8, <3>9, <3>10 DEF AgeInv, Older
  <2> QED
    BY <2>1, <2>4, <2>5
<1>12. ASSUME /\ UNCHANGED <<fifo, own, delivered, mixed, batch>> /\ used.faults = 0
              /\ pc' \in {"off", "flags", "fifos", "overflow"}
       PROVE  AgeInv'
  <2>1. ~Reading' /\ ~Gathering'
    BY <1>12 DEF Reading, Gathering
  <2> QED
    BY <1>o, <1>12, <2>1 DEF AgeInv, Ahead
<1>13. CASE IrqStart \/ IrqReadFlags \/ IrqDelivered \/ IrqEnd
  BY <1>12, <1>13 DEF IrqStart, IrqReadFlags, IrqDelivered, IrqEnd, controller, history
<1>14. CASE IrqFault
  BY <1>b, <1>14, FaultSpent DEF IrqFault
<1>15. CASE UNCHANGED vars
  <2>1. UNCHANGED <<fifo, pc, status, release, batch, queued, own, delivered, mixed, used>>
    BY <1>15 DEF vars, controller, thread, history
  <2>2. UNCHANGED <<Marked, Reading, Gathering>>
    BY <2>1 DEF Marked, Reading, Gathering
  <2> QED
    BY <1>o, <2>1, <2>2 DEF AgeInv, Ahead
<1> QED
  BY <1>1, <1>2, <1>3, <1>4, <1>5, <1>6, <1>7, <1>8, <1>9, <1>10, <1>11, <1>13, <1>14,
     <1>15 DEF Next, IrqThread

-----------------------------------------------------------------------------
(* No frame is lost.                                                       *)

LEMMA KeptStep == RxInv /\ [Next]_vars => KeptInv'
<1> SUFFICES ASSUME RxInv, [Next]_vars, used'.faults = 0 PROVE KeptInv'
  BY DEF KeptInv
<1> DEFINE Held == {fifo[f] : f \in RxFifos}
           Gone == overflowed \cup dropped
<1>a. TypeInv /\ PlacesInv /\ PassInv /\ KeptInv
  BY DEF RxInv
<1>b. /\ bus \in Nat /\ used \in Uses /\ used.single <= used.faults
      /\ used.faults \in Nat /\ fifo \in [RxFifos -> Events \cup {None}]
  BY <1>a DEF TypeInv, TypeOK, Uses
<1>n. EventsIn(<<>>) = {}
  BY NoEvents
<1>k. ASSUME used.faults = 0
      PROVE  /\ Received \ Gone \subseteq Held \cup EventsIn(batch) \cup EventsIn(queued)
                                            \cup EventsIn(delivered)
             /\ pc # "release" => batch = <<>>
             /\ ~Gathering => EventsIn(queued) \subseteq own \cup dropped
  BY <1>a, <1>k DEF KeptInv, NothingLost
<1>r. \A x \in Received : x # None /\ x \notin own
  BY <1>b DEF Received, None
<1>i. ASSUME /\ Received' \ Gone' \subseteq Held' \cup EventsIn(batch') \cup EventsIn(queued')
                                              \cup EventsIn(delivered')
             /\ pc' # "release" => batch' = <<>>
             /\ ~Gathering' => EventsIn(queued') \subseteq own' \cup dropped'
      PROVE  KeptInv'
  BY <1>i DEF KeptInv, NothingLost
<1>1. CASE BusReceive
  <2>1. /\ UNCHANGED <<pc, batch, queued, own, dropped, delivered, used>>
        /\ bus' = bus + 1
    BY <1>1, <1>a, Receive
  <2>2. Received' \subseteq Received \cup {bus + 1}
    BY <1>b, <2>1 DEF Received
  <2>3. /\ \A x \in Held : x = None \/ x \in Held'
        /\ bus + 1 \in Held' \/ bus + 1 \in overflowed'
        /\ overflowed \subseteq overflowed'
    BY <1>1, <1>a, Receive
  <2>4. UNCHANGED Gathering
    BY <2>1 DEF Gathering
  <2> HIDE DEF Held
  <2> QED
    BY <1>i, <1>k, <1>r, <2>1, <2>2, <2>3, <2>4
<1>2. CASE BusSend
  <2>1. /\ UNCHANGED <<fifo, pc, batch, queued, overflowed, dropped, delivered, used>>
        /\ bus' = bus + 1 /\ own' = own \cup {bus + 1}
    BY <1>2 DEF BusSend, thread
  <2>2. Received' \subseteq Received
    BY <1>b, <2>1 DEF Received
  <2>3. UNCHANGED Gathering
    BY <2>1 DEF Gathering
  <2> QED
    BY <1>i, <1>k, <2>1, <2>2, <2>3
<1>3. ASSUME UNCHANGED <<bus, own>> PROVE UNCHANGED Received
  BY <1>3 DEF Received
<1>4. CASE IrqClear
  <2>1. /\ pc = "clear" /\ pc' \in {"read", "tef"} /\ queued' = <<>> /\ batch' = <<>>
        /\ UNCHANGED <<fifo, bus, own, overflowed, dropped, delivered, used>>
    BY <1>4 DEF IrqClear, controller, history, QueueCleared
  <2>2. ~Gathering /\ Gathering' /\ used.faults = 0
    BY <2>1 DEF Gathering
  <2>3. EventsIn(batch) = {} /\ EventsIn(batch') = {} /\ EventsIn(queued') = {}
    BY <1>k, <1>n, <2>1, <2>2
  <2> QED
    BY <1>3, <1>i, <1>k, <1>r, <2>1, <2>2, <2>3
<1>5. CASE IrqReadOne /\ status.rxif # {}
  <2> DEFINE f == Max(status.rxif)
  <2>1. /\ pc = "read" /\ UNCHANGED <<fifo, batch, bus, own, overflowed, dropped, delivered>>
        /\ \/ /\ queued' = Append(queued, fifo[f]) /\ pc' = "release" /\ UNCHANGED used
           \/ used'.faults # 0
        /\ EventsIn(Append(queued, fifo[f])) = EventsIn(queued) \cup {fifo[f]}
    BY <1>a, <1>5, ReadOne
  <2>2. /\ EventsIn(queued) \subseteq EventsIn(queued') /\ used.faults = 0 /\ pc' = "release"
    BY <2>1
  <2>3. Gathering'
    BY <2>2 DEF Gathering
  <2> QED
    BY <1>3, <1>i, <1>k, <2>1, <2>2, <2>3
<1>6. CASE IrqReadBlock /\ status.rxif # {}
  <2>1. /\ pc = "read" /\ batch = <<>>
        /\ UNCHANGED <<queued, fifo, bus, own, overflowed, dropped, delivered>>
        /\ \/ pc' = "release" /\ UNCHANGED used
           \/ used'.faults # 0
    BY <1>a, <1>6, ReadBlock
  <2>2. Gathering'
    BY <2>1 DEF Gathering
  <2> QED
    BY <1>3, <1>i, <1>k, <1>n, <2>1, <2>2
<1>7. CASE (IrqReadOne \/ IrqReadBlock) /\ status.rxif = {}
  <2>1. /\ pc = "read" /\ pc' = "tef"
        /\ UNCHANGED <<batch, queued, fifo, bus, own, overflowed, dropped, delivered, used>>
    BY <1>7, ReadEnd
  <2>2. Gathering'
    BY <2>1 DEF Gathering
  <2> QED
    BY <1>3, <1>i, <1>k, <2>1, <2>2
<1>8. CASE IrqRelease
  <2> DEFINE f == Min(release)
  <2>1. /\ f \in release /\ f \in RxFifos /\ pc = "release"
        /\ status.mode \in {"bulk", "single"}
        /\ UNCHANGED <<bus, own, overflowed, dropped, delivered>>
        /\ EventsIn(queued \o batch) = EventsIn(queued) \cup EventsIn(batch)
        /\ \/ /\ fifo' = [fifo EXCEPT ![f] = None]
              /\ UNCHANGED used
              /\ \/ /\ pc' = "read" /\ queued' = queued \o batch /\ batch' = <<>>
                 \/ UNCHANGED <<pc, queued, batch>>
           \/ used'.faults # 0
    BY <1>a, <1>8, Release
  <2> HIDE DEF f
  <2>2. /\ \A g \in RxFifos : g # f => fifo'[g] = fifo[g]
        /\ used.faults = 0 /\ pc' \in {"read", "release"}
    BY <1>b, <2>1
  <2>3. fifo[f] \in EventsIn(queued) \cup EventsIn(batch)
    BY <1>a, <2>1 DEF PassInv
  <2>4. EventsIn(queued') \cup EventsIn(batch') = EventsIn(queued) \cup EventsIn(batch)
    BY <1>n, <2>1
  <2>5. \A x \in Held : x \in Held' \/ x = fifo[f]
    BY <2>2
  <2>6. Gathering' /\ (pc' # "release" => batch' = <<>>)
    BY <2>1, <2>2 DEF Gathering
  <2> HIDE DEF Held
  <2> QED
    BY <1>3, <1>i, <1>k, <2>1, <2>2, <2>3, <2>4, <2>5, <2>6
<1>9. CASE IrqTef
  <2>1. /\ pc = "tef" /\ EventsIn(queued') = EventsIn(queued) \cup {Head(tef)}
        /\ UNCHANGED <<pc, batch, fifo, bus, own, overflowed, dropped, delivered, used>>
    BY <1>a, <1>9, QueueTef
  <2>2. Gathering'
    BY <2>1 DEF Gathering
  <2> QED
    BY <1>3, <1>i, <1>k, <2>1, <2>2
<1>10. CASE IrqSort
  <2>1. /\ EventsIn(queued') = EventsIn(queued) /\ pc = "tef" /\ pc' = "deliver"
        /\ UNCHANGED <<batch, fifo, bus, own, overflowed, dropped, delivered, used>>
    BY <1>a, <1>10, QueueSorted DEF IrqSort, controller, history
  <2>2. Gathering'
    BY <2>1 DEF Gathering
  <2> QED
    BY <1>3, <1>i, <1>k, <2>1, <2>2
<1>11. CASE IrqDeliver
  <2> DEFINE e == Head(queued)
  <2>1. /\ pc = "deliver" /\ UNCHANGED <<batch, fifo, bus, own, overflowed>>
        /\ used'.faults = used.faults
        /\ \/ /\ delivered' = Append(delivered, e) /\ queued' = Tail(queued)
              /\ UNCHANGED <<pc, dropped>>
           \/ /\ dropped' = dropped \cup EventsIn(queued) /\ pc' = "overflow"
              /\ UNCHANGED <<delivered, queued>>
        /\ EventsIn(queued) = {e} \cup EventsIn(Tail(queued))
        /\ EventsIn(Append(delivered, e)) = EventsIn(delivered) \cup {e}
    BY <1>a, <1>11, Deliver
  <2> HIDE DEF e
  <2>2. Gathering' \/ EventsIn(queued') \subseteq own' \cup dropped'
    BY <2>1 DEF Gathering
  <2> QED
    BY <1>3, <1>i, <1>k, <2>1, <2>2
<1>12. CASE IrqDelivered
  <2>1. /\ queued' = <<>> /\ queued = <<>> /\ pc = "deliver" /\ pc' = "overflow"
        /\ UNCHANGED <<batch, fifo, bus, own, overflowed, dropped, delivered, used>>
    BY <1>12 DEF IrqDelivered, controller, history
  <2> QED
    BY <1>3, <1>i, <1>k, <1>n, <2>1
<1>13. CASE IrqStart \/ IrqReadFlags \/ IrqReadFifos \/ IrqEnd
  <2>1. /\ pc \in {"off", "flags", "fifos", "overflow"}
        /\ pc' \in {"off", "flags", "fifos", "clear"}
        /\ UNCHANGED <<queued, batch, fifo, bus, own, overflowed, dropped, delivered, used>>
    BY <1>13 DEF IrqStart, IrqReadFlags, IrqReadFifos, IrqEnd, controller, history
  <2>2. ~Gathering
    BY <2>1 DEF Gathering
  <2> QED
    BY <1>3, <1>i, <1>k, <2>1, <2>2
<1>14. CASE IrqFault
  BY <1>b, <1>14, FaultSpent DEF IrqFault
<1>15. CASE UNCHANGED vars
  <2>1. UNCHANGED <<pc, queued, batch, fifo, bus, own, overflowed, dropped, delivered, used>>
    BY <1>15 DEF vars, controller, thread, history
  <2>2. UNCHANGED Gathering
    BY <2>1 DEF Gathering
  <2> QED
    BY <1>3, <1>i, <1>k, <2>1, <2>2
<1> QED
  BY <1>1, <1>2, <1>4, <1>5, <1>6, <1>7, <1>8, <1>9, <1>10, <1>11, <1>12, <1>13, <1>14,
     <1>15 DEF Next, IrqThread

-----------------------------------------------------------------------------
(* The queue has room for what a pass reads.                               *)

(* The FIFOs still to be read.                                             *)
LEMMA ToRead ==
  ASSUME TypeInv
  PROVE  /\ IsFiniteSet(status.rxif) /\ Cardinality(status.rxif) \in Nat
         /\ Cardinality(status.rxif) <= NRx
         /\ \A f \in status.rxif :
              Cardinality(status.rxif \ {f}) = Cardinality(status.rxif) - 1
         /\ \A F \in SUBSET status.rxif :
              Cardinality(status.rxif \ F) = Cardinality(status.rxif) - Cardinality(F)
<1>1. IsFiniteSet(RxFifos) /\ Cardinality(RxFifos) = NRx
  BY FS_Interval DEF RxFifos
<1>2. status.rxif \subseteq RxFifos
  BY DEF TypeInv, TypeOK
<1>3. /\ IsFiniteSet(status.rxif) /\ Cardinality(status.rxif) \in Nat
      /\ Cardinality(status.rxif) <= NRx
  BY <1>1, <1>2, FS_Subset, FS_CardinalityType
<1>4. \A f \in status.rxif : Cardinality(status.rxif \ {f}) = Cardinality(status.rxif) - 1
  BY <1>3, FS_RemoveElement
<1>5. ASSUME NEW F \in SUBSET status.rxif
      PROVE  Cardinality(status.rxif \ F) = Cardinality(status.rxif) - Cardinality(F)
  <2>1. status.rxif \cap F = F
    OBVIOUS
  <2> QED
    BY <1>3, <2>1, FS_Difference
<1> QED
  BY <1>3, <1>4, <1>5

LEMMA RoomStep == RxInv /\ [Next]_vars => RoomInv'
<1> SUFFICES ASSUME RxInv, [Next]_vars PROVE RoomInv'
  OBVIOUS
<1> DEFINE q == Len(queued)
           b == Len(batch)
           t == Len(tef)
           c == Cardinality(status.rxif)
<1>a. TypeInv /\ PlacesInv /\ PassInv /\ RoomInv
  BY DEF RxInv
<1>b. /\ q \in Nat /\ b \in Nat /\ t \in Nat /\ c \in Nat /\ c <= NRx
      /\ round \in Nat /\ round <= NTx /\ status \in Statuses /\ bus \in Nat
      /\ tef \in Seq(Events)
  BY <1>a, ToRead, LenProperties DEF TypeInv, TypeOK, Statuses
<1>r. /\ q + b <= NRx + NTx /\ t <= round
      /\ Reading => q + b + c <= NRx
      /\ pc = "tef" => q + b + t <= NRx + round
  BY <1>a DEF RoomInv, QueueFits
<1>i. ASSUME /\ Len(queued') + Len(batch') <= NRx + NTx /\ Len(tef') <= round'
             /\ pc' \in {"read", "release"}
                  => Len(queued') + Len(batch') + Cardinality(status'.rxif) <= NRx
             /\ pc' = "tef" => Len(queued') + Len(batch') + Len(tef') <= NRx + round'
      PROVE  RoomInv'
  BY <1>i DEF RoomInv, QueueFits, Reading
<1>n. Len(<<>>) = 0
  BY NoEvents
<1>1. CASE BusReceive
  <2>1. UNCHANGED <<pc, tef, queued, batch, status, round>>
    BY <1>1, <1>a, Receive
  <2> QED
    BY <1>i, <1>r, <2>1 DEF Reading
<1>2. CASE BusSend
  <2>1. /\ UNCHANGED <<pc, queued, batch, status>> /\ round' = round + 1
        /\ tef' = Append(tef, bus + 1) /\ bus + 1 \in Events
    BY <1>2, <1>b DEF BusSend, thread, Events
  <2>2. Len(tef') = t + 1
    BY <1>b, <2>1, EventsOfAppend
  <2> HIDE DEF q, b, t, c
  <2>3. UNCHANGED <<q, b, c>>
    BY <2>1 DEF q, b, c
  <2> QED
    BY <1>b, <1>i, <1>r, <2>1, <2>2, <2>3 DEF Reading, q, b, c
<1>3. CASE IrqClear
  <2>1. /\ queued' = <<>> /\ batch' = <<>> /\ status'.rxif = status.rxif
        /\ UNCHANGED <<tef, round>>
    BY <1>3, <1>b DEF IrqClear, QueueCleared, controller, history, Statuses
  <2>2. Len(queued') = 0 /\ Len(batch') = 0 /\ Len(tef') = t /\ Cardinality(status'.rxif) = c
    BY <1>n, <2>1
  <2> HIDE DEF t, c
  <2> QED
    BY <1>b, <1>i, <1>r, <2>1, <2>2
<1>4. CASE IrqReadOne /\ status.rxif # {}
  <2> DEFINE f == Max(status.rxif)
  <2>1. /\ f \in status.rxif /\ pc = "read" /\ UNCHANGED <<tef, batch, round>>
        /\ \/ /\ queued' = Append(queued, fifo[f])
              /\ pc' = "release" /\ status'.rxif = status.rxif \ {f}
           \/ /\ queued' = queued \/ queued' = Append(queued, fifo[f])
              /\ pc' = "tef"
        /\ Len(Append(queued, fifo[f])) = Len(queued) + 1
    BY <1>a, <1>4, ReadOne
  <2>2. Cardinality(status.rxif \ {f}) = c - 1
    BY <1>a, <2>1, ToRead
  <2>3. c # 0
    BY <1>a, <1>b, <2>1, <2>2, ToRead, FS_EmptySet
  <2>4. /\ Len(batch') = b /\ Len(tef') = t /\ Len(queued') \in {q, q + 1}
        /\ pc' = "release" => Len(queued') = q + 1 /\ Cardinality(status'.rxif) = c - 1
        /\ pc' \in {"release", "tef"} /\ Reading
    BY <2>1, <2>2 DEF Reading
  <2> HIDE DEF q, b, t, c
  <2> QED
    BY <1>b, <1>i, <1>r, <2>1, <2>3, <2>4
<1>5. CASE IrqReadBlock /\ status.rxif # {}
  <2>1. /\ Block \subseteq status.rxif /\ pc = "read" /\ batch = <<>>
        /\ Cardinality(Block) \in Nat
        /\ UNCHANGED <<queued, tef, round>>
        /\ \/ /\ Len(batch') = Cardinality(Block)
              /\ pc' = "release" /\ status'.rxif = status.rxif \ Block
           \/ pc' = "tef" /\ UNCHANGED <<status, batch>>
    BY <1>a, <1>5, ReadBlock
  <2>2. Cardinality(status.rxif \ Block) = c - Cardinality(Block)
    BY <1>a, <2>1, ToRead
  <2>3. /\ Len(queued') = q /\ Len(tef') = t /\ Len(batch) = 0 /\ Reading
        /\ \/ /\ pc' = "release" /\ Len(batch') = Cardinality(Block)
              /\ Cardinality(status'.rxif) = c - Cardinality(Block)
           \/ pc' = "tef" /\ Len(batch') = 0
    BY <1>n, <2>1, <2>2 DEF Reading
  <2> DEFINE n == Cardinality(Block)
  <2>4. n \in Nat /\ n <= c /\ b = 0
    BY <1>a, <2>1, <2>3, ToRead, FS_Subset
  <2> HIDE DEF q, b, t, c, n
  <2>5. CASE pc' = "release" /\ Len(batch') = n /\ Cardinality(status'.rxif) = c - n
    <3>1. q + n + (c - n) <= NRx /\ q + n <= NRx + NTx
      BY <1>b, <1>r, <2>3, <2>4, <2>5
    <3> QED
      BY <1>b, <1>i, <1>r, <2>1, <2>3, <2>4, <2>5, <3>1
  <2>6. CASE pc' = "tef" /\ Len(batch') = 0
    BY <1>b, <1>i, <1>r, <2>1, <2>3, <2>4, <2>6
  <2> QED
    BY <2>3, <2>5, <2>6 DEF n
<1>6. CASE (IrqReadOne \/ IrqReadBlock) /\ status.rxif = {}
  <2>1. /\ pc = "read" /\ pc' = "tef" /\ UNCHANGED <<tef, batch, queued, round>>
    BY <1>6, ReadEnd
  <2>2. Len(queued') = q /\ Len(batch') = b /\ Len(tef') = t /\ Reading
    BY <2>1 DEF Reading
  <2> HIDE DEF q, b, t, c
  <2> QED
    BY <1>b, <1>i, <1>r, <2>1, <2>2
<1>7. CASE IrqRelease
  <2>1. /\ pc = "release" /\ UNCHANGED <<status, tef, round>>
        /\ \/ queued' = queued \o batch /\ batch' = <<>>
           \/ UNCHANGED <<queued, batch>>
        /\ Len(queued \o batch) = Len(queued) + Len(batch)
        /\ pc' \in {"read", "release", "tef"}
    BY <1>a, <1>7, Release
  <2>2. /\ Len(queued') + Len(batch') = q + b /\ Len(tef') = t
        /\ Cardinality(status'.rxif) = c /\ Reading
    BY <1>n, <1>b, <2>1 DEF Reading
  <2> HIDE DEF q, b, t, c
  <2> QED
    BY <1>b, <1>i, <1>r, <2>1, <2>2
<1>8. CASE IrqTef
  <2>1. /\ pc = "tef" /\ UNCHANGED <<pc, batch, round>> /\ Len(tef') = t - 1
        /\ Len(queued') = q + 1
    BY <1>a, <1>8, QueueTef
  <2>2. Len(batch') = b
    BY <2>1
  <2> HIDE DEF q, b, t, c
  <2> QED
    BY <1>b, <1>i, <1>r, <2>1, <2>2
<1>9. CASE IrqSort
  <2>1. Len(queued') = q /\ UNCHANGED <<batch, tef, round>> /\ pc' = "deliver"
    BY <1>a, <1>9, QueueSorted DEF IrqSort, controller, history
  <2> QED
    BY <1>i, <1>r, <2>1
<1>10. CASE IrqDeliver
  <2>1. /\ UNCHANGED <<batch, tef, round>> /\ pc' \in {"deliver", "overflow"}
        /\ queued' = queued \/ queued' = Tail(queued)
        /\ Len(Tail(queued)) = q - 1
    BY <1>a, <1>10, Deliver
  <2>2. Len(queued') \in {q, q - 1} /\ Len(batch') = b /\ Len(tef') = t
    BY <2>1
  <2> HIDE DEF q, b, t
  <2> QED
    BY <1>b, <1>i, <1>r, <2>1, <2>2
<1>11. CASE IrqEnd
  <2>1. /\ UNCHANGED <<queued, batch, tef>> /\ pc' = "flags"
        /\ round' = round \/ (round' = 0 /\ tef = <<>>)
    BY <1>11 DEF IrqEnd
  <2> QED
    BY <1>i, <1>n, <1>r, <2>1
<1>12. CASE IrqStart \/ IrqReadFlags \/ IrqReadFifos \/ IrqDelivered
  <2>1. UNCHANGED <<queued, batch, tef, round>> /\ pc' \in {"off", "flags", "fifos", "clear", "overflow"}
    BY <1>12 DEF IrqStart, IrqReadFlags, IrqReadFifos, IrqDelivered, controller, history
  <2> QED
    BY <1>i, <1>r, <2>1
<1>13. CASE IrqFault
  <2>1. UNCHANGED <<queued, batch, tef, round>> /\ pc' = "off"
    BY <1>13 DEF IrqFault, controller
  <2> QED
    BY <1>i, <1>r, <2>1
<1>14. CASE UNCHANGED vars
  <2>1. UNCHANGED <<pc, tef, queued, batch, status, round>>
    BY <1>14 DEF vars, controller, thread, history
  <2> QED
    BY <1>i, <1>r, <2>1 DEF Reading
<1> QED
  BY <1>1, <1>2, <1>3, <1>4, <1>5, <1>6, <1>7, <1>8, <1>9, <1>10, <1>11, <1>12, <1>13,
     <1>14 DEF Next, IrqThread

-----------------------------------------------------------------------------
(* The invariant and what follows from it.                                 *)

LEMMA RxInvInit == Init => RxInv
<1> SUFFICES ASSUME Init PROVE RxInv
  OBVIOUS
<1>1. TypeInv
  BY TypeInit
<1>2. /\ bus = 0 /\ own = {} /\ pc = "off" /\ queued = <<>> /\ batch = <<>> /\ tef = <<>>
      /\ delivered = <<>> /\ round = 0 /\ overflowed = {} /\ dropped = {}
      /\ fifo = [f \in RxFifos |-> None]
  BY DEF Init
<1>3. /\ EventsIn(<<>>) = {} /\ Len(<<>>) = 0
      /\ \A excepted : Once(<<>>, excepted)
  BY NoEvents
<1>4. \A f \in RxFifos : fifo[f] = None
  BY <1>2
<1>5. ~Reading /\ ~Gathering
  BY <1>2 DEF Reading, Gathering
<1>6. PlacesInv
  <2>1. 0 .. 0 = {0} /\ 1 .. 0 = {}
    OBVIOUS
  <2> QED
    BY <1>2, <1>3, <1>4, <2>1 DEF PlacesInv, None
<1>7. PassInv
  BY <1>2, <1>5 DEF PassInv
<1>8. OnceInv
  BY <1>2, <1>3, <1>4 DEF OnceInv
<1>9. InOrder(<<>>, own, mixed)
  BY <1>3 DEF InOrder
<1>10. AgeInv
  BY <1>2, <1>3, <1>5, <1>9 DEF AgeInv, Ahead, Older, Sooner
<1>11. KeptInv
  <2>1. Received = {}
    BY <1>2 DEF Received
  <2> QED
    BY <1>2, <1>3, <2>1 DEF KeptInv, NothingLost
<1>12. RoomInv
  BY <1>2, <1>3, <1>5 DEF RoomInv, QueueFits
<1> QED
  BY <1>1, <1>6, <1>7, <1>8, <1>10, <1>11, <1>12 DEF RxInv

(* RxInv is an invariant of every run of the receive path.                 *)
THEOREM RxInvariant == Spec => []RxInv
<1>1. RxInv /\ [Next]_vars => RxInv'
  BY TypeStep, PlacesStep, PassStep, OnceStep, AgeStep, KeptStep, RoomStep DEF RxInv
<1> QED
  BY RxInvInit, <1>1, PTL DEF Spec

(* The types of all variables (struct mcp25xxfd_can_priv and what the      *)
(* interrupt thread keeps in it).                                          *)
THEOREM RxTypeCorrect == Spec => []TypeOK
<1>1. RxInv => TypeOK
  BY DEF RxInv, TypeInv
<1> QED
  BY RxInvariant, <1>1, PTL

(* Without failing transfers received frames are handed to the network     *)
(* stack in bus order, whatever FIFOs they were in and however the thread  *)
(* and the bus interleave (read_fifos, bulk_read_fifos,                    *)
(* mcp25xxfd_can_ist_process_queued_fifos); except for two frames of one   *)
(* pass between which the time stamp changes its sign.                     *)
THEOREM RxDeliveredInOrder == Spec => []RxInOrder
<1>1. RxInv => RxInOrder
  BY DEF RxInv, AgeInv, RxInOrder, InOrder, Earlier, SortedTogether, Precedes, SortedIn
<1> QED
  BY RxInvariant, <1>1, PTL

(* As long as no FIFO that is read on its own fails to be released, no     *)
(* received frame is handed over twice, even after failed bulk reads.      *)
THEOREM RxDeliveredOnce == Spec => []RxAtMostOnce
<1>1. RxInv => RxAtMostOnce
  BY DEF RxInv, OnceInv, RxAtMostOnce, Once
<1> QED
  BY RxInvariant, <1>1, PTL

(* Without failing transfers, a received frame is always somewhere: in a   *)
(* FIFO, with the thread or delivered, unless it overflowed or was dropped.*)
THEOREM RxNothingLost == Spec => []NothingLost
<1>1. RxInv => NothingLost
  BY DEF RxInv, KeptInv, NothingLost
<1> QED
  BY RxInvariant, <1>1, PTL

(* queued_fifos never holds more entries than there are FIFOs, however     *)
(* many frames arrive while a pass reads.                                  *)
THEOREM RxQueueFits == Spec => []QueueFits
<1>1. RxInv => QueueFits
  BY DEF RxInv, RoomInv
<1> QED
  BY RxInvariant, <1>1, PTL
=============================================================================
