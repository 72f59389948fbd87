----------------------------- MODULE ProofLemmas -----------------------------
(***************************************************************************)
(* Facts about sets of natural numbers and about sequences on which the    *)
(* proofs about the drivers rest.                                          *)
(***************************************************************************)
EXTENDS Integers, Sequences, FiniteSetsExt, WellFoundedInduction, SequenceTheorems, TLAPS

(* A nonempty set of natural numbers has a least element: the lowest FIFO  *)
(* of a mask.                                                              *)
LEMMA MinOfNat ==
  ASSUME NEW S, S \subseteq Nat, S # {}
  PROVE  Min(S) \in S /\ \A x \in S : Min(S) <= x
<1>1. PICK m \in S : \A y \in S : ~ (<<y, m>> \in OpToRel(<, Nat))
  BY WFMin, NatLessThanWellFounded, Zenon
<1>2. ASSUME NEW y \in S, y < m
      PROVE  <<y, m>> \in OpToRel(<, Nat)
  BY <1>2 DEF OpToRel
<1>3. \A y \in S : m <= y
  <2> SUFFICES ASSUME NEW y \in S PROVE m <= y
    OBVIOUS
  <2>1. ~ (y < m)
    BY <1>1, <1>2, Zenon
  <2> QED
    BY <2>1
<1> QED
  BY <1>3 DEF Min

(* A bounded one has a greatest element: fls of a mask.                    *)
LEMMA MaxOfNat ==
  ASSUME NEW S, S \subseteq Nat, S # {}, NEW b \in Nat, \A x \in S : x <= b
  PROVE  Max(S) \in S /\ \A x \in S : x <= Max(S)
<1> DEFINE T == {b - x : x \in S}
<1>1. \A x \in S : x \in Nat /\ b - x \in Nat
  OBVIOUS
<1>2. T \subseteq Nat
  BY <1>1
<1>3. T # {}
  OBVIOUS
<1>4. Min(T) \in T /\ \A t \in T : Min(T) <= t
  BY <1>2, <1>3, MinOfNat, Zenon
<1>5. PICK m \in S : Min(T) = b - m
  BY <1>4
<1>6. \A x \in S : b - m <= b - x
  BY <1>4, <1>5
<1>7. \A x \in S : x <= m
  BY <1>1, <1>6
<1> HIDE DEF T
<1> QED
  BY <1>1, <1>7 DEF Max

(* A ring index stays in the ring.                                         *)
LEMMA ModRange ==
  ASSUME NEW a \in Nat, NEW n \in Nat, n > 0
  PROVE  a % n \in 0 .. n - 1
OBVIOUS

(* A function on 1 .. n is a sequence of length n.                         *)
LEMMA FunctionIsSeq ==
  ASSUME NEW S, NEW n \in Nat, NEW f \in [1 .. n -> S]
  PROVE  f \in Seq(S) /\ Len(f) = n
OBVIOUS

(* Append and Tail stay among the sequences over a set.                    *)
LEMMA AppendType ==
  ASSUME NEW S, NEW q \in Seq(S), NEW e \in S
  PROVE  Append(q, e) \in Seq(S)
OBVIOUS

(* The oldest element and the rest of a nonempty sequence.                 *)
LEMMA TailType ==
  ASSUME NEW S, NEW q \in Seq(S), q # <<>>
  PROVE  Head(q) \in S /\ Tail(q) \in Seq(S)
BY HeadTailProperties
=============================================================================
