---------------------------- MODULE NaturalLemmas ----------------------------
(***************************************************************************)
(* Least and greatest elements of sets of naturals, which the models choose *)
(* with CHOOSE: the next token, the latest message.                         *)
(***************************************************************************)
EXTENDS Naturals, WellFoundedInduction, TLAPS

\* A nonempty set of naturals has a least element: < is well-founded on Nat.
LEMMA LeastNatural ==
  ASSUME NEW S, S \subseteq Nat, S # {}
  PROVE  \E m \in S : \A n \in S : m <= n
<1>1. OpToRel(<,Nat) = {ss \in Nat \X Nat : ss[1] < ss[2]}
  BY DEF OpToRel
<1>2. IsWellFoundedOn({ss \in Nat \X Nat : ss[1] < ss[2]}, Nat)
  BY <1>1, NatLessThanWellFounded
<1>3. \E m \in S : \A n \in S : <<n, m>> \notin {ss \in Nat \X Nat : ss[1] < ss[2]}
  BY <1>2, WFMin
<1>4. \A m \in S, n \in S : <<n, m>> \notin {ss \in Nat \X Nat : ss[1] < ss[2]} => m <= n
  OBVIOUS
<1> QED
  BY <1>3, <1>4

\* A nonempty set of naturals up to N has a greatest one.
LEMMA GreatestNatural ==
  ASSUME NEW N \in Nat, NEW S, S \subseteq 0..N, S # {}
  PROVE  \E m \in S : \A n \in S : n <= m
<1> DEFINE T == {k \in Nat : N - k \in S}
<1>1. T # {} /\ T \subseteq Nat
  <2>1. PICK s \in S : TRUE
    OBVIOUS
  <2>2. s \in Nat /\ N - s \in Nat /\ N - (N - s) = s
    BY <2>1
  <2> QED
    BY <2>1, <2>2
<1>2. PICK k \in T : \A n \in T : k <= n
  BY <1>1, LeastNatural
<1>3. \A n \in S : N - n \in T
  OBVIOUS
<1>4. N - k \in S /\ \A n \in S : n <= N - k
  BY <1>2, <1>3
<1> QED
  BY <1>4
=============================================================================
