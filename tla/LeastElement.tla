---------------------------- MODULE LeastElement -----------------------------
(***************************************************************************)
(* A set of natural numbers has a least element: the one fact about order  *)
(* that the proofs about sessions and workflows share.                     *)
(***************************************************************************)
EXTENDS Integers, WellFoundedInduction, TLAPS

Before == {pair \in Nat \X Nat : pair[1] < pair[2]}

\* The least element of a set of numbers, for "the first step in name order" and
\* "the first bad dependency in a list".
LEMMA Smallest ==
  ASSUME NEW S \in SUBSET Nat, S # {}
  PROVE  \E n \in S : \A m \in S : n <= m
<1>1. IsWellFoundedOn(Before, Nat)
  BY NatLessThanWellFounded DEF OpToRel, Before
<1>2. PICK n \in S : \A m \in S : <<m, n>> \notin Before
  BY <1>1, WFMin
<1>3. \A m \in S : ~(m < n)
  BY <1>2 DEF Before
<1> QED BY <1>3
=============================================================================
