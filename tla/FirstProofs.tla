---------------------------- MODULE FirstProofs ----------------------------
(***************************************************************************)
(* The first index at which something holds, or the last, which every      *)
(* search of a table, of units, rows, symbols, sections or words, comes    *)
(* down to.                                                                *)
(***************************************************************************)
EXTENDS Integers, Sequences, SequencesExt, WellFoundedInduction, TLAPS

\* The least number of a set of them is there, by the order of the numbers.
LEMMA Least ==
  ASSUME NEW S \in SUBSET Nat, S # {}
  PROVE  \E x \in S : \A y \in S : x <= y
<1> DEFINE R == OpToRel(<, Nat)
<1>1. IsWellFoundedOn(R, Nat)
  BY NatLessThanWellFounded
<1>2. PICK x \in S : \A y \in S : <<y, x>> \notin R
  <2> HIDE DEF R
  <2> QED BY <1>1, WFMin
<1>3. \A y \in S : ~ (y < x)
  BY <1>2 DEF OpToRel
<1> QED BY <1>3

LEMMA MinIsLeast ==
  ASSUME NEW S \in SUBSET Nat, S # {}
  PROVE  Min(S) \in S /\ \A y \in S : Min(S) <= y
BY Least DEF Min

\* The greatest of a set of bounded numbers.
LEMMA MaxIsGreatest ==
  ASSUME NEW n \in Nat, NEW S \in SUBSET (0 .. n), S # {}
  PROVE  Max(S) \in S /\ \A y \in S : Max(S) >= y
<1> DEFINE T == {m \in Nat : \A y \in S : y <= m}
<1>1. PICK m \in T : \A x \in T : m <= x
  <2>1. T \in SUBSET Nat /\ n \in T
    OBVIOUS
  <2> HIDE DEF T
  <2> QED BY <2>1, Least
<1>2. m \in Nat /\ \A y \in S : y <= m
  OBVIOUS
<1>3. m \in S
  <2> SUFFICES ASSUME m \notin S PROVE FALSE
    OBVIOUS
  <2>1. m # 0
    <3>1. \A y \in S : y \in Nat
      OBVIOUS
    <3>2. m = 0 => \A y \in S : y = m
      BY <1>2, <3>1
    <3> HIDE DEF T
    <3> QED BY <3>2, Zenon
  <2>2. m - 1 \in T
    BY <1>2, <2>1
  <2> QED BY <1>1, <1>2, <2>2
<1>4. \E x \in S : \A y \in S : x >= y
  BY <1>2, <1>3
<1> QED BY <1>4 DEF Max

\* i is the first index of those in I, or 0 if there is none.
IsFirst(i, I) == IF I = {} THEN i = 0 ELSE i \in I /\ \A j \in I : i <= j

\* What SelectInSeq and SelectInSubSeq return.
LEMMA FirstOf ==
  ASSUME NEW I \in SUBSET Nat
  PROVE  IsFirst(IF I # {} THEN Min(I) ELSE 0, I)
BY MinIsLeast DEF IsFirst

\* Only one index is the first.
LEMMA FirstUnique ==
  ASSUME NEW I \in SUBSET Nat, NEW i, NEW j, IsFirst(i, I), IsFirst(j, I)
  PROVE  i = j
<1>1. CASE I = {}
  BY <1>1 DEF IsFirst
<1>2. CASE I # {}
  <2>1. i \in Nat /\ j \in Nat /\ i <= j /\ j <= i
    BY <1>2 DEF IsFirst
  <2> QED BY <2>1
<1> QED BY <1>1, <1>2

\* It is one of the indices up to n that are looked at, or 0.
LEMMA FirstIn ==
  ASSUME NEW n \in Nat, NEW I \in SUBSET (1 .. n), NEW i, IsFirst(i, I)
  PROVE  i \in 0 .. n
<1>1. CASE I = {}
  BY <1>1 DEF IsFirst
<1>2. CASE I # {}
  <2>1. i \in 1 .. n
    BY <1>2 DEF IsFirst
  <2> QED BY <2>1
<1> QED BY <1>1, <1>2

=============================================================================
