-------------------------- MODULE InductionLemmas ---------------------------
(***************************************************************************)
(* Induction over the natural numbers and recursion, in the form of        *)
(* statements about sets and functions: a set of numbers has a least       *)
(* member, a set that holds 0 and every successor is Nat, and a function   *)
(* given by a first value and a step exists as far as one likes.  The      *)
(* proofs about sequences of unknown length rest on them.                  *)
(***************************************************************************)
EXTENDS Naturals, WellFoundedInduction, TLAPS

Before == {ss \in Nat \X Nat : ss[1] < ss[2]}

\* Every set of numbers has a least one.
LEMMA LeastNumber ==
  ASSUME NEW T \in SUBSET Nat, T # {}
  PROVE  \E x \in T : \A y \in T : x <= y
<1>1. IsWellFoundedOn(Before, Nat)
  BY NatLessThanWellFounded DEF OpToRel, Before
<1>2. PICK x \in T : \A y \in T : <<y, x>> \notin Before
  BY <1>1, WFMin
<1>3. \A y \in T : ~(y < x)
  <2> SUFFICES ASSUME NEW y \in T, y < x PROVE FALSE
    OBVIOUS
  <2>1. <<y, x>> \in Nat \X Nat /\ <<y, x>>[1] < <<y, x>>[2]
    OBVIOUS
  <2> QED BY <1>2, <2>1 DEF Before
<1>4. x \in Nat /\ \A y \in T : y \in Nat
  OBVIOUS
<1> QED BY <1>3, <1>4

\* Induction, for the set of the numbers that have a property.
LEMMA SetInduction ==
  ASSUME NEW T \in SUBSET Nat, 0 \in T, \A n \in T : n + 1 \in T
  PROVE  T = Nat
<1> SUFFICES ASSUME Nat \ T # {} PROVE FALSE
  OBVIOUS
<1>1. PICK x \in Nat \ T : \A y \in Nat \ T : x <= y
  BY LeastNumber
<1>2. x - 1 \in T
  BY <1>1
<1> QED BY <1>1, <1>2

\* g starts at c and follows step as far as m.
Steps(S) == [Nat -> [S -> S]]

Follows(g, S, c, step, m) ==
  /\ g \in [0..m -> S]
  /\ g[0] = c
  /\ \A n \in 1..m : g[n] = step[n][g[n - 1]]

\* A function that starts at c and goes on by `step' exists on 0..m.
LEMMA Recursion ==
  ASSUME NEW S, NEW c \in S, NEW step \in Steps(S), NEW m \in Nat
  PROVE  \E g : Follows(g, S, c, step, m)
<1> DEFINE Ok(k, g) == g[0] = c /\ \A n \in 1..k : g[n] = step[n][g[n - 1]]
           T == {k \in Nat : \E g \in [0..k -> S] : Ok(k, g)}
<1>1. 0 \in T
  <2>1. [k \in 0..0 |-> c] \in [0..0 -> S] /\ Ok(0, [k \in 0..0 |-> c])
    OBVIOUS
  <2> QED BY <2>1
<1>2. ASSUME NEW k \in T PROVE k + 1 \in T
  <2>1. PICK g \in [0..k -> S] : Ok(k, g)
    OBVIOUS
  <2> DEFINE h == [n \in 0..(k + 1) |-> IF n = k + 1 THEN step[k + 1][g[k]] ELSE g[n]]
  <2>2. k \in Nat /\ k + 1 \in Nat /\ k \in 0..k
    OBVIOUS
  <2>3. step[k + 1][g[k]] \in S
    BY <2>2 DEF Steps
  <2>4. h \in [0..(k + 1) -> S]
    BY <2>2, <2>3
  <2>5. h[k + 1] = step[k + 1][g[k]] /\ \A n \in 0..k : h[n] = g[n]
    BY <2>2
  <2> HIDE DEF h
  <2>6. \A n \in 1..(k + 1) : h[n] = step[n][h[n - 1]]
    <3> SUFFICES ASSUME NEW n \in 1..(k + 1) PROVE h[n] = step[n][h[n - 1]]
      OBVIOUS
    <3>1. CASE n = k + 1
      <4>1. n - 1 = k /\ k \in 0..k
        BY <2>2, <3>1
      <4> QED BY <2>5, <3>1, <4>1
    <3>2. CASE n # k + 1
      <4>1. n \in 1..k /\ n \in 0..k /\ n - 1 \in 0..k
        BY <2>2, <3>2
      <4> QED BY <2>1, <2>5, <4>1
    <3> QED BY <3>1, <3>2
  <2>7. Ok(k + 1, h)
    BY <2>1, <2>2, <2>5, <2>6
  <2> QED BY <2>2, <2>4, <2>7
<1> HIDE DEF T
<1>3. T \in SUBSET Nat
  BY DEF T
<1>4. m \in T
  BY <1>1, <1>2, <1>3, SetInduction
<1> QED BY <1>4 DEF T, Follows
=============================================================================
