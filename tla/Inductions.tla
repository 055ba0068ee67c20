----------------------------- MODULE Inductions -----------------------------
(***************************************************************************)
(* Induction on numbers, as facts about sets: a set of numbers has a least *)
(* one, and a function of numbers may be defined by recursion.             *)
(***************************************************************************)
EXTENDS Integers, WellFoundedInduction, TLAPS

(* What an induction comes down to: there is no least counterexample.      *)
LEMMA Least ==
  ASSUME NEW T \in SUBSET Nat, T # {}
  PROVE  \E m \in T : \A k \in T : m <= k
<1> DEFINE R == OpToRel(<, Nat)
<1>1. IsWellFoundedOn(R, Nat)
  BY NatLessThanWellFounded
<1>2. \A x, y \in Nat : x < y => <<x, y>> \in R
  BY DEF OpToRel
<1>3. \E x \in T : \A y \in T : ~ (<<y, x>> \in R)
  <2> HIDE DEF R
  <2> QED BY <1>1, WFMin
<1>4. PICK m \in T : \A y \in T : ~ (<<y, m>> \in R)
  BY <1>3
<1>5. \A k \in T : ~ (k < m)
  <2> HIDE DEF R
  <2> QED BY <1>2, <1>4
<1> QED BY <1>5

(* The values up to n of the function that starts with base and goes on by *)
(* step.                                                                   *)
Begins(base, step, n, g) ==
  /\ g[0] = base
  /\ \A k \in 0 .. n - 1 : g[k + 1] = step[k][g[k]]

LEMMA BeginAlike ==
  ASSUME NEW base, NEW step, NEW n \in Nat, NEW m \in Nat, NEW g, NEW h, m <= n,
         Begins(base, step, n, g), Begins(base, step, m, h)
  PROVE  g[m] = h[m]
<1> DEFINE T == { k \in 0 .. m : g[k] # h[k] }
<1> SUFFICES ASSUME T # {} PROVE FALSE
  OBVIOUS
<1>1. PICK k \in T : \A j \in T : k <= j
  <2>1. T \in SUBSET Nat
    OBVIOUS
  <2> HIDE DEF T
  <2> QED BY <2>1, Least
<1>2. k # 0
  BY DEF Begins
<1>3. k - 1 \in 0 .. m - 1 /\ k - 1 \notin T /\ k - 1 \in 0 .. n - 1 /\ (k - 1) + 1 = k
  BY <1>1, <1>2
<1>4. g[k - 1] = h[k - 1]
  BY <1>3
<1>5. g[k] = step[k - 1][g[k - 1]] /\ h[k] = step[k - 1][h[k - 1]]
  BY <1>3 DEF Begins
<1> QED BY <1>4, <1>5

LEMMA BeginsExist ==
  ASSUME NEW D, NEW base \in D, NEW step \in [Nat -> [D -> D]], NEW n \in Nat
  PROVE  \E g : Begins(base, step, n, g) /\ g[n] \in D
<1> DEFINE T == { k \in Nat : ~ \E g : Begins(base, step, k, g) /\ g[k] \in D }
<1> SUFFICES ASSUME T # {} PROVE FALSE
  OBVIOUS
<1>1. PICK k \in T : \A j \in T : k <= j
  <2>1. T \in SUBSET Nat
    OBVIOUS
  <2> HIDE DEF T
  <2> QED BY <2>1, Least
<1>2. k # 0
  <2>1. /\ Begins(base, step, 0, [j \in {0} |-> base])
        /\ [j \in {0} |-> base][0] \in D
    BY DEF Begins
  <2> QED BY <2>1
<1>3. PICK g : Begins(base, step, k - 1, g) /\ g[k - 1] \in D
  <2>1. k - 1 \in Nat /\ k - 1 \notin T
    BY <1>1, <1>2
  <2> QED BY <2>1
<1> DEFINE h == [j \in 0 .. k |-> IF j = k THEN step[k - 1][g[k - 1]] ELSE g[j]]
<1>4. Begins(base, step, k, h) /\ h[k] \in D
  <2>1. h[0] = base
    BY <1>2, <1>3 DEF Begins
  <2>2. ASSUME NEW j \in 0 .. k - 1 PROVE h[j + 1] = step[j][h[j]]
    <3>1. h[j] = g[j]
      OBVIOUS
    <3>2. CASE j = k - 1
      BY <3>1, <3>2
    <3>3. CASE j # k - 1
      <4>1. j \in 0 .. (k - 1) - 1 /\ h[j + 1] = g[j + 1]
        BY <3>3
      <4> QED BY <3>1, <4>1, <1>3 DEF Begins
    <3> QED BY <3>2, <3>3
  <2>3. h[k] \in D
    <3>1. k - 1 \in Nat /\ h[k] = step[k - 1][g[k - 1]]
      BY <1>2
    <3> QED BY <1>3, <3>1
  <2> HIDE DEF h
  <2> QED BY <2>1, <2>2, <2>3 DEF Begins
<1> QED BY <1>4

(* There is a function that starts with base and goes on by step.          *)
LEMMA Recursion ==
  ASSUME NEW D, NEW base \in D, NEW step \in [Nat -> [D -> D]]
  PROVE  \E f \in [Nat -> D] :
           f = [n \in Nat |-> IF n = 0 THEN base ELSE step[n - 1][f[n - 1]]]
<1> DEFINE G(n) == CHOOSE g : Begins(base, step, n, g) /\ g[n] \in D
           f    == [n \in Nat |-> G(n)[n]]
<1>1. \A n \in Nat : Begins(base, step, n, G(n)) /\ G(n)[n] \in D
  BY BeginsExist
<1> HIDE DEF G
<1>2. f[0] = base
  BY <1>1 DEF Begins
<1>3. ASSUME NEW n \in Nat, n # 0 PROVE f[n] = step[n - 1][f[n - 1]]
  <2>1. n - 1 \in Nat /\ n - 1 \in 0 .. n - 1 /\ (n - 1) + 1 = n /\ n - 1 <= n
    BY <1>3
  <2>2. Begins(base, step, n, G(n)) /\ Begins(base, step, n - 1, G(n - 1))
    BY <1>1, <2>1
  <2>3. G(n)[n - 1] = G(n - 1)[n - 1]
    BY <2>1, <2>2, BeginAlike
  <2>4. G(n)[n] = step[n - 1][G(n)[n - 1]]
    BY <2>1, <2>2 DEF Begins
  <2>5. f[n] = G(n)[n] /\ f[n - 1] = G(n - 1)[n - 1]
    BY <2>1
  <2> QED BY <2>3, <2>4, <2>5
<1>4. f \in [Nat -> D]
  BY <1>1
<1>5. \A n \in Nat : f[n] = IF n = 0 THEN base ELSE step[n - 1][f[n - 1]]
  BY <1>2, <1>3
<1>6. PICK h : h = f
  OBVIOUS
<1> HIDE DEF f
<1>7. h = [n \in Nat |-> h[n]] /\ \A n \in Nat : h[n] = IF n = 0 THEN base ELSE step[n - 1][h[n - 1]]
  BY <1>4, <1>5, <1>6
<1>8. h = [n \in Nat |-> IF n = 0 THEN base ELSE step[n - 1][h[n - 1]]]
  BY <1>7
<1> QED BY <1>4, <1>6, <1>8
=============================================================================
