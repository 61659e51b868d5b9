----------------------------- MODULE LoopProofs -----------------------------
(***************************************************************************)
(* Loops: the least and the largest of a set, what holds after every step  *)
(* of a loop, and that a loop over 1..n has a function that tells what it  *)
(* has come to after each step.  The recursive functions of the modules    *)
(* are such loops.                                                         *)
(***************************************************************************)
EXTENDS Integers, FiniteSetsExt, WellFoundedInduction, TLAPS

LEMMA LeastExists ==
    ASSUME NEW S \in SUBSET Nat, S # {}
    PROVE  Min(S) \in S /\ \A i \in S : Min(S) <= i
  <1>1. \E i \in S : \A j \in S : ~(<<j, i>> \in OpToRel(<, Nat))
    BY NatLessThanWellFounded, WFMin
  <1>2. PICK i \in S : \A j \in S : ~(<<j, i>> \in OpToRel(<, Nat))
    BY <1>1
  <1>3. \A j \in S : ~(j < i)
    BY <1>2 DEF OpToRel
  <1>4. \A j \in S : i <= j
    BY <1>3
  <1> QED
    BY <1>4 DEF Min

LEMMA LargestExists ==
    ASSUME NEW n \in Nat, NEW S \in SUBSET (0..n), S # {}
    PROVE  Max(S) \in S /\ \A i \in S : i <= Max(S)
  <1> DEFINE T == {x \in 0..n : n - x \in S}
  <1>1. T \in SUBSET Nat /\ T # {}
    <2>1. PICK i : i \in S /\ i \in 0..n
      OBVIOUS
    <2>2. n - i \in 0..n /\ n - (n - i) = i
      BY <2>1
    <2>3. n - i \in T
      BY <2>1, <2>2
    <2> QED
      BY <2>3
  <1>2. PICK x \in T : \A y \in T : x <= y
    BY <1>1, LeastExists
  <1>3. n - x \in S /\ \A i \in S : i <= n - x
    <2>1. \A i \in S : i \in 0..n /\ n - i \in 0..n /\ n - (n - i) = i
      OBVIOUS
    <2>2. \A i \in S : n - i \in T
      BY <2>1
    <2> QED
      BY <1>2, <2>1, <2>2
  <1>4. \E m \in S : \A y \in S : m >= y
    <2>1. \A i \in S : i \in Int /\ n - x >= i
      BY <1>3
    <2> QED
      BY <1>3, <2>1
  <1>5. Max(S) \in S /\ \A y \in S : Max(S) >= y
    BY <1>4 DEF Max
  <1> QED
    BY <1>5

LEMMA AfterEveryStep ==
    ASSUME NEW n \in Nat, NEW P, 0 \in P, \A i \in 1..n : i - 1 \in P => i \in P
    PROVE  \A i \in 0..n : i \in P
  <1> SUFFICES ASSUME {i \in 0..n : i \notin P} # {} PROVE FALSE
    OBVIOUS
  <1> DEFINE S == {i \in 0..n : i \notin P}
  <1>1. S \in SUBSET Nat /\ S # {}
    OBVIOUS
  <1>2. PICK i \in S : \A j \in S : i <= j
    BY <1>1, LeastExists
  <1>3. i \in 1..n /\ i - 1 \in 0..n /\ ~(i <= i - 1)
    BY <1>2
  <1>4. i - 1 \in P
    BY <1>2, <1>3
  <1> QED
    BY <1>2, <1>3, <1>4

Runs(g, n, V, v0, step) == g \in [0..n -> V] /\ g[0] = v0 /\ \A i \in 1..n : g[i] = step[<<i, g[i - 1]>>]

LEMMA LoopRuns ==
    ASSUME NEW n \in Nat, NEW V, NEW v0 \in V, NEW step \in [(1..n) \X V -> V]
    PROVE  \E g : Runs(g, n, V, v0, step)
  <1> DEFINE Ran(g, m) == g \in [0..m -> V] /\ g[0] = v0 /\ \A i \in 1..m : g[i] = step[<<i, g[i - 1]>>]
             P == {m \in 0..n : \E g : Ran(g, m)}
  <1>1. 0 \in P
    <2> DEFINE g == [i \in 0..0 |-> v0]
    <2>1. g \in [0..0 -> V] /\ g[0] = v0
      OBVIOUS
    <2>2. \A i \in 1..0 : g[i] = step[<<i, g[i - 1]>>]
      OBVIOUS
    <2> HIDE DEF g
    <2>3. Ran(g, 0)
      BY <2>1, <2>2
    <2> QED
      BY <2>3
  <1>2. ASSUME NEW m \in 1..n, m - 1 \in P PROVE m \in P
    <2>1. PICK g : Ran(g, m - 1)
      BY <1>2
    <2> DEFINE h == [i \in 0..m |-> IF i = m THEN step[<<m, g[m - 1]>>] ELSE g[i]]
    <2>2. m - 1 \in 0..(m - 1) /\ g[m - 1] \in V /\ \A i \in 0..m : i = m \/ i \in 0..(m - 1)
      BY <2>1
    <2>3. <<m, g[m - 1]>> \in (1..n) \X V
      BY <2>2
    <2>4. step[<<m, g[m - 1]>>] \in V
      BY <2>3
    <2>5. h \in [0..m -> V]
      BY <2>1, <2>2, <2>4
    <2>6. h[0] = v0 /\ h[m] = step[<<m, g[m - 1]>>] /\ \A i \in 0..(m - 1) : h[i] = g[i]
      BY <2>1
    <2>7. ASSUME NEW i \in 1..m PROVE h[i] = step[<<i, h[i - 1]>>]
      <3>1. CASE i = m
        BY <2>2, <2>6, <3>1
      <3>2. CASE i # m
        <4>1. i \in 1..(m - 1) /\ i \in 0..(m - 1) /\ i - 1 \in 0..(m - 1)
          BY <3>2
        <4> QED
          BY <2>1, <2>6, <4>1
      <3> QED
        BY <3>1, <3>2
    <2> HIDE DEF h
    <2>8. Ran(h, m)
      BY <2>5, <2>6, <2>7
    <2> QED
      BY <1>2, <2>8
  <1> HIDE DEF P
  <1>3. \A i \in 0..n : i \in P
    BY <1>1, <1>2, AfterEveryStep
  <1>4. n \in P
    BY <1>3
  <1> QED
    BY <1>4 DEF P, Runs

=============================================================================
