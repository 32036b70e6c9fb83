---------------------------- MODULE LoopTheorems ----------------------------
(***************************************************************************)
(* Loops over the elements of a sequence, which the models write as        *)
(* recursive functions on its positions: such a function exists, and what  *)
(* each pass preserves holds after all of them.  Both are stated for sets, *)
(* which the provers can instantiate, in place of predicates.              *)
(***************************************************************************)
EXTENDS Naturals, WellFoundedInduction, TLAPS

(* What holds of 0 and passes from each number to the next holds of all up *)
(* to a bound.                                                             *)
LEMMA Climb ==
  ASSUME NEW n \in Nat, NEW S, 0 \in S, \A i \in 1 .. n : i - 1 \in S => i \in S
  PROVE  0 .. n \subseteq S
<1> DEFINE Bad == {i \in Nat : i <= n /\ i \notin S}
<1>1. SUFFICES ASSUME Bad # {} PROVE FALSE
  OBVIOUS
<1>2. PICK i \in Bad : \A j \in Bad : ~ (<<j, i>> \in OpToRel(<, Nat))
  <2>1. IsWellFoundedOn(OpToRel(<, Nat), Nat)
    BY NatLessThanWellFounded
  <2>2. Bad \subseteq Nat
    OBVIOUS
  <2> HIDE DEF Bad
  <2> QED
    BY <1>1, <2>1, <2>2, WFMin
<1>3. i \in Nat /\ i <= n /\ i \notin S /\ i # 0
  OBVIOUS
<1>4. i - 1 \in Nat /\ i - 1 < i
  BY <1>3
<1>5. i - 1 \notin Bad
  BY <1>2, <1>3, <1>4 DEF OpToRel
<1> QED
  BY <1>3, <1>4, <1>5

(* The values a loop makes, each from the one before.                      *)
Loops(g, n, T, init, step) ==
  g \in [0 .. n -> T] /\ g[0] = init /\ \A i \in 1 .. n : g[i] = step[i][g[i - 1]]

LEMMA LoopExists ==
  ASSUME NEW n \in Nat, NEW T, NEW init \in T, NEW step \in [1 .. n -> [T -> T]]
  PROVE  \E g : Loops(g, n, T, init, step)
<1> DEFINE Runs(m, g) ==
             g \in [0 .. m -> T] /\ g[0] = init /\ \A i \in 1 .. m : g[i] = step[i][g[i - 1]]
           S == {m \in 0 .. n : \E g : Runs(m, g)}
<1>1. 0 \in S
  <2> DEFINE g == [i \in 0 .. 0 |-> init]
  <2>1. g \in [0 .. 0 -> T] /\ g[0] = init /\ 1 .. 0 = {} /\ 0 \in 0 .. n
    OBVIOUS
  <2> HIDE DEF g
  <2>2. Runs(0, g)
    BY <2>1
  <2> QED
    BY <2>1, <2>2
<1>2. ASSUME NEW m \in 1 .. n, m - 1 \in S
      PROVE  m \in S
  <2>1. PICK g : Runs(m - 1, g)
    BY <1>2
  <2> DEFINE h == [i \in 0 .. m |-> IF i = m THEN step[m][g[m - 1]] ELSE g[i]]
  <2>2. m \in Nat /\ m - 1 \in 0 .. (m - 1) /\ \A i \in 0 .. m : i # m => i \in 0 .. (m - 1)
    OBVIOUS
  <2>3. g[m - 1] \in T /\ step[m] \in [T -> T]
    BY <2>1, <2>2
  <2>4. step[m][g[m - 1]] \in T
    BY <2>3
  <2>5. ASSUME NEW i \in 0 .. m PROVE h[i] \in T
    BY <2>1, <2>2, <2>4
  <2>6. h \in [0 .. m -> T] /\ h[0] = init
    BY <2>1, <2>2, <2>5
  <2>7. ASSUME NEW i \in 1 .. m PROVE h[i] = step[i][h[i - 1]]
    <3>1. i \in 0 .. m /\ i - 1 \in 0 .. m /\ i - 1 # m
      BY <2>2
    <3>2. h[i - 1] = g[i - 1] /\ h[i] = IF i = m THEN step[m][g[m - 1]] ELSE g[i]
      BY <3>1
    <3>3. i # m => i \in 1 .. (m - 1)
      BY <2>2
    <3> HIDE DEF h
    <3> QED
      BY <2>1, <3>2, <3>3
  <2> HIDE DEF h
  <2>8. Runs(m, h)
    BY <2>6, <2>7
  <2> HIDE DEF Runs
  <2> QED
    BY <2>8
<1> HIDE DEF S
<1>3. \A i \in 1 .. n : i - 1 \in S => i \in S
  BY <1>2
<1>4. 0 .. n \subseteq S
  BY <1>1, <1>3, Climb
<1>5. n \in S
  BY <1>4
<1> QED
  BY <1>5 DEF S, Loops
=============================================================================
