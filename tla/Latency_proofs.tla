--------------------------- MODULE Latency_proofs ---------------------------
(***************************************************************************)
(* Proofs about Latency, for every set of sessions, addresses, answers and *)
(* workers and every length of the history: the types, and that no         *)
(* community is below that of the fastest answer or above that of three    *)
(* times the slowest.  The sums and the order of attempts are loops, so    *)
(* what they give is shown with LoopTheorems.                              *)
(***************************************************************************)
EXTENDS Latency, LoopTheorems, FiniteSetTheorems

-----------------------------------------------------------------------------
(* Arithmetic.                                                             *)
LEMMA TimesMonotone ==
  ASSUME NEW x \in Nat, NEW y \in Nat, NEW v \in Nat, NEW w \in Nat, x <= y, v <= w
  PROVE  x * v <= y * w
<1>1. x * v <= y * v
  BY SMTT(20)
<1>2. y * v <= y * w
  BY SMTT(20)
<1>3. x * v \in Int /\ y * v \in Int /\ y * w \in Int
  OBVIOUS
<1> QED
  BY <1>1, <1>2, <1>3

LEMMA QuotientAbove ==
  ASSUME NEW x \in Nat, NEW y \in Nat \ {0}, NEW q \in Nat, q * y <= x
  PROVE  q <= x \div y
<1> DEFINE d == x \div y
           r == x % y
<1>1. d \in Int /\ r \in 0 .. (y - 1) /\ x = y * d + r
  BY SMTT(20)
<1> HIDE DEF d, r
<1>2. SUFFICES ASSUME d + 1 <= q PROVE FALSE
  BY <1>1 DEF d
<1>3. y * d + y <= q * y
  BY <1>1, <1>2, SMTT(20)
<1> QED
  BY <1>1, <1>3, SMTT(20)

LEMMA QuotientBelow ==
  ASSUME NEW x \in Nat, NEW y \in Nat \ {0}, NEW q \in Nat, x <= q * y
  PROVE  x \div y <= q
<1> DEFINE d == x \div y
           r == x % y
<1>1. d \in Int /\ r \in 0 .. (y - 1) /\ x = y * d + r
  BY SMTT(20)
<1> HIDE DEF d, r
<1>2. SUFFICES ASSUME q + 1 <= d PROVE FALSE
  BY <1>1 DEF d
<1>3. q * y + y <= y * d
  BY <1>1, <1>2, SMTT(20)
<1> QED
  BY <1>1, <1>3, SMTT(20)

-----------------------------------------------------------------------------
(* The sums of Total, one for each prefix.                                 *)
Sums(s) ==
  CHOOSE g : g = [n \in 0 .. Len(s) |-> IF n = 0 THEN 0 ELSE g[n - 1] + s[n]]

LEMMA SumLoop ==
  ASSUME NEW s \in Seq(Int)
  PROVE  /\ Total(s) = Sums(s)[Len(s)]
         /\ Sums(s) \in [0 .. Len(s) -> Int]
         /\ Sums(s)[0] = 0
         /\ \A n \in 1 .. Len(s) : Sums(s)[n] = Sums(s)[n - 1] + s[n]
<1> DEFINE N == Len(s)
           step == [i \in 1 .. N |-> [t \in Int |-> t + s[i]]]
<1>1. N \in Nat /\ 0 \in Int /\ \A i \in 1 .. N : s[i] \in Int
  OBVIOUS
<1>2. \A i \in 1 .. N : \A t \in Int : t + s[i] \in Int
  BY <1>1
<1> HIDE DEF N
<1>3. step \in [1 .. N -> [Int -> Int]]
  BY <1>2
<1>4. \A i \in 1 .. N : \A t \in Int : step[i][t] = t + s[i]
  OBVIOUS
<1> HIDE DEF step
<1>5. PICK g : Loops(g, N, Int, 0, step)
  BY <1>1, <1>3, LoopExists
<1>6. ASSUME NEW n \in 1 .. N PROVE g[n] = g[n - 1] + s[n]
  <2>1. n - 1 \in 0 .. N
    BY <1>1
  <2>2. g[n - 1] \in Int /\ g[n] = step[n][g[n - 1]]
    BY <1>5, <2>1 DEF Loops
  <2> QED
    BY <1>4, <2>2
<1>7. g = [n \in 0 .. N |-> IF n = 0 THEN 0 ELSE g[n - 1] + s[n]]
  <2>1. ASSUME NEW n \in 0 .. N PROVE g[n] = IF n = 0 THEN 0 ELSE g[n - 1] + s[n]
    <3>1. CASE n = 0
      BY <1>5, <3>1 DEF Loops
    <3>2. CASE n # 0
      <4>1. n \in 1 .. N
        BY <1>1, <3>2
      <4> QED
        BY <1>6, <3>2, <4>1
    <3> QED
      BY <3>1, <3>2
  <2> QED
    BY <1>5, <2>1 DEF Loops
<1> DEFINE h == Sums(s)
<1>8. h = [n \in 0 .. N |-> IF n = 0 THEN 0 ELSE h[n - 1] + s[n]]
  BY <1>7 DEF Sums, N
<1>9. Total(s) = h[N]
  BY DEF Total, Sums, N
<1> HIDE DEF h
<1> DEFINE S == {n \in 0 .. N : h[n] \in Int}
<1>10. h[0] = 0 /\ \A n \in 1 .. N : h[n] = h[n - 1] + s[n]
  <2>1. 0 \in 0 .. N
    BY <1>1
  <2>2. h[0] = 0
    BY <1>8, <2>1
  <2>3. ASSUME NEW n \in 1 .. N PROVE h[n] = h[n - 1] + s[n]
    <3>1. n \in 0 .. N /\ n # 0
      BY <1>1
    <3> QED
      BY <1>8, <3>1
  <2> QED
    BY <2>2, <2>3
<1>11. 0 \in S
  BY <1>1, <1>10
<1>12. ASSUME NEW i \in 1 .. N, i - 1 \in S PROVE i \in S
  <2>1. i \in 0 .. N /\ h[i - 1] \in Int /\ s[i] \in Int
    BY <1>1, <1>12
  <2> QED
    BY <1>10, <2>1
<1> HIDE DEF S
<1>13. 0 .. N \subseteq S
  <2>1. \A i \in 1 .. N : i - 1 \in S => i \in S
    BY <1>12
  <2> QED
    BY <1>1, <1>11, <2>1, Climb
<1>14. h \in [0 .. N -> Int]
  <2>1. \A n \in 0 .. N : h[n] \in Int
    BY <1>13 DEF S
  <2>2. DOMAIN h = 0 .. N /\ h = [n \in 0 .. N |-> h[n]]
    BY <1>8
  <2> QED
    BY <2>1, <2>2
<1> QED
  BY <1>9, <1>10, <1>14 DEF h, N

(* No loss is above 100 percent, so neither is their average.              *)
LEMMA LossBounds ==
  ASSUME NEW s \in Seq(Int), \A i \in 1 .. Len(s) : s[i] \in 0 .. 100
  PROVE  Total(s) \in Nat /\ Total(s) <= 100 * Len(s)
<1> DEFINE N == Len(s)
           g == Sums(s)
           S == {n \in 0 .. N : g[n] >= 0 /\ g[n] <= 100 * n}
<1>1. N \in Nat /\ \A i \in 1 .. N : s[i] \in 0 .. 100
  OBVIOUS
<1>2. /\ Total(s) = g[N] /\ g \in [0 .. N -> Int] /\ g[0] = 0
      /\ \A n \in 1 .. N : g[n] = g[n - 1] + s[n]
  BY SumLoop
<1> HIDE DEF N, g
<1>3. 0 \in S
  BY <1>1, <1>2
<1>4. ASSUME NEW i \in 1 .. N, i - 1 \in S PROVE i \in S
  <2>1. /\ i \in 0 .. N /\ i - 1 \in 0 .. N /\ g[i - 1] \in Int
        /\ g[i - 1] >= 0 /\ g[i - 1] <= 100 * (i - 1)
    BY <1>1, <1>2, <1>4
  <2>2. g[i] = g[i - 1] + s[i] /\ s[i] \in 0 .. 100
    BY <1>1, <1>2
  <2>3. \A x \in Int, y \in 0 .. 100, k \in Int :
          x >= 0 /\ x <= 100 * (k - 1) => x + y >= 0 /\ x + y <= 100 * k
    OBVIOUS
  <2>4. i \in Int
    BY <1>1
  <2>5. g[i] >= 0 /\ g[i] <= 100 * i
    <3> DEFINE x == g[i - 1]
               y == s[i]
    <3>1. x \in Int /\ x >= 0 /\ x <= 100 * (i - 1) /\ y \in 0 .. 100
      BY <2>1, <2>2
    <3>2. g[i] = x + y
      BY <2>2
    <3> HIDE DEF x, y
    <3>3. x + y >= 0 /\ x + y <= 100 * i
      BY <2>3, <2>4, <3>1
    <3> QED
      BY <3>2, <3>3
  <2> QED
    BY <2>1, <2>5
<1>5. 0 .. N \subseteq S
  <2> HIDE DEF S
  <2>1. \A i \in 1 .. N : i - 1 \in S => i \in S
    BY <1>4
  <2> QED
    BY <1>1, <1>3, <2>1, Climb
<1>6. N \in S /\ g[N] \in Int
  BY <1>1, <1>2, <1>5
<1> QED
  BY <1>1, <1>2, <1>6 DEF N

-----------------------------------------------------------------------------
(* The average of the answers of a history.                                *)
Records == Answers \cup {Silent}

LEMMA RecordTypes ==
  /\ \A a \in Answers : a.rtt \in Nat
  /\ \A a \in Records : a.rtt \in Int /\ a.loss \in 0 .. 100 /\ (a.rtt > 0 => a \in Answers)
  BY LatencyAssumption DEF Records, Silent

\* So many answers add up to something between as many of one and of another.
Between(count, sum) ==
  /\ count \in Nat /\ sum \in Nat
  /\ count = 0 => sum = 0
  /\ count # 0 => \E a, b \in Answers : count * a.rtt <= sum /\ sum <= count * b.rtt

LEMMA BetweenGrows ==
  ASSUME NEW count, NEW sum, Between(count, sum), NEW c \in Answers
  PROVE  Between(count + 1, sum + c.rtt)
<1>1. count \in Nat /\ sum \in Nat /\ c.rtt \in Nat
  BY RecordTypes DEF Between
<1>2. count + 1 \in Nat /\ sum + c.rtt \in Nat /\ count + 1 # 0
  BY <1>1
<1> DEFINE r == c.rtt
<1>3. \E a \in Answers : (count + 1) * a.rtt <= sum + r
  <2>1. CASE count = 0
    <3>1. (count + 1) * r <= sum + r
      BY <1>1, <2>1 DEF Between
    <3> QED
      BY <3>1
  <2>2. CASE count # 0
    <3>1. PICK a \in Answers : count * a.rtt <= sum
      BY <2>2 DEF Between
    <3> DEFINE l == a.rtt
    <3>2. l \in Nat
      BY RecordTypes
    <3>3. CASE l <= r
      <4>1. (count + 1) * l <= sum + r
        <5>1. count * l <= sum /\ (count + 1) * l = count * l + l /\ count * l \in Int
          BY <1>1, <3>1, <3>2
        <5> HIDE DEF l, r
        <5> QED
          BY <1>1, <3>2, <3>3, <5>1 DEF r
      <4> QED
        BY <4>1
    <3>4. CASE r <= l
      <4>1. (count + 1) * r <= sum + r
        <5>1. count * l <= sum /\ (count + 1) * r = count * r + r
          BY <1>1, <3>1
        <5>2. count * r <= count * l /\ count * l \in Int /\ count * r \in Int
          BY <1>1, <3>2, <3>4, TimesMonotone
        <5> QED
          BY <1>1, <5>1, <5>2
      <4> QED
        BY <4>1
    <3> QED
      BY <1>1, <3>2, <3>3, <3>4
  <2> QED
    BY <2>1, <2>2
<1>4. \E b \in Answers : sum + r <= (count + 1) * b.rtt
  <2>1. CASE count = 0
    <3>1. sum + r <= (count + 1) * r
      BY <1>1, <2>1 DEF Between
    <3> QED
      BY <3>1
  <2>2. CASE count # 0
    <3>1. PICK b \in Answers : sum <= count * b.rtt
      BY <2>2 DEF Between
    <3> DEFINE l == b.rtt
    <3>2. l \in Nat
      BY RecordTypes
    <3>3. CASE r <= l
      <4>1. sum + r <= (count + 1) * l
        <5>1. sum <= count * l /\ (count + 1) * l = count * l + l /\ count * l \in Int
          BY <1>1, <3>1, <3>2
        <5> HIDE DEF l, r
        <5> QED
          BY <1>1, <3>2, <3>3, <5>1 DEF r
      <4> QED
        BY <4>1
    <3>4. CASE l <= r
      <4>1. sum + r <= (count + 1) * r
        <5>1. sum <= count * l /\ (count + 1) * r = count * r + r
          BY <1>1, <3>1
        <5>2. count * l <= count * r /\ count * l \in Int /\ count * r \in Int
          BY <1>1, <3>2, <3>4, TimesMonotone
        <5> QED
          BY <1>1, <5>1, <5>2
      <4> QED
        BY <4>1
    <3> QED
      BY <1>1, <3>2, <3>3, <3>4
  <2> QED
    BY <2>1, <2>2
<1> QED
  BY <1>2, <1>3, <1>4 DEF Between

LEMMA AnswersBetween ==
  ASSUME NEW all \in Seq(Records)
  PROVE  Between(Total(Counted(all)), Total(Valid(all)))
<1> DEFINE N == Len(all)
           v == Valid(all)
           c == Counted(all)
           p == Sums(v)
           q == Sums(c)
           S == {n \in 0 .. N : Between(q[n], p[n])}
<1>1. N \in Nat /\ \A i \in 1 .. N : all[i] \in Records
  OBVIOUS
<1>2. \A i \in 1 .. N : all[i].rtt \in Int
  BY <1>1, RecordTypes
<1>3. v \in Seq(Int) /\ c \in Seq(Int) /\ Len(v) = N /\ Len(c) = N
  <2>1. v \in [1 .. N -> Int] /\ c \in [1 .. N -> Int]
    BY <1>2 DEF Valid, Counted
  <2> HIDE DEF v, c, N
  <2> QED
    BY <1>1, <2>1
<1>4. /\ Total(v) = p[N] /\ p[0] = 0 /\ \A n \in 1 .. N : p[n] = p[n - 1] + v[n]
      /\ Total(c) = q[N] /\ q[0] = 0 /\ \A n \in 1 .. N : q[n] = q[n - 1] + c[n]
  BY <1>3, SumLoop
<1>5. \A i \in 1 .. N : /\ v[i] = IF all[i].rtt > 0 THEN all[i].rtt ELSE 0
                        /\ c[i] = IF all[i].rtt > 0 THEN 1 ELSE 0
  BY DEF Valid, Counted
<1> HIDE DEF N, v, c, p, q
<1>6. 0 \in S
  BY <1>1, <1>4 DEF Between
<1>7. ASSUME NEW i \in 1 .. N, i - 1 \in S PROVE i \in S
  <2>1. i \in 0 .. N /\ Between(q[i - 1], p[i - 1])
    BY <1>1, <1>7
  <2>2. CASE all[i].rtt > 0
    <3>1. all[i] \in Answers
      BY <1>1, <2>2, RecordTypes
    <3>2. Between(q[i - 1] + 1, p[i - 1] + all[i].rtt)
      BY <2>1, <3>1, BetweenGrows
    <3>3. q[i] = q[i - 1] + 1 /\ p[i] = p[i - 1] + all[i].rtt
      BY <1>4, <1>5, <2>2
    <3> QED
      BY <2>1, <3>2, <3>3
  <2>3. CASE ~ (all[i].rtt > 0)
    <3>1. q[i] = q[i - 1] + 0 /\ p[i] = p[i - 1] + 0
      BY <1>4, <1>5, <2>3
    <3>2. q[i - 1] \in Nat /\ p[i - 1] \in Nat
      BY <2>1 DEF Between
    <3>3. q[i] = q[i - 1] /\ p[i] = p[i - 1]
      BY <3>1, <3>2
    <3> QED
      BY <2>1, <3>3
  <2> QED
    BY <2>2, <2>3
<1>8. 0 .. N \subseteq S
  <2> HIDE DEF S
  <2>1. \A i \in 1 .. N : i - 1 \in S => i \in S
    BY <1>7
  <2> QED
    BY <1>1, <1>6, <2>1, Climb
<1>9. N \in S
  BY <1>1, <1>8
<1> QED
  BY <1>4, <1>9 DEF v, c

(* An average of RTTs raised by up to twice the loss.                      *)
IsAverage(x) == x = -1 \/ \E a, b \in Answers : x \in a.rtt .. (3 * b.rtt)

LEMMA EffectiveIsAverage ==
  ASSUME NEW t, t.metric \in Seq(Records), t.metric # <<>>
  PROVE  IsAverage(EffectiveRTT(t))
<1> DEFINE all == t.metric
           L == Len(all)
           C == Total(Counted(all))
           P == Total(Valid(all))
           Q == Total(Losses(all))
           high == 100 * L + 2 * Q
<1>1. L \in Nat /\ L # 0
  OBVIOUS
<1>2. Q \in Nat /\ Q <= 100 * L
  <2> DEFINE s == Losses(all)
  <2>1. \A i \in 1 .. L : all[i] \in Records
    OBVIOUS
  <2>2. s = [i \in 1 .. L |-> s[i]] /\ \A i \in 1 .. L : s[i] \in 0 .. 100
    BY <2>1, RecordTypes DEF Losses
  <2> HIDE DEF s, all, L
  <2>3. s \in [1 .. L -> Int]
    <3>1. \A x \in 0 .. 100 : x \in Int
      OBVIOUS
    <3>2. \A i \in 1 .. L : s[i] \in Int
      BY <2>2, <3>1, Zenon
    <3> QED
      BY <2>2, <3>2
  <2>4. s \in Seq(Int) /\ Len(s) = L
    BY <1>1, <2>2, <2>3
  <2> QED
    BY <2>2, <2>4, LossBounds DEF s
<1>3. Between(C, P)
  BY AnswersBetween
<1>4. EffectiveRTT(t) = IF C = 0 THEN -1 ELSE (P * high) \div (100 * L * C)
  BY DEF EffectiveRTT
<1> HIDE DEF all, L, C, P, Q
<1>5. CASE C = 0
  BY <1>4, <1>5 DEF IsAverage
<1>6. CASE C # 0
  <2>1. PICK a \in Answers, b \in Answers : C * a.rtt <= P /\ P <= C * b.rtt
    BY <1>3, <1>6 DEF Between
  <2> DEFINE l == a.rtt
             r == b.rtt
             x == P * high
             y == 100 * L * C
  <2>2. /\ C \in Nat /\ P \in Nat /\ l \in Nat /\ r \in Nat /\ C * l <= P /\ P <= C * r
        /\ C * l \in Nat /\ C * r \in Nat
    <3>1. C \in Nat /\ P \in Nat
      BY <1>3 DEF Between
    <3>2. l \in Nat /\ r \in Nat
      BY RecordTypes
    <3>3. C * l <= P /\ P <= C * r
      BY <2>1
    <3> HIDE DEF l, r
    <3> QED
      BY <3>1, <3>2, <3>3
  <2> HIDE DEF l, r
  <2>3. high \in Nat /\ 100 * L \in Nat /\ 300 * L \in Nat /\ 100 * L <= high /\ high <= 300 * L
    BY <1>1, <1>2
  <2> HIDE DEF high
  <2>4. (C * l) * (100 * L) <= x /\ x <= (C * r) * (300 * L) /\ x \in Nat
    <3>1. (C * l) * (100 * L) <= P * high
      <4> DEFINE m == C * l
                 n == 100 * L
      <4>1. m \in Nat /\ n \in Nat /\ m <= P /\ n <= high
        BY <2>2, <2>3
      <4> HIDE DEF m, n
      <4>2. m * n <= P * high
        BY <2>2, <2>3, <4>1, TimesMonotone
      <4> QED
        BY <4>2 DEF m, n
    <3>2. P * high <= (C * r) * (300 * L)
      <4> DEFINE m == C * r
                 n == 300 * L
      <4>1. m \in Nat /\ n \in Nat /\ P <= m /\ high <= n
        BY <2>2, <2>3
      <4> HIDE DEF m, n
      <4>2. P * high <= m * n
        BY <2>2, <2>3, <4>1, TimesMonotone
      <4> QED
        BY <4>2 DEF m, n
    <3> QED
      BY <2>2, <2>3, <3>1, <3>2
  <2>5. y \in Nat \ {0}
    BY <1>1, <1>6, <2>2, SMTT(20)
  <2>6. l * y = (C * l) * (100 * L) /\ (3 * r) * y = (C * r) * (300 * L)
    BY <1>1, <2>2, SMTT(20)
  <2>7. l * y <= x /\ x <= (3 * r) * y /\ 3 * r \in Nat
    BY <2>2, <2>4, <2>6
  <2> HIDE DEF x, y
  <2>8. l <= x \div y /\ x \div y <= 3 * r
    BY <2>2, <2>4, <2>5, <2>7, QuotientAbove, QuotientBelow
  <2>9. x \div y \in Int
    BY <2>4, <2>5
  <2>10. EffectiveRTT(t) = x \div y
    BY <1>4, <1>6 DEF x, y
  <2>11. EffectiveRTT(t) \in a.rtt .. (3 * b.rtt)
    BY <2>2, <2>8, <2>9, <2>10 DEF l, r
  <2> QED
    BY <2>11 DEF IsAverage
<1> QED
  BY <1>5, <1>6

-----------------------------------------------------------------------------
(* The scale.                                                              *)
LEMMA ScaleIsFinite ==
  IsFiniteSet(Thresholds) /\ Cardinality(Thresholds) = 8
<1> DEFINE A == {} \cup {3}
           B == A \cup {8}
           C == B \cup {21}
           D == C \cup {55}
           E == D \cup {149}
           F == E \cup {404}
           G == F \cup {1097}
           H == G \cup {2981}
<1>1. IsFiniteSet({}) /\ Cardinality({}) = 0
  BY FS_EmptySet
<1>2. IsFiniteSet(A) /\ Cardinality(A) = 1
  BY <1>1, FS_AddElement
<1>3. IsFiniteSet(B) /\ Cardinality(B) = 2
  BY <1>2, FS_AddElement
<1>4. IsFiniteSet(C) /\ Cardinality(C) = 3
  BY <1>3, FS_AddElement
<1>5. IsFiniteSet(D) /\ Cardinality(D) = 4
  BY <1>4, FS_AddElement
<1>6. IsFiniteSet(E) /\ Cardinality(E) = 5
  BY <1>5, FS_AddElement
<1>7. IsFiniteSet(F) /\ Cardinality(F) = 6
  BY <1>6, FS_AddElement
<1>8. IsFiniteSet(G) /\ Cardinality(G) = 7
  BY <1>7, FS_AddElement
<1>9. IsFiniteSet(H) /\ Cardinality(H) = 8
  BY <1>8, FS_AddElement
<1>10. H = Thresholds
  BY DEF Thresholds
<1> HIDE DEF H
<1> QED
  BY <1>9, <1>10

LEMMA Scale ==
  /\ \A rtt \in Int : LatencyCommunity(rtt) \in 0 .. 9
  /\ LatencyCommunity(-1) = 0
  /\ \A a \in Nat, b \in Nat : a <= b => LatencyCommunity(a) <= LatencyCommunity(b)
<1> DEFINE Low(rtt) == {t \in Thresholds : t <= rtt}
<1>1. \A rtt \in Int : IsFiniteSet(Low(rtt)) /\ Cardinality(Low(rtt)) <= 8
  BY ScaleIsFinite, FS_Subset
<1>2. \A rtt \in Int : Cardinality(Low(rtt)) \in Nat
  BY <1>1, FS_CardinalityType
<1>3. ASSUME NEW a \in Nat, NEW b \in Nat, a <= b
      PROVE  Cardinality(Low(a)) <= Cardinality(Low(b))
  <2>1. Low(a) \subseteq Low(b)
    BY <1>3 DEF Thresholds
  <2> HIDE DEF Low
  <2> QED
    BY <1>1, <2>1, FS_Subset
<1>4. \A rtt \in Int : LatencyCommunity(rtt) = IF rtt = -1 THEN 0 ELSE 1 + Cardinality(Low(rtt))
  BY DEF LatencyCommunity
<1> HIDE DEF Low
<1>5. ASSUME NEW rtt \in Int PROVE LatencyCommunity(rtt) \in 0 .. 9
  <2> DEFINE x == Cardinality(Low(rtt))
  <2>1. x \in Nat /\ x <= 8
    BY <1>1, <1>2
  <2>2. LatencyCommunity(rtt) \in {0, 1 + x}
    BY <1>4
  <2> HIDE DEF x
  <2> QED
    BY <2>1, <2>2
<1>6. ASSUME NEW a \in Nat, NEW b \in Nat, a <= b
      PROVE  LatencyCommunity(a) <= LatencyCommunity(b)
  <2>1. /\ LatencyCommunity(a) = 1 + Cardinality(Low(a))
        /\ LatencyCommunity(b) = 1 + Cardinality(Low(b))
    BY <1>4
  <2> DEFINE x == Cardinality(Low(a))
             y == Cardinality(Low(b))
  <2>2. x \in Nat /\ y \in Nat /\ x <= y
    BY <1>2, <1>3, <1>6
  <2> HIDE DEF x, y
  <2>3. 1 + x <= 1 + y
    BY <2>2
  <2> QED
    BY <2>1, <2>3 DEF x, y
<1> QED
  BY <1>4, <1>5, <1>6

Warranted(value) ==
  value = 0 \/ \E a, b \in Answers :
    value \in LatencyCommunity(a.rtt) .. LatencyCommunity(3 * b.rtt)

LEMMA AverageWarrants ==
  ASSUME NEW x, IsAverage(x)
  PROVE  Warranted(LatencyCommunity(x)) /\ LatencyCommunity(x) \in 0 .. 9
<1>1. CASE x = -1
  BY <1>1, Scale DEF Warranted
<1>2. CASE x # -1
  <2>1. PICK a \in Answers, b \in Answers : x \in a.rtt .. (3 * b.rtt)
    BY <1>2 DEF IsAverage
  <2>2. a.rtt \in Nat /\ 3 * b.rtt \in Nat /\ x \in Nat /\ a.rtt <= x /\ x <= 3 * b.rtt
    BY <2>1, RecordTypes
  <2>3. /\ LatencyCommunity(a.rtt) <= LatencyCommunity(x)
        /\ LatencyCommunity(x) <= LatencyCommunity(3 * b.rtt)
    BY <2>2, Scale
  <2>4. /\ LatencyCommunity(a.rtt) \in Int /\ LatencyCommunity(x) \in 0 .. 9
        /\ LatencyCommunity(3 * b.rtt) \in Int
    BY <2>2, Scale
  <2>5. LatencyCommunity(x) \in LatencyCommunity(a.rtt) .. LatencyCommunity(3 * b.rtt)
    BY <2>3, <2>4
  <2> QED
    BY <2>4, <2>5 DEF Warranted
<1> QED
  BY <1>1, <1>2

-----------------------------------------------------------------------------
(* The order of attempts.                                                  *)
AmongOf(s, S) ==
  CHOOSE g : g = [n \in 0 .. Len(s) |->
                    IF n = 0 THEN <<>>
                    ELSE IF s[n] \in S THEN Append(g[n - 1], s[n]) ELSE g[n - 1]]

LEMMA AmongType ==
  ASSUME NEW T, NEW s \in Seq(T), NEW S
  PROVE  Among(s, S) \in Seq(S)
<1> DEFINE N == Len(s)
           Q == Seq(S)
           Next(t, i) == IF s[i] \in S THEN Append(t, s[i]) ELSE t
           step == [i \in 1 .. N |-> [t \in Q |-> Next(t, i)]]
<1>1. N \in Nat /\ <<>> \in Q
  OBVIOUS
<1>2. \A i \in 1 .. N : \A t \in Q : Next(t, i) \in Q
  BY <1>1
<1> HIDE DEF N, Q, Next
<1>3. step \in [1 .. N -> [Q -> Q]]
  BY <1>2
<1>4. \A i \in 1 .. N : \A t \in Q : step[i][t] = Next(t, i)
  OBVIOUS
<1> HIDE DEF step
<1>5. PICK g : Loops(g, N, Q, <<>>, step)
  BY <1>1, <1>3, LoopExists
<1>6. ASSUME NEW n \in 0 .. N
      PROVE  g[n] = IF n = 0 THEN <<>> ELSE Next(g[n - 1], n)
  <2>1. CASE n = 0
    BY <1>5, <2>1 DEF Loops
  <2>2. CASE n # 0
    <3>1. n \in 1 .. N /\ n - 1 \in 0 .. N
      BY <1>1, <2>2
    <3>2. g[n - 1] \in Q /\ g[n] = step[n][g[n - 1]]
      BY <1>5, <3>1 DEF Loops
    <3> QED
      BY <1>4, <2>2, <3>1, <3>2
  <2> QED
    BY <2>1, <2>2
<1>7. g = [n \in 0 .. N |-> IF n = 0 THEN <<>> ELSE Next(g[n - 1], n)]
  BY <1>5, <1>6 DEF Loops
<1> DEFINE h == AmongOf(s, S)
<1>8. h = [n \in 0 .. N |-> IF n = 0 THEN <<>> ELSE Next(h[n - 1], n)]
  BY <1>7 DEF AmongOf, Next, N
<1>9. Among(s, S) = h[N]
  BY DEF Among, AmongOf, N
<1> HIDE DEF h
<1> DEFINE Good == {n \in 0 .. N : h[n] \in Q}
<1>10. 0 \in Good
  <2>1. 0 \in 0 .. N
    BY <1>1
  <2>2. h[0] = <<>>
    BY <1>8, <2>1
  <2> QED
    BY <1>1, <2>1, <2>2
<1>11. ASSUME NEW i \in 1 .. N, i - 1 \in Good PROVE i \in Good
  <2>1. i \in 0 .. N /\ i # 0 /\ h[i - 1] \in Q
    BY <1>1, <1>11
  <2>2. h[i] = Next(h[i - 1], i)
    BY <1>8, <2>1
  <2> QED
    BY <1>2, <2>1, <2>2
<1>12. 0 .. N \subseteq Good
  <2> HIDE DEF Good
  <2>1. \A i \in 1 .. N : i - 1 \in Good => i \in Good
    BY <1>11
  <2> QED
    BY <1>1, <1>10, <2>1, Climb
<1>13. N \in Good
  BY <1>1, <1>12
<1> QED
  BY <1>9, <1>13 DEF Q

LEMMA OrderType ==
  ASSUME NEW u \in Sessions
  PROVE  AttemptOrder(u) \in Seq(AddrOf[u])
<1> DEFINE S == AddrOf[u]
           p == trackers[u].preferred
<1>1. Protos \in Seq(ToSet(Protos)) /\ <<p>> \in Seq({p}) /\ <<>> \in Seq(S)
  BY LatencyAssumption
<1>2. Among(Protos, S) \in Seq(S) /\ Among(<<p>>, S) \in Seq(S)
  BY <1>1, AmongType
<1>3. Among(Protos, S \ {p}) \in Seq(S)
  <2>1. Among(Protos, S \ {p}) \in Seq(S \ {p})
    BY <1>1, AmongType
  <2>2. \A q : q \in Seq(S \ {p}) => q \in Seq(S)
    OBVIOUS
  <2> QED
    BY <2>1, <2>2
<1>4. \A a, b : a \in Seq(S) /\ b \in Seq(S) => a \o b \in Seq(S)
  OBVIOUS
<1>5. \/ AttemptOrder(u) = Among(Protos, S)
      \/ AttemptOrder(u) = Among(<<p>>, S) \o Among(Protos, S \ {p})
      \/ AttemptOrder(u) = Among(<<p>>, S) \o <<>>
  BY DEF AttemptOrder
<1> HIDE DEF S, p
<1> QED
  BY <1>1, <1>2, <1>3, <1>4, <1>5 DEF S

(* The order holds only protocols of the session.                          *)
LEMMA AddressOf ==
  ASSUME NEW u \in Sessions, NEW p \in AddrOf[u]
  PROVE  p \in ToSet(Protos) /\ <<u, p>> \in Addresses
  BY LatencyAssumption DEF Addresses

-----------------------------------------------------------------------------
(* The inductive invariant.                                                *)
Tracked(t) == t \in RTTTracker /\ Len(t.metric) \in 1 .. MaxHistory

TrackersOK ==
  /\ trackers \in [Sessions -> RTTTracker \cup {None}]
  /\ \A u \in Sessions : trackers[u] # None => Tracked(trackers[u])

\* A worker tries addresses of its session; what it got came from the first.
Busy(j) ==
  /\ j \in Work
  /\ j.order \in Seq(AddrOf[j.sess])
  /\ j.got # None => j.order # <<>>

WorkOK ==
  /\ work \in [Workers -> Work \cup {None}]
  /\ \A w \in Workers : work[w] # None => Busy(work[w])

EnvOK ==
  /\ active \subseteq present /\ present \subseteq Sessions
  /\ path \in [Addresses -> Records]
  /\ changes \in 0 .. MaxChanges

TasksOK ==
  /\ failed \subseteq Addresses
  /\ batching \in BOOLEAN
  /\ jobs \subseteq Sessions
  /\ alive # None => alive \subseteq Sessions
  /\ wanted # None => wanted \subseteq Sessions
  /\ batch # None => batch \subseteq Sessions

Taken(x) == x = None \/ IsAverage(x)

MetricsOK ==
  /\ fresh \in [Sessions -> Rtt] /\ metrics \in [Sessions -> Rtt]
  /\ \A u \in Sessions : Taken(fresh[u]) /\ Taken(metrics[u])

EffectiveOK ==
  effective # None =>
    /\ effective \in [Sessions -> Rtt]
    /\ \A u \in Sessions : Taken(effective[u])

CommunityOK ==
  /\ community \in [Sessions -> 0 .. 9]
  /\ \A u \in Sessions : Warranted(community[u])

LatencyInv ==
  TrackersOK /\ WorkOK /\ EnvOK /\ TasksOK /\ MetricsOK /\ EffectiveOK /\ CommunityOK

LEMMA InvMeans ==
  LatencyInv => LatencyTypeOK /\ CommunityIsWarranted
<1>1. LatencyInv => LatencyTypeOK
  BY DEF LatencyInv, TrackersOK, WorkOK, EnvOK, TasksOK, MetricsOK, EffectiveOK, CommunityOK,
         LatencyTypeOK, Tracked, Busy, Records
<1>2. LatencyInv => CommunityIsWarranted
  BY DEF LatencyInv, CommunityOK, Warranted, CommunityIsWarranted
<1> QED
  BY <1>1, <1>2

LEMMA NoRttIsNone ==
  ASSUME NEW x, IsAverage(x)
  PROVE  x \in Rtt /\ x # None /\ x \in Int
  BY LatencyAssumption, RecordTypes DEF IsAverage, Rtt

LEMMA LatencyInitially ==
  LatencyInit => LatencyInv
<1> SUFFICES ASSUME LatencyInit PROVE LatencyInv
  OBVIOUS
<1>1. TrackersOK /\ WorkOK
  BY DEF LatencyInit, TrackersOK, WorkOK
<1>2. EnvOK /\ TasksOK
  <2>1. 0 \in 0 .. MaxChanges
    BY LatencyAssumption
  <2>2. EnvOK
    BY <2>1 DEF LatencyInit, EnvOK, Records
  <2>3. TasksOK
    BY Zenon DEF LatencyInit, TasksOK
  <2> QED
    BY <2>2, <2>3
<1>3. MetricsOK /\ EffectiveOK
  BY DEF LatencyInit, MetricsOK, EffectiveOK, Taken, Rtt
<1>4. CommunityOK
  BY DEF LatencyInit, CommunityOK, Warranted
<1> QED
  BY <1>1, <1>2, <1>3, <1>4 DEF LatencyInv

-----------------------------------------------------------------------------
(* What the tracker and the numbers read from it are.                      *)
LEMMA UpdatedIsTracked ==
  ASSUME NEW t \in RTTTracker \cup {None}, t # None => Tracked(t),
         NEW proto \in ToSet(Protos) \cup {None}, NEW answer \in Records
  PROVE  Tracked(Updated(t, proto, answer))
<1> DEFINE old == IF t = None THEN [preferred |-> None, metric |-> <<>>] ELSE t
           grown == Append(old.metric, answer)
           kept == IF Len(grown) > MaxHistory THEN Tail(grown) ELSE grown
           chosen == IF proto = None THEN old.preferred ELSE proto
<1>1. /\ old.preferred \in ToSet(Protos) \cup {None}
      /\ old.metric \in Seq(Records) /\ Len(old.metric) \in 0 .. MaxHistory
  <2>1. CASE t = None
    <3>1. old = [preferred |-> None, metric |-> <<>>]
      BY <2>1
    <3>2. old.preferred = None /\ old.metric = <<>>
      BY <3>1
    <3>3. 0 \in 0 .. MaxHistory
      BY LatencyAssumption
    <3>4. <<>> \in Seq(Records) /\ Len(<<>>) = 0
      OBVIOUS
    <3> HIDE DEF old
    <3> QED
      BY <3>2, <3>3, <3>4
  <2>2. CASE t # None
    BY <2>2 DEF Tracked, RTTTracker, Records
  <2> QED
    BY <2>1, <2>2
<1> HIDE DEF old
<1>2. grown \in Seq(Records) /\ Len(grown) = Len(old.metric) + 1
  BY <1>1
<1>3. kept \in Seq(Records) /\ Len(kept) \in 1 .. MaxHistory
  <2> HIDE DEF grown
  <2>1. MaxHistory \in Nat \ {0} /\ Len(grown) \in 1 .. (MaxHistory + 1)
    BY <1>1, <1>2, LatencyAssumption
  <2>2. CASE Len(grown) > MaxHistory
    <3>1. Tail(grown) \in Seq(Records) /\ Len(Tail(grown)) = Len(grown) - 1
      BY <1>2, <2>1
    <3> QED
      BY <2>1, <2>2, <3>1
  <2>3. CASE ~ (Len(grown) > MaxHistory)
    BY <1>2, <2>1, <2>3
  <2> QED
    BY <2>2, <2>3
<1>4. Updated(t, proto, answer) = [preferred |-> chosen, metric |-> kept]
  BY DEF Updated, old
<1>5. chosen \in ToSet(Protos) \cup {None}
  BY <1>1
<1> HIDE DEF chosen, kept
<1> QED
  BY <1>3, <1>4, <1>5 DEF Tracked, RTTTracker, Records

LEMMA LastIsAverage ==
  ASSUME NEW t, t # None => Tracked(t)
  PROVE  IsAverage(LastRTT(t))
<1>1. CASE t = None
  BY <1>1 DEF LastRTT, IsAverage
<1>2. CASE t # None
  <2>1. t.metric \in Seq(Records) /\ Len(t.metric) \in 1 .. MaxHistory
    BY <1>2 DEF Tracked, RTTTracker, Records
  <2> DEFINE a == t.metric[Len(t.metric)]
  <2>2. a \in Records
    BY <2>1
  <2>3. LastRTT(t) = a.rtt
    BY <1>2 DEF LastRTT, Last
  <2> HIDE DEF a
  <2>4. CASE a = Silent
    BY <2>3, <2>4 DEF Silent, IsAverage
  <2>5. CASE a \in Answers
    <3>1. a.rtt \in a.rtt .. (3 * a.rtt)
      BY <2>5, RecordTypes
    <3> QED
      BY <2>3, <2>5, <3>1 DEF IsAverage
  <2> QED
    BY <2>2, <2>4, <2>5 DEF Records
<1> QED
  BY <1>1, <1>2

-----------------------------------------------------------------------------
(* The steps.  What a step leaves alone stays as it was.                   *)
LEMMA Untouched ==
  /\ TrackersOK /\ UNCHANGED trackers => TrackersOK'
  /\ WorkOK /\ UNCHANGED work => WorkOK'
  /\ EnvOK /\ UNCHANGED envVars => EnvOK'
  /\ MetricsOK /\ UNCHANGED <<fresh, metrics>> => MetricsOK'
  /\ EffectiveOK /\ UNCHANGED effective => EffectiveOK'
  /\ CommunityOK /\ UNCHANGED community => CommunityOK'
  BY DEF TrackersOK, WorkOK, EnvOK, MetricsOK, EffectiveOK, CommunityOK, envVars

LEMMA BatcherKeeps ==
  LatencyInv /\ Batcher => LatencyInv'
<1> SUFFICES ASSUME LatencyInv, Batcher PROVE LatencyInv'
  OBVIOUS
<1> USE DEF LatencyInv
<1>1. UNCHANGED <<trackers, work, envVars, fresh, metrics, effective, community>>
  BY DEF Batcher, StartBatch, EndBatch, metricVars, updateVars
<1>2. TasksOK'
  BY DEF Batcher, StartBatch, EndBatch, TasksOK, EnvOK, metricVars, updateVars
<1> QED
  BY <1>1, <1>2, Untouched

LEMMA TakeJobKeeps ==
  ASSUME LatencyInv, NEW w \in Workers, TakeJob(w)
  PROVE  LatencyInv'
<1> USE DEF LatencyInv
<1>1. /\ UNCHANGED <<trackers, envVars, fresh, metrics, effective, community>>
      /\ UNCHANGED <<failed, batching, alive, wanted, batch>>
  BY DEF TakeJob, metricVars, updateVars
<1>2. PICK u \in jobs :
        /\ jobs' = jobs \ {u}
        /\ work' = [work EXCEPT ![w] = [sess |-> u, order |-> AttemptOrder(u), got |-> None]]
  BY DEF TakeJob
<1>3. TasksOK'
  BY <1>1, <1>2 DEF TasksOK
<1> DEFINE j == [sess |-> u, order |-> AttemptOrder(u), got |-> None]
<1>4. Busy(j)
  <2>1. u \in Sessions
    BY DEF TasksOK
  <2>2. AttemptOrder(u) \in Seq(AddrOf[u])
    BY <2>1, OrderType
  <2>3. AddrOf[u] \subseteq ToSet(Protos)
    BY <2>1, LatencyAssumption
  <2>4. AttemptOrder(u) \in Seq(ToSet(Protos))
    BY <2>2, <2>3
  <2> QED
    BY <2>1, <2>2, <2>4 DEF Busy, Work
<1>5. WorkOK'
  <2> HIDE DEF j
  <2>1. j \in Work
    BY <1>4 DEF Busy
  <2>2. work' = [work EXCEPT ![w] = j]
    BY <1>2 DEF j
  <2> QED
    BY <1>4, <2>1, <2>2 DEF WorkOK
<1> QED
  BY <1>1, <1>3, <1>5, Untouched

LEMMA PingKeeps ==
  ASSUME LatencyInv, NEW w \in Workers, Ping(w)
  PROVE  LatencyInv'
<1> USE DEF LatencyInv
<1> DEFINE j == work[w]
           addr == <<j.sess, Head(j.order)>>
           k == IF path[addr].rtt = -1 THEN [j EXCEPT !.order = Tail(@)]
                                       ELSE [j EXCEPT !.got = path[addr]]
<1>1. /\ UNCHANGED <<trackers, envVars, fresh, metrics, effective, community>>
      /\ UNCHANGED <<jobs, batching, alive, wanted, batch>>
  BY DEF Ping, metricVars, updateVars
<1>2. /\ j # None /\ j.got = None /\ j.order # <<>>
      /\ failed' = IF path[addr].rtt <= 0 THEN failed \cup {addr} ELSE failed \ {addr}
      /\ work' = [work EXCEPT ![w] = k]
  BY DEF Ping
<1>3. Busy(j) /\ j \in Work
  BY <1>2 DEF WorkOK, Busy
<1>4. addr \in Addresses
  <2>1. j.sess \in Sessions /\ j.order \in Seq(AddrOf[j.sess]) /\ j.order # <<>>
    BY <1>2, <1>3 DEF Busy, Work
  <2> HIDE DEF j
  <2>2. Head(j.order) \in AddrOf[j.sess]
    BY <2>1
  <2> QED
    BY <2>1, <2>2, AddressOf
<1>5. path[addr] \in Records
  BY <1>4 DEF EnvOK
<1>6. TasksOK'
  <2> HIDE DEF addr
  <2>1. failed' \subseteq Addresses
    BY <1>2, <1>4 DEF TasksOK
  <2> QED
    BY <1>1, <2>1 DEF TasksOK
<1>7. Busy(k)
  <2>1. /\ j = [sess |-> j.sess, order |-> j.order, got |-> j.got]
        /\ j.sess \in Sessions
        /\ j.order \in Seq(AddrOf[j.sess]) /\ j.order \in Seq(ToSet(Protos)) /\ j.order # <<>>
        /\ j.got = None
    BY <1>2, <1>3 DEF Busy, Work
  <2> HIDE DEF j
  <2>2. CASE path[addr].rtt = -1
    <3>1. k = [sess |-> j.sess, order |-> Tail(j.order), got |-> None]
      BY <2>1, <2>2
    <3>2. Tail(j.order) \in Seq(AddrOf[j.sess]) /\ Tail(j.order) \in Seq(ToSet(Protos))
      BY <2>1
    <3> QED
      BY <2>1, <3>1, <3>2 DEF Busy, Work
  <2>3. CASE path[addr].rtt # -1
    <3>1. k = [sess |-> j.sess, order |-> j.order, got |-> path[addr]]
      BY <2>1, <2>3
    <3>2. path[addr] \in Answers
      BY <1>5, <2>3 DEF Records, Silent
    <3> HIDE DEF addr, k
    <3> QED
      BY <2>1, <3>1, <3>2 DEF Busy, Work
  <2> QED
    BY <2>2, <2>3
<1>8. WorkOK'
  <2> HIDE DEF k
  <2>1. k \in Work
    BY <1>7 DEF Busy
  <2> QED
    BY <1>2, <1>7, <2>1 DEF WorkOK
<1> QED
  BY <1>1, <1>6, <1>8, Untouched

LEMMA RecordKeeps ==
  ASSUME LatencyInv, NEW w \in Workers, Record(w)
  PROVE  LatencyInv'
<1> USE DEF LatencyInv
<1> DEFINE j == work[w]
<1>1. /\ UNCHANGED <<envVars, fresh, metrics, effective, community>>
      /\ UNCHANGED <<failed, jobs, batching, alive, wanted, batch>>
  BY DEF Record, metricVars, updateVars
<1>2. TasksOK'
  BY <1>1 DEF TasksOK
<1>3. WorkOK'
  <2>1. work' = [work EXCEPT ![w] = None]
    BY DEF Record
  <2> QED
    BY <2>1 DEF WorkOK
<1>4. Busy(j)
  BY DEF Record, WorkOK
<1>5. \E proto \in ToSet(Protos) \cup {None}, answer \in Records :
        trackers' = [trackers EXCEPT ![j.sess] = Updated(@, proto, answer)]
  <2>1. CASE /\ j.got # None
             /\ trackers' = [trackers EXCEPT ![j.sess] = Updated(@, Head(j.order), j.got)]
    <3>1. j.got \in Records
      BY <1>4, <2>1 DEF Busy, Work, Records
    <3>2. j.order \in Seq(ToSet(Protos)) /\ j.order # <<>>
      BY <1>4, <2>1 DEF Busy, Work
    <3>3. Head(j.order) \in ToSet(Protos)
      BY <3>2
    <3> HIDE DEF j
    <3> QED
      BY <2>1, <3>1, <3>3
  <2>2. CASE trackers' = [trackers EXCEPT ![j.sess] = Updated(@, None, Silent)]
    BY <2>2 DEF Records
  <2> QED
    BY <2>1, <2>2 DEF Record
<1>6. PICK proto \in ToSet(Protos) \cup {None}, answer \in Records :
        trackers' = [trackers EXCEPT ![j.sess] = Updated(@, proto, answer)]
  BY <1>5
<1>7. TrackersOK'
  <2> DEFINE u == j.sess
             new == Updated(trackers[u], proto, answer)
  <2>1. u \in Sessions
    BY <1>4 DEF Busy, Work
  <2> HIDE DEF u
  <2>2. Tracked(new)
    BY <2>1, UpdatedIsTracked DEF TrackersOK
  <2>3. trackers' = [trackers EXCEPT ![u] = new]
    BY <1>6 DEF u
  <2> HIDE DEF new
  <2>4. new \in RTTTracker
    BY <2>2 DEF Tracked
  <2> QED
    BY <2>1, <2>2, <2>3, <2>4 DEF TrackersOK
<1> QED
  BY <1>1, <1>2, <1>3, <1>7, Untouched

LEMMA CleanerKeeps ==
  LatencyInv /\ Cleaner => LatencyInv'
<1> SUFFICES ASSUME LatencyInv, Cleaner PROVE LatencyInv'
  OBVIOUS
<1> USE DEF LatencyInv
<1>1. UNCHANGED <<work, envVars, fresh, metrics, effective, community>>
  BY DEF Cleaner, StartCleanup, Cleanup, batchVars, metricVars, updateVars
<1>2. TasksOK'
  <2>1. CASE StartCleanup
    BY <2>1 DEF StartCleanup, TasksOK, EnvOK, batchVars, metricVars, updateVars
  <2>2. CASE Cleanup
    <3>1. failed' \subseteq Addresses
      BY <2>2 DEF Cleanup, TasksOK
    <3>2. alive' = None /\ UNCHANGED <<batching, jobs, wanted, batch>>
      BY <2>2 DEF Cleanup, batchVars, metricVars, updateVars
    <3> QED
      BY <3>1, <3>2 DEF TasksOK
  <2> QED
    BY <2>1, <2>2 DEF Cleaner
<1>3. TrackersOK'
  <2>1. CASE StartCleanup
    BY <2>1, Untouched DEF StartCleanup
  <2>2. CASE Cleanup
    BY <2>2 DEF Cleanup, TrackersOK
  <2> QED
    BY <2>1, <2>2 DEF Cleaner
<1> QED
  BY <1>1, <1>2, <1>3, Untouched

LEMMA CollectorKeeps ==
  LatencyInv /\ Collector => LatencyInv'
<1> SUFFICES ASSUME LatencyInv, Collector PROVE LatencyInv'
  OBVIOUS
<1> USE DEF LatencyInv
<1>1. /\ UNCHANGED <<trackers, work, envVars, effective, community>>
      /\ UNCHANGED <<failed, jobs, batching, alive, batch>>
  BY DEF Collector, StartCollect, CollectSession, StoreMetrics, batchVars, updateVars
<1>2. wanted' # None => wanted' \subseteq Sessions
  BY DEF Collector, StartCollect, CollectSession, StoreMetrics, TasksOK, EnvOK
<1>3. TasksOK'
  BY <1>1, <1>2 DEF TasksOK
<1>4. MetricsOK'
  <2>1. CASE StartCollect
    BY <2>1 DEF StartCollect, MetricsOK, Taken, Rtt
  <2>2. CASE StoreMetrics
    BY <2>2 DEF StoreMetrics, MetricsOK, Taken, Rtt
  <2>3. ASSUME NEW u \in Sessions, CollectSession(u) PROVE MetricsOK'
    <3> DEFINE x == LastRTT(trackers[u])
    <3>1. IsAverage(x)
      BY LastIsAverage DEF TrackersOK
    <3>2. x \in Rtt
      BY <3>1, NoRttIsNone
    <3>3. fresh' = [fresh EXCEPT ![u] = x] /\ metrics' = metrics
      BY <2>3 DEF CollectSession
    <3> HIDE DEF x
    <3> QED
      BY <3>1, <3>2, <3>3 DEF MetricsOK, Taken
  <2> QED
    BY <2>1, <2>2, <2>3 DEF Collector
<1> QED
  BY <1>1, <1>3, <1>4, Untouched

(* Whatever the updater falls back on was measured.                        *)
LEMMA RttOfIsAverage ==
  ASSUME EffectiveOK, MetricsOK, effective # None, NEW u \in Sessions
  PROVE  IsAverage(RttOf(u))
<1>1. Taken(effective[u]) /\ Taken(metrics[u])
  BY DEF EffectiveOK, MetricsOK
<1>2. IsAverage(-1)
  BY DEF IsAverage
<1> QED
  BY <1>1, <1>2 DEF RttOf, Taken

LEMMA UpdaterKeeps ==
  LatencyInv /\ Updater => LatencyInv'
<1> SUFFICES ASSUME LatencyInv, Updater PROVE LatencyInv'
  OBVIOUS
<1> USE DEF LatencyInv
<1>1. /\ UNCHANGED <<trackers, work, envVars, fresh, metrics>>
      /\ UNCHANGED <<failed, jobs, batching, alive, wanted>>
  BY DEF Updater, StartUpdate, ComputeEffective, EndUpdate, WriteCommunity, batchVars, metricVars
<1>2. batch' # None => batch' \subseteq Sessions
  BY DEF Updater, StartUpdate, ComputeEffective, EndUpdate, WriteCommunity, TasksOK, EnvOK
<1>3. TasksOK'
  BY <1>1, <1>2 DEF TasksOK
<1>4. EffectiveOK'
  <2>1. CASE ComputeEffective
    <3> DEFINE x(u) == IF trackers[u] = None THEN None ELSE EffectiveRTT(trackers[u])
    <3>1. ASSUME NEW u \in Sessions PROVE x(u) \in Rtt /\ Taken(x(u))
      <4>1. CASE trackers[u] = None
        BY <4>1 DEF Rtt, Taken
      <4>2. CASE trackers[u] # None
        <5>1. trackers[u].metric \in Seq(Records) /\ Len(trackers[u].metric) \in 1 .. MaxHistory
          BY <4>2 DEF TrackersOK, Tracked, RTTTracker, Records
        <5>2. trackers[u].metric # <<>>
          BY <5>1
        <5>3. IsAverage(EffectiveRTT(trackers[u]))
          BY <5>1, <5>2, EffectiveIsAverage
        <5> QED
          BY <4>2, <5>3, NoRttIsNone DEF Taken
      <4> QED
        BY <4>1, <4>2
    <3>2. effective' = [u \in Sessions |-> x(u)]
      BY <2>1 DEF ComputeEffective
    <3> HIDE DEF x
    <3> QED
      BY <3>1, <3>2 DEF EffectiveOK
  <2>2. CASE UNCHANGED effective
    BY <2>2, Untouched
  <2>3. CASE EndUpdate
    BY <2>3 DEF EndUpdate, EffectiveOK
  <2> QED
    BY <2>1, <2>2, <2>3 DEF Updater, StartUpdate, WriteCommunity
<1>5. CommunityOK'
  <2>1. CASE UNCHANGED community
    BY <2>1, Untouched
  <2>2. ASSUME NEW u \in Sessions, WriteCommunity(u) PROVE CommunityOK'
    <3> DEFINE c == LatencyCommunity(RttOf(u))
    <3>1. IsAverage(RttOf(u))
      BY <2>2, RttOfIsAverage DEF WriteCommunity
    <3>2. Warranted(c) /\ c \in 0 .. 9
      BY <3>1, AverageWarrants
    <3>3. community' = [community EXCEPT ![u] = c]
      BY <2>2 DEF WriteCommunity
    <3> HIDE DEF c
    <3> QED
      BY <3>2, <3>3 DEF CommunityOK
  <2> QED
    BY <2>1, <2>2 DEF Updater, StartUpdate, ComputeEffective, EndUpdate
<1> QED
  BY <1>1, <1>3, <1>4, <1>5, Untouched

LEMMA ChangesKeep ==
  /\ \A u \in Sessions : LatencyInv /\ (SetUp(u) \/ TakeDown(u)) => LatencyInv'
  /\ \A addr \in Addresses : LatencyInv /\ PathChanges(addr) => LatencyInv'
<1> USE DEF LatencyInv
<1>1. Change => /\ UNCHANGED <<trackers, work, fresh, metrics, effective>>
                /\ UNCHANGED <<failed, batching, jobs, alive, wanted, batch>>
                /\ changes < MaxChanges /\ changes' = changes + 1
  BY DEF Change, batchVars, metricVars
<1>2. TasksOK /\ Change => TasksOK'
  BY <1>1 DEF TasksOK
<1>3. Change /\ EnvOK => changes' \in 0 .. MaxChanges
  BY <1>1, LatencyAssumption DEF EnvOK
<1>4. ASSUME LatencyInv, NEW u \in Sessions, SetUp(u) PROVE LatencyInv'
  <2>1. EnvOK'
    BY <1>3, <1>4 DEF SetUp, EnvOK
  <2>2. CommunityOK'
    <3>1. community' = [community EXCEPT ![u] = 0]
      BY <1>4 DEF SetUp
    <3>2. Warranted(0)
      BY DEF Warranted
    <3> QED
      BY <1>4, <3>1, <3>2 DEF CommunityOK
  <2> QED
    BY <1>1, <1>2, <1>4, <2>1, <2>2, Untouched DEF SetUp
<1>5. ASSUME LatencyInv, NEW u \in Sessions, TakeDown(u) PROVE LatencyInv'
  <2>1. EnvOK'
    BY <1>3, <1>5 DEF TakeDown, EnvOK
  <2> QED
    BY <1>1, <1>2, <1>5, <2>1, Untouched DEF TakeDown
<1>6. ASSUME LatencyInv, NEW addr \in Addresses, PathChanges(addr) PROVE LatencyInv'
  <2>1. path' \in [Addresses -> Records]
    BY <1>6 DEF PathChanges, EnvOK, Records
  <2>2. EnvOK'
    BY <1>3, <1>6, <2>1 DEF PathChanges, EnvOK
  <2> QED
    BY <1>1, <1>2, <1>6, <2>2, Untouched DEF PathChanges
<1> QED
  BY <1>4, <1>5, <1>6

LEMMA LatencySteps ==
  LatencyInv /\ [LatencyNext]_latencyVars => LatencyInv'
<1> SUFFICES ASSUME LatencyInv, [LatencyNext]_latencyVars PROVE LatencyInv'
  OBVIOUS
<1>1. CASE Batcher
  BY <1>1, BatcherKeeps
<1>2. ASSUME NEW w \in Workers, Worker(w) PROVE LatencyInv'
  BY <1>2, TakeJobKeeps, PingKeeps, RecordKeeps DEF Worker
<1>3. CASE Cleaner
  BY <1>3, CleanerKeeps
<1>4. CASE Collector
  BY <1>4, CollectorKeeps
<1>5. CASE Updater
  BY <1>5, UpdaterKeeps
<1>6. CASE \E u \in Sessions : SetUp(u) \/ TakeDown(u)
  BY <1>6, ChangesKeep
<1>7. CASE \E addr \in Addresses : PathChanges(addr)
  BY <1>7, ChangesKeep
<1>8. CASE UNCHANGED latencyVars
  <2>1. /\ UNCHANGED <<trackers, work, envVars, fresh, metrics, effective, community>>
        /\ UNCHANGED <<failed, jobs, batching, alive, wanted, batch>>
    BY <1>8 DEF latencyVars, batchVars, metricVars, updateVars
  <2>2. TasksOK'
    BY <2>1 DEF TasksOK, LatencyInv
  <2> QED
    BY <2>1, <2>2, Untouched DEF LatencyInv
<1> QED
  BY <1>1, <1>2, <1>3, <1>4, <1>5, <1>6, <1>7, <1>8 DEF LatencyNext

LEMMA LatencyInvHolds ==
  LatencySpec => []LatencyInv
  BY LatencyInitially, LatencySteps, PTL DEF LatencySpec

-----------------------------------------------------------------------------
(* Theorems.                                                               *)

(* The state of the measurements, the collected RTTs and the communities   *)
(* keep their types: trackers are never empty or longer than MaxHistory,   *)
(* a worker only tries addresses of its session, a community stays on the  *)
(* scale (batchMeasureRTT, updateRTTTracker, collectMetrics,               *)
(* updateFilterParams).                                                    *)
THEOREM LatencyTypes ==
  LatencySpec => []LatencyTypeOK
<1>1. LatencyInv => LatencyTypeOK
  BY InvMeans
<1> QED
  BY <1>1, LatencyInvHolds, PTL

(* No community is below that of the fastest answer a ping may give, or    *)
(* above that of three times the slowest, whichever number of answers is   *)
(* averaged (calculateEffectiveRTT, getLatencyCommunityValue).             *)
THEOREM CommunitiesAreWarranted ==
  LatencySpec => []CommunityIsWarranted
<1>1. LatencyInv => CommunityIsWarranted
  BY InvMeans
<1> QED
  BY <1>1, LatencyInvHolds, PTL
=============================================================================
