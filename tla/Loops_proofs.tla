---------------------------- MODULE Loops_proofs ----------------------------
(* Proofs about the parts that compute in loops: the filter, the emulation of *)
(* multiplications and divisions with the exceptions around it, the searches  *)
(* and the counts of the profiler, and the line of a sample, printed digit by *)
(* digit and split, read and given its sign again by the client.  A loop of   *)
(* the code is a recursive function of the rounds done; what it computes      *)
(* follows by induction over them, for any number of rounds.                  *)
EXTENDS FirFilter, Exceptions, Profiler, SampleLine, FiniteSetTheorems, FunctionTheorems, WellFoundedInduction, TLAPS

---------------------------------------------------------------------------
(* Loops. *)

(* What holds before a loop and is kept by each of its n rounds holds after   *)
(* every round: G is the set of rounds after which it holds.                  *)
LEMMA EveryRound ==
    ASSUME NEW n \in Nat, NEW G, 0 \in G, \A i \in 0..n-1 : i \in G => i + 1 \in G
    PROVE  \A i \in 0..n : i \in G
<1> DEFINE T == {i \in 0..n : i \notin G}
<1> SUFFICES ASSUME T # {} PROVE FALSE
  OBVIOUS
<1>1. T \subseteq Nat
  OBVIOUS
<1> HIDE DEF T
<1>2. PICK m \in T : \A i \in T : ~(<<i, m>> \in OpToRel(<, Nat))
  BY <1>1, NatLessThanWellFounded, WFMin
<1>3. \A i \in T : ~(i < m)
  BY <1>1, <1>2 DEF OpToRel
<1>4. m \in 1..n /\ m \notin G
  BY DEF T
<1>5. m - 1 \in 0..n-1 /\ m - 1 \in G
  BY <1>3, <1>4 DEF T
<1>6. m - 1 + 1 = m
  BY <1>4
<1> QED BY <1>4, <1>5, <1>6

(* A loop of n rounds runs: there is a state after every round. *)
Runs(n, S, base, step) ==
    \E g \in [0..n -> S] : g[0] = base /\ \A i \in 1..n : g[i] = step[i][g[i-1]]

LEMMA LoopRuns ==
    ASSUME NEW n \in Nat, NEW S, NEW base \in S, NEW step \in [1..n -> [S -> S]]
    PROVE  Runs(n, S, base, step)
<1> DEFINE P(k) == \E g \in [0..k -> S] : g[0] = base /\ \A i \in 1..k : g[i] = step[i][g[i-1]]
           G == {k \in 0..n : P(k)}
<1>1. 0 \in G
  <2> DEFINE g == [i \in 0..0 |-> base]
  <2>1. g \in [0..0 -> S] /\ g[0] = base /\ \A i \in 1..0 : g[i] = step[i][g[i-1]]
    OBVIOUS
  <2> HIDE DEF g
  <2>2. P(0)
    BY <2>1
  <2> QED BY <2>2
<1>2. ASSUME NEW k \in 0..n-1, k \in G PROVE k + 1 \in G
  <2>1. PICK g \in [0..k -> S] : g[0] = base /\ \A i \in 1..k : g[i] = step[i][g[i-1]]
    BY <1>2
  <2> DEFINE h == [i \in 0..k + 1 |-> IF i = k + 1 THEN step[k + 1][g[k]] ELSE g[i]]
  <2>2. k + 1 \in 1..n /\ k \in 0..k
    OBVIOUS
  <2>3. step[k + 1][g[k]] \in S
    BY <2>2
  <2>4. h \in [0..k + 1 -> S]
    BY <2>3
  <2>5. h[0] = base /\ h[k + 1] = step[k + 1][g[k]] /\ \A i \in 0..k : h[i] = g[i]
    BY <2>1
  <2> HIDE DEF h
  <2>6. ASSUME NEW i \in 1..k + 1 PROVE h[i] = step[i][h[i-1]]
    <3>1. CASE i = k + 1
      BY <2>5, <3>1
    <3>2. CASE i # k + 1
      BY <2>1, <2>5, <3>2
    <3> QED BY <3>1, <3>2
  <2> QED BY <2>2, <2>4, <2>5, <2>6, SMTT(30)
<1> HIDE DEF G
<1>3. \A k \in 0..n : k \in G
  BY <1>1, <1>2, EveryRound
<1>4. P(n)
  BY <1>3 DEF G
<1> QED BY <1>4 DEF Runs

(* A loop that gives values of S from values of S gives them after each round. *)
LEMMA LoopTyped ==
    ASSUME NEW n \in Nat, NEW S, NEW h, h[0] \in S, \A i \in 1..n : h[i-1] \in S => h[i] \in S
    PROVE  \A i \in 0..n : h[i] \in S
<1> DEFINE G == {i \in 0..n : h[i] \in S}
<1>1. 0 \in G
  OBVIOUS
<1>2. ASSUME NEW i \in 0..n-1, i \in G PROVE i + 1 \in G
  <2>1. i + 1 \in 1..n /\ i + 1 \in 0..n /\ i + 1 - 1 = i /\ h[i] \in S
    BY <1>2
  <2>2. h[i + 1] \in S
    BY <2>1
  <2> QED BY <2>1, <2>2
<1> HIDE DEF G
<1>3. \A i \in 0..n : i \in G
  BY <1>1, <1>2, EveryRound
<1> QED BY <1>3 DEF G

---------------------------------------------------------------------------
(* Powers of two. *)

(* The subsets of n + 1 things are those without the last and those with it. *)
LEMMA Subsets ==
    ASSUME NEW n \in Nat
    PROVE  /\ IsFiniteSet(SUBSET (1..n)) /\ Cardinality(SUBSET (1..n)) = 2^n
           /\ Cardinality(SUBSET (1..n)) \in Nat
<1>1. IsFiniteSet(1..n) /\ Cardinality(1..n) = n
  <2>1. 1 \in Int /\ n \in Int /\ (IF 1 > n THEN 0 ELSE n - 1 + 1) = n
    OBVIOUS
  <2> QED BY <2>1, FS_Interval
<1>2. IsFiniteSet(SUBSET (1..n)) /\ Cardinality(SUBSET (1..n)) = 2^Cardinality(1..n)
  BY <1>1, FS_SUBSET, Zenon
<1>3. Cardinality(SUBSET (1..n)) \in Nat
  BY <1>2, FS_CardinalityType, Zenon
<1> QED BY <1>1, <1>2, <1>3, Zenon

LEMMA SubsetsDouble ==
    ASSUME NEW n \in Nat
    PROVE  Cardinality(SUBSET (1..n+1)) = 2 * Cardinality(SUBSET (1..n))
<1> DEFINE A == SUBSET (1..n)
           B == {s \in SUBSET (1..n+1) : n + 1 \in s}
           f == [s \in A |-> s \cup {n+1}]
<1>1. IsFiniteSet(A) /\ Cardinality(A) \in Nat
  BY Subsets
<1>2. f \in Bijection(A, B)
  <2>1. ASSUME NEW s \in A PROVE f[s] \in B /\ n + 1 \notin s
    OBVIOUS
  <2>2. f \in [A -> B]
    BY <2>1
  <2>3. ASSUME NEW s \in A, NEW t \in A, f[s] = f[t] PROVE s = t
    <3>1. n + 1 \notin s /\ n + 1 \notin t /\ s \cup {n+1} = t \cup {n+1}
      BY <2>1, <2>3
    <3> QED BY <3>1
  <2>4. ASSUME NEW t \in B PROVE \E s \in A : f[s] = t
    <3>1. t \ {n+1} \in A /\ (t \ {n+1}) \cup {n+1} = t
      OBVIOUS
    <3> QED BY <3>1
  <2> HIDE DEF f, A, B
  <2>5. \A t \in B : \E s \in A : f[s] = t
    BY <2>4
  <2>6. \A s, t \in A : f[s] = f[t] => s = t
    BY <2>3
  <2> QED BY <2>2, <2>5, <2>6, Fun_IsBij
<1>4. SUBSET (1..n+1) = A \cup B /\ A \cap B = {}
  OBVIOUS
<1> HIDE DEF A, B, f
<1>3. IsFiniteSet(B) /\ Cardinality(B) = Cardinality(A)
  <2>1. ExistsBijection(A, B)
    BY <1>2, Zenon DEF ExistsBijection
  <2> QED BY <1>1, <2>1, FS_Bijection, Zenon
<1>5. Cardinality(A \cup B) = Cardinality(A) + Cardinality(B) - Cardinality(A \cap B)
  BY <1>1, <1>3, FS_Union, Zenon
<1>6. Cardinality(A \cap B) = 0
  BY <1>4, FS_EmptySet, Zenon
<1>7. Cardinality(A \cup B) = 2 * Cardinality(A)
  BY <1>1, <1>3, <1>5, <1>6
<1> QED BY <1>4, <1>7 DEF A

LEMMA PowerOfTwo ==
    ASSUME NEW n \in Nat
    PROVE  2^n \in Nat \ {0} /\ 2^(n+1) = 2 * 2^n
<1>1. Cardinality(SUBSET (1..n)) # 0
  <2>1. SUBSET (1..n) # {}
    OBVIOUS
  <2> QED BY <2>1, Subsets, FS_EmptySet, Zenon
<1>2. n + 1 \in Nat
  OBVIOUS
<1>3. 2^(n+1) = Cardinality(SUBSET (1..n+1))
  BY <1>2, Subsets, Zenon
<1> QED BY <1>1, <1>3, Subsets, SubsetsDouble
---------------------------------------------------------------------------
(* Remainders. *)

LEMMA Remainder ==
    ASSUME NEW v \in Int, NEW m \in Nat \ {0}
    PROVE  /\ v \div m \in Int /\ v % m \in 0..m-1
           /\ v = m * (v \div m) + (v % m)
  OBVIOUS

(* A number has one quotient and one remainder. *)
LEMMA OneRemainder ==
    ASSUME NEW m \in Nat \ {0}, NEW q \in Int, NEW r \in 0..m-1
    PROVE  (m * q + r) \div m = q /\ (m * q + r) % m = r
<1> DEFINE v == m * q + r
           p == v \div m
           s == v % m
<1>1. v \in Int
  OBVIOUS
<1>2. p \in Int /\ s \in 0..m-1 /\ v = m * p + s
  BY <1>1, Remainder
<1>3. m * q + r = m * p + s
  BY <1>2
<1> HIDE DEF v, p, s
<1>4. ~(p < q)
  <2> SUFFICES ASSUME p < q PROVE FALSE
    OBVIOUS
  <2>1. PICK d \in Nat : q = p + 1 + d
    <3>1. q - p - 1 \in Nat /\ q = p + 1 + (q - p - 1)
      BY <1>2
    <3> QED BY <3>1
  <2>2. m * q = m * p + m + m * d /\ m * d >= 0
    BY <1>2, <2>1
  <2> QED BY <1>2, <1>3, <2>2
<1>5. ~(q < p)
  <2> SUFFICES ASSUME q < p PROVE FALSE
    OBVIOUS
  <2>1. PICK d \in Nat : p = q + 1 + d
    <3>1. p - q - 1 \in Nat /\ p = q + 1 + (p - q - 1)
      BY <1>2
    <3> QED BY <3>1
  <2>2. m * p = m * q + m + m * d /\ m * d >= 0
    BY <1>2, <2>1
  <2> QED BY <1>2, <1>3, <2>2
<1>6. p = q
  BY <1>2, <1>4, <1>5
<1>7. s = r
  BY <1>2, <1>3, <1>6
<1> QED BY <1>6, <1>7 DEF p, s, v

(* A multiple of the divisor more leaves the same remainder. *)
LEMMA SameRemainder ==
    ASSUME NEW m \in Nat \ {0}, NEW v \in Int, NEW k \in Int
    PROVE  (v + m * k) % m = v % m
<1> DEFINE q == v \div m
           r == v % m
<1>1. q \in Int /\ r \in 0..m-1 /\ v = m * q + r
  BY Remainder
<1> HIDE DEF q, r
<1>2. v + m * k = m * (q + k) + r /\ q + k \in Int
  BY <1>1
<1>3. (m * (q + k) + r) % m = r
  BY <1>1, <1>2, OneRemainder
<1> QED BY <1>2, <1>3 DEF r

---------------------------------------------------------------------------
(* The filter. *)

(* The numbers of alt_32 arithmetic: Wrap keeps its argument but for a        *)
(* multiple of 2^Width, which a further sum does not show.                    *)
LEMMA Widths == 2^Width \in Nat \ {0} /\ 2^(Width-1) \in Nat
<1>1. Width \in Nat /\ Width - 1 \in Nat
  BY FirAssumption
<1> QED BY <1>1, PowerOfTwo

LEMMA WrapIs ==
    ASSUME NEW v \in Int
    PROVE  \E k \in Int : Wrap(v) = v + 2^Width * k /\ Wrap(v) \in Int
<1> DEFINE M == 2^Width
           H == 2^(Width-1)
<1>1. M \in Nat \ {0} /\ H \in Nat
  BY Widths
<1>2. Wrap(v) = ((v + H) % M) - H
  BY DEF Wrap
<1> HIDE DEF M, H
<1> DEFINE q == (v + H) \div M
           r == (v + H) % M
<1>3. q \in Int /\ r \in 0..M-1 /\ v + H = M * q + r
  BY <1>1, Remainder
<1> HIDE DEF q
<1>4. Wrap(v) = v + M * (0 - q) /\ Wrap(v) \in Int /\ 0 - q \in Int
  <2> HIDE DEF r
  <2>1. Wrap(v) = r - H
    BY <1>2 DEF r
  <2>2. M * (0 - q) = 0 - M * q
    BY <1>1, <1>3
  <2> QED BY <1>1, <1>3, <2>1, <2>2
<1> QED BY <1>4 DEF M

LEMMA WrapMore ==
    ASSUME NEW v \in Int, NEW k \in Int
    PROVE  Wrap(v + 2^Width * k) = Wrap(v)
<1> DEFINE M == 2^Width
           H == 2^(Width-1)
<1>1. M \in Nat \ {0} /\ H \in Nat
  BY Widths
<1> HIDE DEF M, H
<1>2. v + M * k + H = (v + H) + M * k /\ v + H \in Int
  BY <1>1
<1>3. ((v + H) + M * k) % M = (v + H) % M
  BY <1>1, <1>2, SameRemainder
<1> QED BY <1>2, <1>3 DEF Wrap, M, H

(* Wrapping on the way does not show at the end. *)
LEMMA WrapSum ==
    ASSUME NEW a \in Int, NEW b \in Int
    PROVE  Wrap(Wrap(a) + Wrap(b)) = Wrap(a + b) /\ Wrap(a) \in Int
<1> DEFINE M == 2^Width
<1>1. PICK k \in Int : Wrap(a) = a + M * k /\ Wrap(a) \in Int
  BY WrapIs
<1>2. PICK l \in Int : Wrap(b) = b + M * l /\ Wrap(b) \in Int
  BY WrapIs
<1>3. M \in Nat \ {0}
  BY Widths
<1> HIDE DEF M
<1>4. Wrap(a) + Wrap(b) = (a + b) + M * (k + l) /\ k + l \in Int /\ a + b \in Int
  BY <1>1, <1>2, <1>3
<1>5. Wrap((a + b) + M * (k + l)) = Wrap(a + b)
  BY <1>4, WrapMore DEF M
<1> QED BY <1>1, <1>4, <1>5

LEMMA WrapZero == Wrap(0) = 0
<1>1. Width - 1 \in Nat /\ Width - 1 + 1 = Width
  BY FirAssumption
<1>2. 2^(Width-1) \in Nat \ {0} /\ 2^Width = 2 * 2^(Width-1)
  BY <1>1, PowerOfTwo
<1> DEFINE H == 2^(Width-1)
           M == 2^Width
<1>3. M \in Nat \ {0} /\ H \in 0..M-1 /\ H \in Nat
  BY <1>2
<1> HIDE DEF H, M
<1>4. (M * 0 + H) % M = H
  BY <1>3, OneRemainder
<1>5. 0 + H = M * 0 + H
  BY <1>3
<1> QED BY <1>3, <1>4, <1>5 DEF Wrap, H, M

LEMMA TapsLemma ==
    /\ FIR_FILTER_COEFF_NUM \in Nat \ {0} /\ Taps = 1..FIR_FILTER_COEFF_NUM
    /\ {0} \cup Taps = 0..FIR_FILTER_COEFF_NUM
  BY FirAssumption DEF Taps

(* The rounds of the accumulation. *)
LEMMA AccumulateRuns ==
    ASSUME NEW c \in [Taps -> Int], NEW m \in [Taps -> Int]
    PROVE  \E h : /\ h[0] = 0 /\ \A i \in Taps : h[i] = Wrap(h[i-1] + Wrap(c[i] * m[i]))
                  /\ Accumulate(c, m) = h[FIR_FILTER_COEFF_NUM]
<1> DEFINE N == FIR_FILTER_COEFF_NUM
           step == [i \in 1..N |-> [s \in Int |-> Wrap(s + Wrap(c[i] * m[i]))]]
           F(g) == [i \in {0} \cup Taps |-> IF i = 0 THEN 0 ELSE Wrap(g[i-1] + Wrap(c[i] * m[i]))]
           h == CHOOSE g : g = F(g)
<1>1. N \in Nat /\ Taps = 1..N /\ {0} \cup Taps = 0..N
  BY TapsLemma
<1>2. ASSUME NEW i \in Taps, NEW s \in Int PROVE Wrap(s + Wrap(c[i] * m[i])) \in Int
  <2>1. c[i] * m[i] \in Int
    OBVIOUS
  <2>2. Wrap(c[i] * m[i]) \in Int
    BY <2>1, WrapIs
  <2> QED BY <2>2, WrapIs
<1>3. step \in [1..N -> [Int -> Int]]
  BY <1>1, <1>2
<1>4. PICK g \in [0..N -> Int] : g[0] = 0 /\ \A i \in 1..N : g[i] = step[i][g[i-1]]
  <2> HIDE DEF step, N, F, h
  <2>1. 0 \in Int
    OBVIOUS
  <2>2. Runs(N, Int, 0, step)
    BY <1>1, <1>3, <2>1, LoopRuns, Zenon
  <2> QED BY <2>2, Zenon DEF Runs
<1>5. \A i \in Taps : g[i] = Wrap(g[i-1] + Wrap(c[i] * m[i]))
  <2> SUFFICES ASSUME NEW i \in Taps PROVE g[i] = Wrap(g[i-1] + Wrap(c[i] * m[i]))
    OBVIOUS
  <2>1. i \in 1..N /\ i - 1 \in 0..N
    BY <1>1
  <2> QED BY <1>4, <2>1
<1> HIDE DEF N, step
<1>6. g = F(g)
  BY <1>1, <1>4, <1>5
<1>7. h = F(h)
  BY <1>6
<1>8. Accumulate(c, m) = h[N]
  BY DEF Accumulate, N
<1> HIDE DEF h
<1>9. h[0] = 0 /\ \A i \in Taps : h[i] = Wrap(h[i-1] + Wrap(c[i] * m[i]))
  BY <1>1, <1>7, SMTT(30)
<1> QED BY <1>8, <1>9 DEF N

(* The rounds of the convolution. *)
LEMMA ConvolutionRuns ==
    ASSUME NEW c \in [Taps -> Int], NEW m \in [Taps -> Int]
    PROVE  \E h : /\ h[0] = 0 /\ \A i \in Taps : h[i] = h[i-1] + c[i] * m[i]
                  /\ Convolution(c, m) = Wrap(h[FIR_FILTER_COEFF_NUM])
<1> DEFINE N == FIR_FILTER_COEFF_NUM
           step == [i \in 1..N |-> [s \in Int |-> s + c[i] * m[i]]]
           F(g) == [i \in {0} \cup Taps |-> IF i = 0 THEN 0 ELSE g[i-1] + c[i] * m[i]]
           h == CHOOSE g : g = F(g)
<1>1. N \in Nat /\ Taps = 1..N /\ {0} \cup Taps = 0..N
  BY TapsLemma
<1>2. ASSUME NEW i \in Taps, NEW s \in Int PROVE s + c[i] * m[i] \in Int
  OBVIOUS
<1>3. step \in [1..N -> [Int -> Int]]
  BY <1>1, <1>2
<1>4. PICK g \in [0..N -> Int] : g[0] = 0 /\ \A i \in 1..N : g[i] = step[i][g[i-1]]
  <2> HIDE DEF step, N, F, h
  <2>1. 0 \in Int
    OBVIOUS
  <2>2. Runs(N, Int, 0, step)
    BY <1>1, <1>3, <2>1, LoopRuns, Zenon
  <2> QED BY <2>2, Zenon DEF Runs
<1>5. \A i \in Taps : g[i] = g[i-1] + c[i] * m[i]
  <2> SUFFICES ASSUME NEW i \in Taps PROVE g[i] = g[i-1] + c[i] * m[i]
    OBVIOUS
  <2>1. i \in 1..N /\ i - 1 \in 0..N
    BY <1>1
  <2> QED BY <1>4, <2>1
<1> HIDE DEF N, step
<1>6. g = F(g)
  BY <1>1, <1>4, <1>5
<1>7. h = F(h)
  BY <1>6
<1>8. Convolution(c, m) = Wrap(h[N])
  BY DEF Convolution, N
<1> HIDE DEF h
<1>9. h[0] = 0 /\ \A i \in Taps : h[i] = h[i-1] + c[i] * m[i]
  <2>1. \A i \in {0} \cup Taps : h[i] = IF i = 0 THEN 0 ELSE h[i-1] + c[i] * m[i]
    BY <1>7, Zenon
  <2>2. \A i \in Taps : i # 0
    BY <1>1
  <2> QED BY <2>1, <2>2, Zenon
<1> QED BY <1>8, <1>9 DEF N

(* Wrapping every product and every partial sum does not show in the output. *)
LEMMA AccumulateIsConvolution ==
    ASSUME NEW c \in [Taps -> Int], NEW m \in [Taps -> Int]
    PROVE  Accumulate(c, m) = Convolution(c, m)
<1> DEFINE N == FIR_FILTER_COEFF_NUM
<1>1. N \in Nat /\ Taps = 1..N
  BY TapsLemma
<1>2. PICK acc : /\ acc[0] = 0 /\ \A i \in Taps : acc[i] = Wrap(acc[i-1] + Wrap(c[i] * m[i]))
                 /\ Accumulate(c, m) = acc[N]
  BY AccumulateRuns
<1>3. PICK sum : /\ sum[0] = 0 /\ \A i \in Taps : sum[i] = sum[i-1] + c[i] * m[i]
                 /\ Convolution(c, m) = Wrap(sum[N])
  BY ConvolutionRuns
<1> HIDE DEF N
<1> DEFINE G == {i \in 0..N : sum[i] \in Int /\ acc[i] = Wrap(sum[i])}
<1>4. 0 \in G
  <2>1. Wrap(0) = 0
    BY WrapZero
  <2> QED BY <1>1, <1>2, <1>3, <2>1
<1>5. ASSUME NEW i \in 0..N-1, i \in G PROVE i + 1 \in G
  <2> DEFINE j == i + 1
             p == c[j] * m[j]
  <2>1. j \in Taps /\ j \in 0..N /\ j - 1 = i /\ p \in Int
    BY <1>1
  <2>2. sum[j] = sum[i] + p /\ acc[j] = Wrap(acc[i] + Wrap(p))
    BY <1>2, <1>3, <2>1
  <2> HIDE DEF j, p
  <2>3. sum[i] \in Int /\ acc[i] = Wrap(sum[i])
    BY <1>5
  <2>4. Wrap(Wrap(sum[i]) + Wrap(p)) = Wrap(sum[i] + p)
    BY <2>1, <2>3, WrapSum
  <2>5. sum[j] \in Int /\ acc[j] = Wrap(sum[j])
    BY <2>1, <2>2, <2>3, <2>4
  <2> QED BY <2>1, <2>5 DEF j
<1> HIDE DEF G
<1>6. \A i \in 0..N : i \in G
  BY <1>1, <1>4, <1>5, EveryRound
<1>7. acc[N] = Wrap(sum[N])
  BY <1>1, <1>6 DEF G
<1> QED BY <1>2, <1>3, <1>7

(* The shift loop copies the latest sample into every tap. *)
LEMMA ShiftCopies ==
    ASSUME NEW m \in [Taps -> Int]
    PROVE  Shift(m) = [i \in Taps |-> m[1]]
<1> DEFINE N == FIR_FILTER_COEFF_NUM
           step == [i \in 1..N |-> [s \in [Taps -> Int] |-> IF i < 2 THEN m ELSE [s EXCEPT ![i] = s[i-1]]]]
           F(g) == [i \in {0} \cup Taps |-> IF i < 2 THEN m ELSE [g[i-1] EXCEPT ![i] = g[i-1][i-1]]]
           h == CHOOSE g : g = F(g)
<1>1. N \in Nat \ {0} /\ Taps = 1..N /\ {0} \cup Taps = 0..N
  BY TapsLemma
<1>2. ASSUME NEW i \in Taps, NEW s \in [Taps -> Int]
      PROVE  (IF i < 2 THEN m ELSE [s EXCEPT ![i] = s[i-1]]) \in [Taps -> Int]
  <2>1. i < 2 \/ i - 1 \in Taps
    BY <1>1
  <2> QED BY <2>1
<1>3. step \in [1..N -> [[Taps -> Int] -> [Taps -> Int]]]
  BY <1>1, <1>2
<1>4. PICK g \in [0..N -> [Taps -> Int]] : g[0] = m /\ \A i \in 1..N : g[i] = step[i][g[i-1]]
  <2> HIDE DEF step, N, F, h
  <2>1. N \in Nat
    BY <1>1
  <2>2. Runs(N, [Taps -> Int], m, step)
    BY <1>3, <2>1, LoopRuns, Zenon
  <2> QED BY <2>2, Zenon DEF Runs
<1>5. \A i \in Taps : g[i] = IF i < 2 THEN m ELSE [g[i-1] EXCEPT ![i] = g[i-1][i-1]]
  <2> SUFFICES ASSUME NEW i \in Taps
               PROVE  g[i] = IF i < 2 THEN m ELSE [g[i-1] EXCEPT ![i] = g[i-1][i-1]]
    OBVIOUS
  <2>1. i \in 1..N /\ i - 1 \in 0..N
    BY <1>1
  <2>2. g[i-1] \in [Taps -> Int] /\ g[i] = step[i][g[i-1]]
    BY <1>4, <2>1, Zenon
  <2> QED BY <2>1, <2>2, Zenon
<1> HIDE DEF N, step
<1>6. g = F(g)
  <2>1. g = [i \in 0..N |-> g[i]]
    BY <1>4, Zenon
  <2>2. ASSUME NEW i \in 0..N
        PROVE  g[i] = IF i < 2 THEN m ELSE [g[i-1] EXCEPT ![i] = g[i-1][i-1]]
    <3>1. i = 0 \/ i \in Taps
      BY <1>1
    <3>2. CASE i = 0
      <4>1. i < 2
        BY <3>2
      <4> QED BY <1>4, <3>2, <4>1, Zenon
    <3> QED BY <1>5, <3>1, <3>2, Zenon
  <2> QED BY <1>1, <2>1, <2>2, Zenon
<1>7. h = F(h)
  BY <1>6
<1>8. Shift(m) = h[N]
  BY DEF Shift, N
<1> HIDE DEF h
<1>9. h[0] = m /\ \A i \in Taps : h[i] = IF i < 2 THEN m ELSE [h[i-1] EXCEPT ![i] = h[i-1][i-1]]
  <2>1. \A i \in {0} \cup Taps : h[i] = IF i < 2 THEN m ELSE [h[i-1] EXCEPT ![i] = h[i-1][i-1]]
    BY <1>7, Zenon
  <2>2. 0 < 2
    OBVIOUS
  <2> QED BY <2>1, <2>2, Zenon
<1> DEFINE G == {i \in 0..N : h[i] \in [Taps -> Int] /\ \A j \in Taps : j <= i \/ j = 1 => h[i][j] = m[1]}
<1>10. 0 \in G
  BY <1>1, <1>9
<1>11. ASSUME NEW i \in 0..N-1, i \in G PROVE i + 1 \in G
  <2>1. i + 1 \in Taps /\ i + 1 - 1 = i
    BY <1>1
  <2>2. h[i+1] = IF i + 1 < 2 THEN m ELSE [h[i] EXCEPT ![i+1] = h[i][i]]
    <3> DEFINE j == i + 1
    <3>1. h[j] = IF j < 2 THEN m ELSE [h[j-1] EXCEPT ![j] = h[j-1][j-1]]
      BY <1>9, <2>1, Zenon
    <3>2. j - 1 = i
      BY <2>1
    <3> HIDE DEF j
    <3>3. h[j] = IF j < 2 THEN m ELSE [h[i] EXCEPT ![j] = h[i][i]]
      BY <3>1, <3>2, Zenon
    <3> QED BY <3>3 DEF j
  <2>3. h[i] \in [Taps -> Int] /\ \A j \in Taps : j <= i \/ j = 1 => h[i][j] = m[1]
    BY <1>11
  <2>4. CASE i + 1 < 2
    <3>1. h[i+1] = m /\ (\A j \in Taps : j <= i + 1 \/ j = 1 => j = 1) /\ i + 1 \in 0..N
      BY <1>1, <2>2, <2>4
    <3> QED BY <3>1, Zenon
  <2>5. CASE ~(i + 1 < 2)
    <3>1. i \in Taps /\ h[i][i] = m[1]
      BY <1>1, <2>3, <2>5
    <3>2. h[i+1] = [h[i] EXCEPT ![i+1] = m[1]]
      BY <2>2, <2>5, <3>1
    <3>3. m[1] \in Int
      BY <1>1
    <3>4. h[i+1] \in [Taps -> Int]
      BY <2>3, <3>2, <3>3
    <3>5. ASSUME NEW j \in Taps, j <= i + 1 \/ j = 1 PROVE h[i+1][j] = m[1]
      <4>1. CASE j = i + 1
        BY <2>3, <3>2, <4>1, Zenon
      <4>2. CASE j # i + 1
        <5>1. j <= i \/ j = 1
          BY <1>1, <3>5, <4>2
        <5>2. h[i+1][j] = h[i][j]
          BY <2>3, <3>2, <4>2, Zenon
        <5> QED BY <2>3, <5>1, <5>2
      <4> QED BY <4>1, <4>2
    <3> QED BY <2>1, <1>1, <3>4, <3>5
  <2> QED BY <2>4, <2>5
<1> HIDE DEF G
<1>12. \A i \in 0..N : i \in G
  BY <1>1, <1>10, <1>11, EveryRound
<1>13. h[N] \in [Taps -> Int] /\ \A j \in Taps : h[N][j] = m[1]
  BY <1>1, <1>12, SMTT(30) DEF G
<1> QED BY <1>8, <1>13

LEMMA CoefficientsAreInts == Coefficients \in [Taps -> Int]
<1> DEFINE Float == [negative : BOOLEAN, exp : 1 - Width..0, fraction : 0..2^Fraction - 1]
           coeff == IF filter = 0 THEN easy ELSE hard
<1>1. Len(coeff) = FIR_FILTER_COEFF_NUM /\ coeff \in Seq(Float)
  BY FirAssumption, Zenon
<1> HIDE DEF Float, coeff
<1>2. ASSUME NEW i \in Taps PROVE float_to_fixed23(coeff[i]) \in Int
  <2> DEFINE f == coeff[i]
             n == 2^Fraction + f.fraction
             d == 2^(-f.exp)
             fixed == n \div d
  <2>1. coeff[i] \in Float
    BY <1>1, TapsLemma
  <2>2. f.fraction \in 0..2^Fraction - 1 /\ -f.exp \in Nat /\ Fraction \in Nat
    BY <2>1, FirAssumption DEF Float
  <2>3. 2^Fraction \in Nat /\ d \in Nat \ {0}
    BY <2>2, PowerOfTwo
  <2> HIDE DEF d
  <2>4. n \in Int
    BY <2>2, <2>3
  <2> HIDE DEF n
  <2>10. n \div d \in Int
    BY <2>3, <2>4, Remainder
  <2>5. fixed \in Int /\ -fixed \in Int
    BY <2>10
  <2> HIDE DEF fixed
  <2>6. Wrap(fixed) \in Int /\ Wrap(-fixed) \in Int
    BY <2>5, WrapIs
  <2>7. float_to_fixed23(f) = Wrap(IF f.negative THEN -fixed ELSE fixed)
    BY Zenon DEF float_to_fixed23, fixed, n, d
  <2>8. CASE f.negative
    BY <2>6, <2>7, <2>8, Zenon
  <2>9. CASE ~f.negative
    BY <2>6, <2>7, <2>9, Zenon
  <2> QED BY <2>8, <2>9
<1>3. Coefficients = [i \in Taps |-> float_to_fixed23(coeff[i])]
  BY Zenon DEF Coefficients, coeff
<1> QED BY <1>2, <1>3

(* What the loop computes from the memory it finds. *)
LEMMA FilterStep ==
    ASSUME FirInv, NEW data \in Data, fir_filter_fixed(data)
    PROVE  /\ FirInv'
           /\ average' = Convolution(Coefficients,
                             [i \in Taps |-> IF i = 1 THEN past'[1] ELSE past'[2]])
<1> DEFINE m == [memory EXCEPT ![1] = data]
           x == [i \in Taps |-> IF i = 1 THEN past'[1] ELSE past'[2]]
<1>1. 1 \in Taps /\ data \in Int
  BY TapsLemma, FirAssumption
<1>2. memory \in [Taps -> Int] /\ past \in [Taps -> Int] /\ \A i \in Taps : memory[i] = past[1]
  BY <1>1 DEF FirInv
<1>3. /\ average' = Accumulate(Coefficients, m) /\ memory' = Shift(m) /\ filter' = filter
      /\ past' = [i \in Taps |-> IF i = 1 THEN data ELSE past[i-1]]
  BY DEF fir_filter_fixed
<1>4. m \in [Taps -> Int] /\ m[1] = data
  BY <1>1, <1>2
<1>5. past' \in [Taps -> Int] /\ past'[1] = data
  <2>1. ASSUME NEW i \in Taps, i # 1 PROVE past[i-1] \in Int
    <3>1. i - 1 \in Taps
      BY <2>1, TapsLemma
    <3> QED BY <1>2, <3>1
  <2> QED BY <1>1, <1>3, <2>1
<1>6. m = x
  <2>1. ASSUME NEW i \in Taps PROVE m[i] = x[i]
    <3>1. CASE i = 1
      BY <1>1, <1>4, <1>5, <3>1
    <3>2. CASE i # 1
      <4>1. 2 \in Taps /\ past'[2] = past[2-1]
        BY <1>3, <3>2, TapsLemma
      <4>2. m[i] = past[1] /\ x[i] = past'[2]
        BY <1>2, <3>2
      <4> QED BY <4>1, <4>2
    <3> QED BY <3>1, <3>2
  <2>2. m = [i \in Taps |-> m[i]]
    BY <1>4
  <2> HIDE DEF m
  <2> QED BY <2>1, <2>2
<1>7. average' = Convolution(Coefficients, x)
  <2>1. Accumulate(Coefficients, m) = Convolution(Coefficients, m)
    BY <1>4, CoefficientsAreInts, AccumulateIsConvolution
  <2> QED BY <1>3, <1>6, <2>1
<1>8. memory' = [i \in Taps |-> past'[1]]
  <2>1. Shift(m) = [i \in Taps |-> m[1]]
    BY <1>4, ShiftCopies
  <2> QED BY <1>3, <1>4, <1>5, <2>1
<1>9. FirInv'
  BY <1>3, <1>5, <1>8 DEF FirInv
<1> QED BY <1>7, <1>9

LEMMA InitFir == Init => FirInv
  BY TapsLemma DEF Init, FirInv

LEMMA StepKeepsFir ==
    FirInv /\ [Next]_vars =>
        /\ FirInv'
        /\ past' # past => average' = Convolution(Coefficients,
                               [i \in Taps |-> IF i = 1 THEN past'[1] ELSE past'[2]])
<1> SUFFICES ASSUME FirInv, [Next]_vars
             PROVE  /\ FirInv'
                    /\ past' # past => average' = Convolution(Coefficients,
                                           [i \in Taps |-> IF i = 1 THEN past'[1] ELSE past'[2]])
  OBVIOUS
<1>1. ASSUME NEW data \in Data, fir_filter_fixed(data)
      PROVE  /\ FirInv'
             /\ past' # past => average' = Convolution(Coefficients,
                                    [i \in Taps |-> IF i = 1 THEN past'[1] ELSE past'[2]])
  BY <1>1, FilterStep
<1>2. ASSUME NEW f \in {0, 1}, SetDifficulty(f)
      PROVE  FirInv' /\ past' = past
  BY <1>2 DEF SetDifficulty, FirInv
<1>3. CASE UNCHANGED vars
  BY <1>3 DEF vars, FirInv
<1> QED BY <1>1, <1>2, <1>3 DEF Next

(* For every number of taps, width, fraction and set of coefficients: the     *)
(* filter has two taps, and its 32-bit arithmetic is exact but for one wrap    *)
(* at the end (main.c:132-148).                                                *)
THEOREM FilterHasTwoTaps == Spec => TwoTaps
<1>1. FirInv /\ [Next]_vars =>
          (past' # past => average' = Convolution(Coefficients,
                               [i \in Taps |-> IF i = 1 THEN past'[1] ELSE past'[2]]))
  BY StepKeepsFir
<1>2. FirInv /\ [Next]_vars => FirInv'
  BY StepKeepsFir
<1> QED BY <1>1, <1>2, InitFir, PTL DEF Spec, TwoTaps
---------------------------------------------------------------------------
(* The arithmetic of the emulation. *)

LEMMA RegisterWidth ==
    /\ 2^W \in Nat \ {0} /\ 2^(W-1) \in Nat \ {0} /\ 2^W = 2 * 2^(W-1)
    /\ W \in Nat \ {0} /\ Word = 0..2^W - 1
<1>1. W \in Nat \ {0} /\ W - 1 \in Nat /\ W - 1 + 1 = W
  BY ExceptionsAssumption
<1> QED BY <1>1, PowerOfTwo DEF Word

(* i rounds from one end meet the rest from the other. *)
LEMMA PowersMeet == \A i \in 0..W : 2^i * 2^(W-i) = 2^W /\ 2^i \in Nat \ {0} /\ 2^(W-i) \in Nat \ {0}
<1> DEFINE G == {i \in 0..W : 2^i * 2^(W-i) = 2^W}
<1>1. W \in Nat
  BY RegisterWidth
<1>2. 0 \in G
  <2>1. 0 \in 0..W /\ W - 0 = W /\ 2^0 = 1 /\ 2^W \in Nat
    BY <1>1, RegisterWidth
  <2> QED BY <2>1
<1>3. ASSUME NEW i \in 0..W-1, i \in G PROVE i + 1 \in G
  <2>1. i \in Nat /\ W - (i + 1) \in Nat /\ W - (i + 1) + 1 = W - i /\ i + 1 \in 0..W
    BY <1>1
  <2> DEFINE p == 2^i
             t == 2^(W - (i + 1))
  <2>2. p \in Nat /\ t \in Nat /\ 2^(i + 1) = 2 * p /\ 2^(W-i) = 2 * t
    BY <2>1, PowerOfTwo
  <2>3. p * (2 * t) = 2^W
    BY <1>3, <2>2
  <2> HIDE DEF p, t
  <2>4. (2 * p) * t = p * (2 * t)
    BY <2>2
  <2>5. 2^(i + 1) * 2^(W - (i + 1)) = 2^W
    BY <2>2, <2>3, <2>4 DEF t
  <2> QED BY <2>1, <2>5
<1> HIDE DEF G
<1>4. \A i \in 0..W : i \in G
  BY <1>1, <1>2, <1>3, EveryRound
<1>5. ASSUME NEW i \in 0..W PROVE i \in Nat /\ W - i \in Nat
  BY <1>1
<1> QED BY <1>4, <1>5, PowerOfTwo DEF G

(* LowBits keeps its argument but for a multiple of 2^W. *)
LEMMA LowBitsIs ==
    ASSUME NEW v \in Int
    PROVE  LowBits(v) \in Word /\ LowBits(v) \in Int
<1> DEFINE M == 2^W
<1>1. M \in Nat \ {0} /\ Word = 0..M-1
  BY RegisterWidth
<1> HIDE DEF M
<1>2. v % M \in 0..M-1
  BY <1>1, Remainder
<1> QED BY <1>1, <1>2 DEF LowBits, M

LEMMA LowBitsOfSum ==
    ASSUME NEW r \in Word, NEW k \in Int
    PROVE  LowBits(2^W * k + r) = r /\ LowBits(r) = r
<1> DEFINE M == 2^W
<1>1. M \in Nat \ {0} /\ r \in 0..M-1
  BY RegisterWidth
<1> HIDE DEF M
<1>2. (M * k + r) % M = r
  BY <1>1, OneRemainder
<1>3. (M * 0 + r) % M = r
  BY <1>1, OneRemainder
<1>4. M * 0 + r = r
  BY <1>1
<1> QED BY <1>2, <1>3, <1>4 DEF LowBits, M

LEMMA LowBitsMore ==
    ASSUME NEW v \in Int, NEW k \in Int
    PROVE  LowBits(v + 2^W * k) = LowBits(v)
  BY RegisterWidth, SameRemainder DEF LowBits

LEMMA LowBitsLess ==
    ASSUME NEW v \in Int
    PROVE  \E k \in Int : LowBits(v) = v + 2^W * k
<1> DEFINE M == 2^W
           q == v \div M
           r == v % M
<1>1. M \in Nat \ {0}
  BY RegisterWidth
<1> HIDE DEF M
<1>2. q \in Int /\ r \in 0..M-1 /\ v = M * q + r
  BY <1>1, Remainder
<1> HIDE DEF q
<1>3. LowBits(v) = r
  BY DEF LowBits, M
<1> HIDE DEF r
<1>4. r = v + M * (0 - q) /\ 0 - q \in Int
  <2>1. M * (0 - q) = 0 - M * q
    BY <1>1, <1>2
  <2> QED BY <1>1, <1>2, <2>1
<1> QED BY <1>3, <1>4 DEF M

(* A reduction on the way does not show at the end. *)
LEMMA LowBitsInside ==
    ASSUME NEW a \in Int, NEW b \in Int, NEW n \in Int
    PROVE  LowBits(n * LowBits(a) + b) = LowBits(n * a + b)
<1> DEFINE M == 2^W
<1>1. PICK k \in Int : LowBits(a) = a + M * k
  BY LowBitsLess
<1>2. M \in Nat
  BY RegisterWidth
<1> HIDE DEF M
<1>3. n * (a + M * k) + b = (n * a + b) + M * (n * k) /\ n * k \in Int /\ n * a + b \in Int
  BY <1>2
<1>4. LowBits((n * a + b) + M * (n * k)) = LowBits(n * a + b)
  BY <1>3, LowBitsMore DEF M
<1> QED BY <1>1, <1>3, <1>4

---------------------------------------------------------------------------
(* A register shifted left. *)

LEMMA HalfWidth ==
    ASSUME NEW p \in Nat \ {0}, NEW t \in Nat \ {0}, NEW H \in Nat, p * (2 * t) = 2 * H
    PROVE  p * t = H /\ t * p = H /\ p <= H
<1>1. p * (2 * t) = 2 * (p * t) /\ p * t \in Nat /\ p * t = t * p
  OBVIOUS
<1>2. p * t = p + p * (t - 1) /\ p * (t - 1) >= 0
  OBVIOUS
<1> DEFINE pt == p * t
           pt1 == p * (t - 1)
<1>3. p * (2 * t) = 2 * pt /\ pt \in Nat /\ pt = t * p /\ pt = p + pt1 /\ pt1 >= 0 /\ pt1 \in Int
  BY <1>1, <1>2
<1>4. pt = p * t
  OBVIOUS
<1> HIDE DEF pt, pt1
<1>5. pt = H /\ p <= pt
  BY <1>3
<1> QED BY <1>3, <1>4, <1>5

(* The highest digit of a register whose value is lo above a number q below   *)
(* p, and the register shifted left.                                          *)
TopDigit(lo, q, p, t) ==
    \E b \in {0, 1}, l \in Nat :
        /\ l < t /\ lo = l + b * t
        /\ Msb(lo * p + q) <=> b = 1
        /\ LowBits(2 * (lo * p + q)) = l * (2 * p) + 2 * q /\ l * (2 * p) + 2 * q + 1 \in Word

LEMMA ShiftLeft ==
    ASSUME NEW p \in Nat \ {0}, NEW t \in Nat \ {0}, p * (2 * t) = 2^W,
           NEW lo \in Nat, lo < 2 * t, NEW q \in Nat, q < p
    PROVE  TopDigit(lo, q, p, t)
<1> DEFINE M == 2^W
           H == 2^(W-1)
<1>1. /\ M \in Nat \ {0} /\ H \in Nat /\ M = 2 * H /\ p * (2 * t) = M
      /\ Word = 0..M-1
  BY RegisterWidth
<1> HIDE DEF M, H
<1>3. p * t = H /\ H \in Nat /\ t * p = H /\ p <= H
  BY <1>1, HalfWidth
<1> DEFINE b == IF lo >= t THEN 1 ELSE 0
           l == lo - b * t
<1>4. /\ b \in {0, 1} /\ l \in Nat /\ l < t /\ lo = l + b * t
  OBVIOUS
<1>5. lo * p = l * p + b * H /\ l * p \in Nat /\ l * p + p <= H
  <2> HIDE DEF b, l
  <2>1. lo * p = l * p + (b * t) * p /\ l * p \in Nat
    BY <1>4
  <2>2. (b * t) * p = b * H
    BY <1>3, <1>4
  <2>3. H = l * p + p + (t - l - 1) * p /\ (t - l - 1) * p \in Nat
    <3>1. t - l - 1 \in Nat /\ t = l + 1 + (t - l - 1)
      BY <1>4
    <3> HIDE DEF b, l
    <3>2. (t - l - 1) * p \in Nat
      BY <3>1
    <3>3. (l + 1 + (t - l - 1)) * p = l * p + p + (t - l - 1) * p
      BY <1>4
    <3> QED BY <1>3, <3>1, <3>2, <3>3
  <2> DEFINE lp == l * p
             rest == (t - l - 1) * p
  <2>4. H = lp + p + rest /\ rest \in Nat /\ lp \in Nat
    BY <2>1, <2>3
  <2> HIDE DEF rest, lp
  <2>5. lp + p <= H
    BY <2>4
  <2> QED BY <2>1, <2>2, <2>5 DEF lp
<1> DEFINE lp == l * p
           lop == lo * p
<1>6. lop = lp + b * H /\ lp \in Nat /\ lp + p <= H /\ l * (2 * p) = 2 * lp /\ lop \in Nat
  BY <1>4, <1>5
<1> HIDE DEF lp, lop, l
<1>7. Msb(lop + q) <=> b = 1
  <2>1. lop + q >= H <=> b = 1
    BY <1>3, <1>4, <1>6
  <2> QED BY <2>1 DEF Msb, H
<1>8. LowBits(2 * (lop + q)) = 2 * lp + 2 * q /\ 2 * lp + 2 * q + 1 \in Word
  <2>1. 2 * (lop + q) = M * b + (2 * lp + 2 * q)
    BY <1>1, <1>4, <1>6
  <2>2. 2 * lp + 2 * q \in 0..M-1 /\ 2 * lp + 2 * q + 1 \in 0..M-1
    BY <1>1, <1>3, <1>6
  <2>3. b \in Int /\ 2 * lp + 2 * q \in Word
    BY <1>1, <1>4, <2>2
  <2> HIDE DEF b
  <2>4. LowBits(M * b + (2 * lp + 2 * q)) = 2 * lp + 2 * q
    BY <2>3, LowBitsOfSum DEF M
  <2> QED BY <1>1, <2>1, <2>2, <2>4
<1> HIDE DEF b
<1>9. /\ Msb(lo * p + q) <=> b = 1
      /\ LowBits(2 * (lo * p + q)) = l * (2 * p) + 2 * q /\ l * (2 * p) + 2 * q + 1 \in Word
  BY <1>6, <1>7, <1>8 DEF lop
<1> QED BY <1>4, <1>9, Zenon DEF TopDigit

---------------------------------------------------------------------------
(* Division. *)

(* What the rounds leave of a division of x by y when p is 2 to the number of *)
(* rounds done and t of those to do: the digits hi of x brought in so far,    *)
(* divided, and the digits lo to come, above the quotient q.                  *)
Division(x, y, p, t, s) ==
    \E hi \in Nat, q \in Nat, rem \in Nat, lo \in Nat :
        /\ lo < t /\ q < p /\ rem < p /\ rem < y
        /\ x = hi * t + lo /\ hi = q * y + rem
        /\ s = [rem |-> rem, quo |-> lo * p + q]

LEMMA DivisionRound ==
    ASSUME NEW x \in Word, NEW y \in Nat \ {0}, NEW p \in Nat \ {0}, NEW t \in Nat \ {0}, NEW s,
           p * (2 * t) = 2^W, Division(x, y, p, 2 * t, s)
    PROVE  Division(x, y, 2 * p, t, DivideRound(y, s))
<1> DEFINE M == 2^W
           H == 2^(W-1)
<1>1. /\ M \in Nat \ {0} /\ H \in Nat /\ M = 2 * H /\ p * (2 * t) = M
      /\ Word = 0..M-1
  BY RegisterWidth
<1>2. PICK hi \in Nat, q \in Nat, rem \in Nat, lo \in Nat :
          /\ lo < 2 * t /\ q < p /\ rem < p /\ rem < y
          /\ x = hi * (2 * t) + lo /\ hi = q * y + rem
          /\ s = [rem |-> rem, quo |-> lo * p + q]
  BY DEF Division
<1> HIDE DEF M, H
<1>3. p <= H
  BY <1>1, HalfWidth
<1>4. PICK b \in {0, 1}, l \in Nat :
          /\ l < t /\ lo = l + b * t
          /\ Msb(lo * p + q) <=> b = 1
          /\ LowBits(2 * (lo * p + q)) = l * (2 * p) + 2 * q /\ l * (2 * p) + 2 * q + 1 \in Word
  <2>1. TopDigit(lo, q, p, t)
    BY <1>2, ShiftLeft
  <2> QED BY <2>1 DEF TopDigit
<1> DEFINE d == 2 * rem + b
<1>5. s.quo = lo * p + q /\ s.rem = rem /\ d \in Nat
  BY <1>2
<1>6. l < t /\ l \in Nat /\ d \in Nat
  BY <1>4, <1>5
<1>8. LowBits(2 * s.rem + IF Msb(s.quo) THEN 1 ELSE 0) = d
  <2>1. 2 * s.rem + (IF Msb(s.quo) THEN 1 ELSE 0) = d
    BY <1>4, <1>5
  <2>2. d \in 0..M-1
    BY <1>1, <1>2, <1>3, <1>4
  <2> HIDE DEF d
  <2>3. LowBits(d) = d
    BY <1>1, <2>2, LowBitsOfSum
  <2> QED BY <2>1, <2>3
<1>9. DivideRound(y, s) = IF d < y THEN [rem |-> d, quo |-> l * (2 * p) + 2 * q]
                          ELSE [rem |-> d - y, quo |-> l * (2 * p) + 2 * q + 1]
  <2>1. LowBits(2 * s.quo) = l * (2 * p) + 2 * q
    BY <1>4, <1>5
  <2> HIDE DEF d
  <2> QED BY <1>8, <2>1 DEF DivideRound
<1>10. d < 2 * y /\ d < 2 * p
  BY <1>2, <1>4
<1>11. x = (2 * hi + b) * t + l
  <2> HIDE DEF d
  <2>1. hi * (2 * t) = (2 * hi) * t /\ (2 * hi + b) * t = (2 * hi) * t + b * t
    BY <1>4
  <2> QED BY <1>2, <1>4, <2>1
<1>12. 2 * hi + b = (2 * q) * y + d
  <2>1. (2 * q) * y = 2 * (q * y)
    OBVIOUS
  <2> QED BY <1>2, <1>4, <2>1
<1>13. (2 * q + 1) * y = (2 * q) * y + y
  OBVIOUS
<1> HIDE DEF d
<1>14. CASE d < y
  <2> DEFINE h2 == 2 * hi + b
             q2 == 2 * q
  <2>1. h2 \in Nat /\ q2 \in Nat /\ q2 < 2 * p
    BY <1>2, <1>4
  <2>2. h2 = q2 * y + d /\ x = h2 * t + l
    BY <1>11, <1>12
  <2>3. DivideRound(y, s) = [rem |-> d, quo |-> l * (2 * p) + q2]
    BY <1>9, <1>14
  <2> HIDE DEF h2, q2
  <2> QED BY <1>6, <1>10, <1>14, <2>1, <2>2, <2>3, ZenonT(60) DEF Division
<1>15. CASE ~(d < y)
  <2> DEFINE h2 == 2 * hi + b
             q2 == 2 * q + 1
             r2 == d - y
  <2>1. h2 \in Nat /\ q2 \in Nat /\ q2 < 2 * p /\ r2 \in Nat /\ r2 < y /\ r2 < 2 * p
    BY <1>2, <1>4, <1>5, <1>10, <1>15
  <2>2. h2 = q2 * y + r2 /\ x = h2 * t + l
    BY <1>4, <1>5, <1>11, <1>12, <1>13
  <2>3. DivideRound(y, s) = [rem |-> r2, quo |-> l * (2 * p) + q2]
    BY <1>4, <1>9, <1>15
  <2> HIDE DEF h2, q2, r2
  <2> QED BY <1>6, <2>1, <2>2, <2>3, ZenonT(60) DEF Division
<1> QED BY <1>14, <1>15

LEMMA DivideRuns ==
    ASSUME NEW x \in Int, NEW y \in Int
    PROVE  \E h : /\ h[0] = [rem |-> 0, quo |-> x] /\ \A i \in 1..W : h[i] = DivideRound(y, h[i-1])
                  /\ Divide(x, y) = h[W].quo
<1> DEFINE S == [rem : Int, quo : Int]
           base == [rem |-> 0, quo |-> x]
           step == [i \in 1..W |-> [s \in S |-> DivideRound(y, s)]]
           F(g) == [i \in 0..W |-> IF i = 0 THEN [rem |-> 0, quo |-> x] ELSE DivideRound(y, g[i-1])]
           h == CHOOSE g : g = F(g)
<1>1. W \in Nat
  BY RegisterWidth
<1>2. ASSUME NEW s \in S PROVE DivideRound(y, s) \in S
  <2> DEFINE r == LowBits(2 * s.rem + IF Msb(s.quo) THEN 1 ELSE 0)
             q == LowBits(2 * s.quo)
  <2>1. 2 * s.rem + (IF Msb(s.quo) THEN 1 ELSE 0) \in Int /\ 2 * s.quo \in Int
    OBVIOUS
  <2>2. r \in Int /\ q \in Int
    BY <2>1, LowBitsIs
  <2>3. DivideRound(y, s) = IF r < y THEN [rem |-> r, quo |-> q] ELSE [rem |-> r - y, quo |-> q + 1]
    BY Zenon DEF DivideRound
  <2> HIDE DEF r, q
  <2>4. r - y \in Int /\ q + 1 \in Int
    BY <2>2
  <2> QED BY <2>2, <2>3, <2>4
<1>3. step \in [1..W -> [S -> S]]
  BY <1>2
<1>4. base \in S
  OBVIOUS
<1>5. PICK g \in [0..W -> S] : g[0] = base /\ \A i \in 1..W : g[i] = step[i][g[i-1]]
  <2> HIDE DEF step, F, h, S, base
  <2>1. Runs(W, S, base, step)
    BY <1>1, <1>3, <1>4, LoopRuns, Zenon
  <2> QED BY <2>1, Zenon DEF Runs
<1>6. \A i \in 1..W : g[i] = DivideRound(y, g[i-1])
  <2> SUFFICES ASSUME NEW i \in 1..W PROVE g[i] = DivideRound(y, g[i-1])
    OBVIOUS
  <2>1. i - 1 \in 0..W
    BY <1>1
  <2> HIDE DEF S
  <2>2. g[i-1] \in S
    BY <2>1
  <2> QED BY <1>5, <2>2
<1> HIDE DEF step, S
<1>7. g = F(g)
  BY <1>1, <1>5, <1>6
<1>8. h = F(h)
  BY <1>7
<1>9. Divide(x, y) = h[W].quo
  BY DEF Divide
<1> HIDE DEF h
<1>10. h[0] = [rem |-> 0, quo |-> x] /\ \A i \in 1..W : h[i] = DivideRound(y, h[i-1])
  BY <1>1, <1>8
<1> QED BY <1>9, <1>10

(* The loop computes the quotient. *)
LEMMA DivideExact ==
    ASSUME NEW x \in Word, NEW y \in Nat \ {0}
    PROVE  Divide(x, y) = x \div y /\ Divide(x, y) \in Word
<1>1. W \in Nat \ {0} /\ 2^W \in Nat \ {0} /\ x \in Nat /\ x < 2^W /\ x \in Int /\ y \in Int /\ Word = 0..2^W - 1
  BY RegisterWidth
<1>2. PICK h : /\ h[0] = [rem |-> 0, quo |-> x] /\ \A i \in 1..W : h[i] = DivideRound(y, h[i-1])
               /\ Divide(x, y) = h[W].quo
  BY <1>1, DivideRuns, Zenon
<1> DEFINE G == {i \in 0..W : Division(x, y, 2^i, 2^(W-i), h[i])}
<1>3. 0 \in G
  <2>1. 2^0 = 1 /\ W - 0 = W /\ 0 \in 0..W
    BY <1>1
  <2>2. h[0] = [rem |-> 0, quo |-> x * 1 + 0] /\ x = 0 * 2^W + x /\ 0 = 0 * y + 0 /\ 0 < 1 /\ 0 < y
    BY <1>1, <1>2
  <2>3. Division(x, y, 1, 2^W, h[0])
    BY <1>1, <2>2 DEF Division
  <2> QED BY <2>1, <2>3
<1>4. ASSUME NEW i \in 0..W-1, i \in G PROVE i + 1 \in G
  <2>1. /\ i \in Nat /\ i \in 0..W /\ i + 1 \in 0..W /\ i + 1 \in 1..W /\ i + 1 - 1 = i
        /\ W - (i + 1) \in Nat /\ W - (i + 1) + 1 = W - i
    BY <1>1
  <2>2. /\ 2^i \in Nat \ {0} /\ 2^(W - (i + 1)) \in Nat \ {0} /\ 2^(i + 1) = 2 * 2^i
        /\ 2^(W - i) = 2 * 2^(W - (i + 1)) /\ 2^i * 2^(W - i) = 2^W
    BY <2>1, PowerOfTwo, PowersMeet
  <2>3. Division(x, y, 2^i, 2 * 2^(W - (i + 1)), h[i]) /\ 2^i * (2 * 2^(W - (i + 1))) = 2^W
    BY <1>4, <2>2
  <2>4. h[i + 1] = DivideRound(y, h[i])
    BY <1>2, <2>1
  <2> DEFINE p == 2^i
             t == 2^(W - (i + 1))
  <2> HIDE DEF p, t
  <2>5. Division(x, y, 2 * p, t, DivideRound(y, h[i]))
    BY <2>2, <2>3, DivisionRound DEF p, t
  <2> QED BY <2>1, <2>2, <2>4, <2>5 DEF p, t
<1> HIDE DEF G
<1>5. \A i \in 0..W : i \in G
  BY <1>1, <1>3, <1>4, EveryRound
<1>6. Division(x, y, 2^W, 1, h[W])
  <2>1. W \in 0..W /\ W - W = 0 /\ 2^0 = 1
    BY <1>1
  <2> QED BY <1>5, <2>1 DEF G
<1>7. PICK hi \in Nat, q \in Nat, rem \in Nat, lo \in Nat :
          /\ lo < 1 /\ q < 2^W /\ rem < y
          /\ x = hi * 1 + lo /\ hi = q * y + rem
          /\ h[W] = [rem |-> rem, quo |-> lo * 2^W + q]
  BY <1>6 DEF Division
<1>8. lo = 0 /\ x = q * y + rem
  BY <1>7
<1>9. h[W].quo = q
  BY <1>1, <1>7, <1>8
<1>10. x = y * q + rem /\ rem \in 0..y-1 /\ q \in Int
  BY <1>7, <1>8
<1>11. x \div y = q
  BY <1>10, OneRemainder
<1>12. q \in Word
  BY <1>1, <1>7
<1> QED BY <1>2, <1>9, <1>11, <1>12

---------------------------------------------------------------------------
(* Multiplication. *)

(* The low half of x * y when the multiplier's digits hi are done, from its   *)
(* high end, and the digits lo are still to come, at the top of left.          *)
HighFirst(x, y, p, t, mul, left) ==
    \E hi \in Nat, lo \in Nat :
        /\ lo < t /\ y = hi * t + lo
        /\ left = lo * p /\ mul = LowBits(x * hi)

(* Its high half when the digits low are done, from the other end: what falls *)
(* out of it is rest.                                                          *)
LowFirst(x, y, p, mulxuu, right) ==
    \E low \in Nat, rest \in Nat :
        /\ low < p /\ rest < p /\ right \in Nat /\ mulxuu \in Word
        /\ y = right * p + low /\ x * low = mulxuu * p + rest

LEMMA HighRound ==
    ASSUME NEW x \in Word, NEW y \in Word, NEW p \in Nat \ {0}, NEW t \in Nat \ {0},
           NEW mul, NEW left, p * (2 * t) = 2^W, HighFirst(x, y, p, 2 * t, mul, left)
    PROVE  HighFirst(x, y, 2 * p, t, LowBits(2 * mul + IF Msb(left) THEN x ELSE 0), LowBits(2 * left))
<1>1. PICK hi \in Nat, lo \in Nat :
          /\ lo < 2 * t /\ y = hi * (2 * t) + lo
          /\ left = lo * p /\ mul = LowBits(x * hi)
  BY DEF HighFirst
<1>2. x \in Nat
  BY RegisterWidth
<1>3. PICK b \in {0, 1}, l \in Nat :
          /\ l < t /\ lo = l + b * t
          /\ Msb(lo * p + 0) <=> b = 1
          /\ LowBits(2 * (lo * p + 0)) = l * (2 * p) + 2 * 0
  <2>1. 0 \in Nat /\ 0 < p
    OBVIOUS
  <2>2. TopDigit(lo, 0, p, t)
    BY <1>1, <2>1, ShiftLeft
  <2> QED BY <2>2 DEF TopDigit
<1>4. lo * p + 0 = left /\ l * (2 * p) + 2 * 0 = l * (2 * p)
  BY <1>1
<1> DEFINE h2 == 2 * hi + b
<1>5. h2 \in Nat /\ y = h2 * t + l
  <2>1. hi * (2 * t) = (2 * hi) * t /\ (2 * hi + b) * t = (2 * hi) * t + b * t
    OBVIOUS
  <2> QED BY <1>1, <1>3, <2>1
<1>6. LowBits(2 * mul + IF Msb(left) THEN x ELSE 0) = LowBits(x * h2)
  <2>1. (IF Msb(left) THEN x ELSE 0) = b * x
    BY <1>2, <1>3, <1>4
  <2>2. x * hi \in Int /\ b * x \in Int /\ x * h2 = 2 * (x * hi) + b * x
    BY <1>2
  <2> HIDE DEF h2
  <2>3. LowBits(2 * LowBits(x * hi) + b * x) = LowBits(2 * (x * hi) + b * x)
    <3> DEFINE a == x * hi
               c == b * x
    <3>1. a \in Int /\ c \in Int /\ 2 \in Int
      BY <2>2
    <3> HIDE DEF a, c
    <3>2. LowBits(2 * LowBits(a) + c) = LowBits(2 * a + c)
      BY <3>1, LowBitsInside
    <3> QED BY <3>2 DEF a, c
  <2> QED BY <1>1, <2>1, <2>2, <2>3
<1> HIDE DEF h2
<1>7. LowBits(2 * left) = l * (2 * p)
  BY <1>3, <1>4
<1> QED BY <1>3, <1>5, <1>6, <1>7, Zenon DEF HighFirst

(* One digit of the other end: the sum may carry out of the register, and the *)
(* shift brings the carry back in.                                             *)
Halved(x, u, b) == IF b = 1 THEN LowBits(u + x) \div 2 + (IF LowBits(u + x) < x THEN 2^(W-1) ELSE 0)
                   ELSE u \div 2

LEMMA CarryComesBack ==
    ASSUME NEW x \in Word, NEW u \in Word, NEW b \in {0, 1}
    PROVE  /\ Halved(x, u, b) \in Word
           /\ \E e \in {0, 1} : u + b * x = 2 * Halved(x, u, b) + e
<1> DEFINE M == 2^W
           H == 2^(W-1)
<1>1. M \in Nat \ {0} /\ H \in Nat /\ M = 2 * H /\ Word = 0..M-1
  BY RegisterWidth
<1>2. x \in Nat /\ u \in Nat /\ x < M /\ u < M
  BY <1>1
<1>3. CASE b = 0
  BY <1>1, <1>2, <1>3 DEF Halved
<1>4. CASE b = 1 /\ u + x < M
  <2>1. u + x \in Word
    BY <1>1, <1>2, <1>4
  <2>2. LowBits(u + x) = u + x /\ ~(u + x < x)
    BY <1>2, <2>1, LowBitsOfSum
  <2>3. Halved(x, u, b) = (u + x) \div 2
    BY <1>2, <1>4, <2>2 DEF Halved
  <2> HIDE DEF M, H
  <2> QED BY <1>1, <1>2, <1>4, <2>3
<1>5. CASE b = 1 /\ ~(u + x < M)
  <2> DEFINE r == u + x - M
  <2> HIDE DEF M, H
  <2>1. r \in 0..M-1 /\ r \in Nat /\ u + x = M * 1 + r /\ r < x
    BY <1>1, <1>2, <1>5
  <2>2. LowBits(u + x) = r
    BY <1>1, <2>1, LowBitsOfSum, SMTT(30) DEF M
  <2>3. Halved(x, u, b) = r \div 2 + H
    BY <1>5, <2>1, <2>2 DEF Halved, H
  <2>4. r = 2 * (r \div 2) + (r % 2) /\ r \div 2 \in Nat /\ r % 2 \in {0, 1}
    BY <2>1
  <2>5. u + b * x = 2 * Halved(x, u, b) + (r % 2)
    BY <1>1, <1>2, <1>5, <2>1, <2>3, <2>4
  <2>6. Halved(x, u, b) \in 0..M-1
    BY <1>1, <1>2, <1>5, <2>3, <2>4
  <2> QED BY <1>1, <2>4, <2>5, <2>6
<1> QED BY <1>3, <1>4, <1>5

LEMMA LowRound ==
    ASSUME NEW x \in Word, NEW y \in Word, NEW p \in Nat \ {0}, NEW u, NEW r, LowFirst(x, y, p, u, r)
    PROVE  LowFirst(x, y, 2 * p, Halved(x, u, r % 2), r \div 2)
<1>1. PICK low \in Nat, rest \in Nat :
          /\ low < p /\ rest < p /\ r \in Nat /\ u \in Word
          /\ y = r * p + low /\ x * low = u * p + rest
  BY DEF LowFirst
<1> DEFINE b == r % 2
           r2 == r \div 2
           u2 == Halved(x, u, b)
<1>2. b \in {0, 1} /\ r2 \in Nat /\ r = 2 * r2 + b
  BY <1>1
<1>3. x \in Nat /\ u \in Nat
  BY <1>1, RegisterWidth
<1> HIDE DEF b, r2
<1>4. PICK e \in {0, 1} : u + b * x = 2 * u2 + e /\ u2 \in Word
  BY <1>1, <1>2, CarryComesBack
<1>5. u2 \in Nat
  BY <1>4, RegisterWidth
<1> HIDE DEF u2
<1> DEFINE low2 == b * p + low
           rest2 == e * p + rest
<1>6. low2 \in Nat /\ low2 < 2 * p /\ rest2 \in Nat /\ rest2 < 2 * p
  BY <1>1, <1>2
<1>7. y = r2 * (2 * p) + low2
  <2>1. r * p = r2 * (2 * p) + b * p
    BY <1>2
  <2> QED BY <1>1, <1>2, <2>1
<1>8. x * low2 = u2 * (2 * p) + rest2
  <2>1. x * low2 = (b * x) * p + x * low
    BY <1>2, <1>3
  <2>2. (u + b * x) * p = u * p + (b * x) * p /\ (2 * u2 + e) * p = u2 * (2 * p) + e * p
    BY <1>2, <1>3, <1>5
  <2>3. x * low2 = (u + b * x) * p + rest
    BY <1>1, <1>2, <1>3, <2>1, <2>2
  <2> QED BY <1>1, <1>4, <1>5, <2>2, <2>3
<1> HIDE DEF low2, rest2
<1>9. LowFirst(x, y, 2 * p, u2, r2)
  BY <1>2, <1>4, <1>6, <1>7, <1>8, Zenon DEF LowFirst
<1> QED BY <1>9 DEF u2, r2, b

Multiplier(y) == [mul |-> 0, mulxuu |-> 0, left |-> y, right |-> y]

(* The two halves of a product, and what the signs take from the high one. *)
Halves(op, x, y, p) ==
    LET su == LowBits(p.mulxuu - IF Msb(x) THEN y ELSE 0)
    IN  CASE op \in {"mul", "muli"} -> p.mul
          [] op = "mulxuu" -> p.mulxuu
          [] op = "mulxsu" -> su
          [] op = "mulxss" -> LowBits(su - IF Msb(y) THEN x ELSE 0)

LEMMA MultiplyRoundType ==
    ASSUME NEW x \in Int, NEW s \in [mul : Int, mulxuu : Int, left : Int, right : Int]
    PROVE  MultiplyRound(x, s) \in [mul : Int, mulxuu : Int, left : Int, right : Int]
<1> DEFINE sum == LowBits(s.mulxuu + x)
           c == IF sum < x THEN 2^(W-1) ELSE 0
           a == 2 * s.mul + IF Msb(s.left) THEN x ELSE 0
           m == LowBits(a)
           l == LowBits(2 * s.left)
           u == IF s.right % 2 = 1 THEN sum \div 2 + c ELSE s.mulxuu \div 2
<1>1. /\ s.mulxuu \in Int /\ s.mul \in Int /\ s.left \in Int /\ s.right \in Int
  OBVIOUS
<1>2. sum \in Int /\ c \in Int
  <2>1. s.mulxuu + x \in Int
    BY <1>1
  <2>2. sum \in Int
    BY <2>1, LowBitsIs
  <2>3. 2^(W-1) \in Int
    BY RegisterWidth
  <2> QED BY <2>2, <2>3
<1>3. a \in Int /\ 2 * s.left \in Int
  BY <1>1
<1>4. m \in Int /\ l \in Int
  <2> HIDE DEF a
  <2> QED BY <1>3, LowBitsIs
<1>5. MultiplyRound(x, s) = [mul |-> m, mulxuu |-> u, left |-> l, right |-> s.right \div 2]
  BY Zenon DEF MultiplyRound
<1> HIDE DEF sum, c, a, m, l
<1>6. u \in Int /\ s.right \div 2 \in Int
  BY <1>1, <1>2
<1> HIDE DEF u
<1> QED BY <1>4, <1>5, <1>6

LEMMA ProductRuns ==
    ASSUME NEW op, NEW x \in Int, NEW y \in Int
    PROVE  \E h : /\ h[0] = Multiplier(y) /\ \A i \in 1..W : h[i] = MultiplyRound(x, h[i-1])
                  /\ Product(op, x, y) = Halves(op, x, y, h[W])
<1> DEFINE S == [mul : Int, mulxuu : Int, left : Int, right : Int]
           base == Multiplier(y)
           step == [i \in 1..W |-> [s \in S |-> MultiplyRound(x, s)]]
           F(g) == [i \in 0..W |-> IF i = 0 THEN [mul |-> 0, mulxuu |-> 0, left |-> y, right |-> y]
                                   ELSE MultiplyRound(x, g[i-1])]
           h == CHOOSE g : g = F(g)
<1>1. W \in Nat
  BY RegisterWidth
<1>2. \A s \in S : MultiplyRound(x, s) \in S
  BY MultiplyRoundType
<1>3. step \in [1..W -> [S -> S]]
  <2> HIDE DEF S
  <2> QED BY <1>2
<1>4. base \in S
  BY DEF Multiplier
<1>5. PICK g \in [0..W -> S] : g[0] = base /\ \A i \in 1..W : g[i] = step[i][g[i-1]]
  <2> HIDE DEF step, F, h, S, base
  <2>1. Runs(W, S, base, step)
    BY <1>1, <1>3, <1>4, LoopRuns, Zenon
  <2> QED BY <2>1, Zenon DEF Runs
<1>6. \A i \in 1..W : g[i] = MultiplyRound(x, g[i-1])
  <2> SUFFICES ASSUME NEW i \in 1..W PROVE g[i] = MultiplyRound(x, g[i-1])
    OBVIOUS
  <2>1. i - 1 \in 0..W
    BY <1>1
  <2> HIDE DEF S
  <2>2. g[i-1] \in S
    BY <2>1
  <2> QED BY <1>5, <2>2
<1> HIDE DEF step, S
<1>7. g = F(g)
  BY <1>1, <1>5, <1>6 DEF Multiplier
<1>8. h = F(h)
  BY <1>7
<1>9. Product(op, x, y) = Halves(op, x, y, h[W])
  BY Zenon DEF Product, Halves
<1> HIDE DEF h
<1>10. h[0] = Multiplier(y) /\ \A i \in 1..W : h[i] = MultiplyRound(x, h[i-1])
  BY <1>1, <1>8 DEF Multiplier
<1> QED BY <1>9, <1>10

(* The loop computes both halves. *)
LEMMA ProductHalves ==
    ASSUME NEW op, NEW x \in Word, NEW y \in Word
    PROVE  \E p : /\ Product(op, x, y) = Halves(op, x, y, p)
                  /\ p.mul = LowBits(x * y) /\ p.mulxuu = (x * y) \div 2^W
<1>1. /\ W \in Nat \ {0} /\ 2^W \in Nat \ {0} /\ x \in Nat /\ y \in Nat /\ x \in Int /\ y \in Int
      /\ y < 2^W /\ Word = 0..2^W - 1
  BY RegisterWidth
<1>2. PICK h : /\ h[0] = Multiplier(y) /\ \A i \in 1..W : h[i] = MultiplyRound(x, h[i-1])
               /\ Product(op, x, y) = Halves(op, x, y, h[W])
  BY <1>1, ProductRuns, Zenon
<1> DEFINE G == {i \in 0..W : /\ HighFirst(x, y, 2^i, 2^(W-i), h[i].mul, h[i].left)
                              /\ LowFirst(x, y, 2^i, h[i].mulxuu, h[i].right)}
<1>3. 0 \in G
  <2>1. 2^0 = 1 /\ W - 0 = W /\ 0 \in 0..W
    BY <1>1
  <2>2. h[0].mul = 0 /\ h[0].mulxuu = 0 /\ h[0].left = y /\ h[0].right = y
    BY <1>2 DEF Multiplier
  <2>3. 0 \in Word /\ x * 0 = 0 /\ y = 0 * 2^W + y /\ y = y * 1 /\ y = y * 1 + 0 /\ 0 = 0 * 1 + 0 /\ 0 < 1
    BY <1>1
  <2>4. LowBits(0) = 0
    BY <2>3, LowBitsOfSum
  <2>5. HighFirst(x, y, 1, 2^W, 0, y)
    <3>1. 0 \in Nat /\ LowBits(x * 0) = 0
      BY <2>3, <2>4
    <3> QED BY <1>1, <2>3, <3>1, Zenon DEF HighFirst
  <2>6. LowFirst(x, y, 1, 0, y)
    <3>1. 0 \in Nat /\ x * 0 = 0 * 1 + 0
      BY <2>3
    <3> QED BY <1>1, <2>3, <3>1, Zenon DEF LowFirst
  <2> QED BY <2>1, <2>2, <2>5, <2>6
<1>4. ASSUME NEW i \in 0..W-1, i \in G PROVE i + 1 \in G
  <2>1. /\ i \in Nat /\ i \in 0..W /\ i + 1 \in 0..W /\ i + 1 \in 1..W /\ i + 1 - 1 = i
        /\ W - (i + 1) \in Nat /\ W - (i + 1) + 1 = W - i
    BY <1>1
  <2> DEFINE p == 2^i
             t == 2^(W - (i + 1))
             s == h[i]
             mul == LowBits(2 * s.mul + IF Msb(s.left) THEN x ELSE 0)
             left == LowBits(2 * s.left)
             u == Halved(x, s.mulxuu, s.right % 2)
             r == s.right \div 2
  <2>2. /\ p \in Nat \ {0} /\ t \in Nat \ {0} /\ 2^(i + 1) = 2 * p
        /\ 2^(W - i) = 2 * t /\ p * 2^(W - i) = 2^W
    BY <2>1, PowerOfTwo, PowersMeet
  <2>3. HighFirst(x, y, p, 2 * t, s.mul, s.left) /\ LowFirst(x, y, p, s.mulxuu, s.right) /\ p * (2 * t) = 2^W
    BY <1>4, <2>2
  <2> HIDE DEF p, t
  <2>4. /\ HighFirst(x, y, 2 * p, t, mul, left)
        /\ LowFirst(x, y, 2 * p, u, r)
    BY <2>2, <2>3, HighRound, LowRound
  <2>5. h[i + 1] = MultiplyRound(x, s)
    BY <1>2, <2>1
  <2>6. /\ MultiplyRound(x, s).mul = mul /\ MultiplyRound(x, s).left = left
        /\ MultiplyRound(x, s).mulxuu = u /\ MultiplyRound(x, s).right = r
    BY DEF MultiplyRound, Halved
  <2> HIDE DEF mul, left, u, r, s
  <2>7. HighFirst(x, y, 2^(i + 1), t, mul, left) /\ LowFirst(x, y, 2^(i + 1), u, r)
    BY <2>2, <2>4
  <2> QED BY <2>1, <2>5, <2>6, <2>7 DEF t
<1> HIDE DEF G
<1>5. \A i \in 0..W : i \in G
  BY <1>1, <1>3, <1>4, EveryRound
<1> DEFINE s == h[W]
<1>6. HighFirst(x, y, 2^W, 1, s.mul, s.left) /\ LowFirst(x, y, 2^W, s.mulxuu, s.right)
  <2>1. W \in 0..W /\ W - W = 0 /\ 2^0 = 1
    BY <1>1
  <2> QED BY <1>5, <2>1 DEF G
<1> HIDE DEF s
<1>7. s.mul = LowBits(x * y)
  <2>1. PICK hi \in Nat, lo \in Nat :
            lo < 1 /\ y = hi * 1 + lo /\ s.mul = LowBits(x * hi)
    BY <1>6 DEF HighFirst
  <2>2. hi = y
    BY <1>1, <2>1
  <2> QED BY <2>1, <2>2
<1>8. s.mulxuu = (x * y) \div 2^W
  <2> DEFINE M == 2^W
  <2>1. PICK low \in Nat, rest \in Nat :
            /\ low < M /\ rest < M /\ s.right \in Nat /\ s.mulxuu \in Word
            /\ y = s.right * M + low /\ x * low = s.mulxuu * M + rest
    BY <1>6 DEF LowFirst
  <2>2. M \in Nat \ {0} /\ y < M /\ s.mulxuu \in Int
    BY <1>1, <2>1
  <2> HIDE DEF M
  <2>3. s.right = 0
    <3> SUFFICES ASSUME s.right # 0 PROVE FALSE
      OBVIOUS
    <3>1. s.right * M = M + (s.right - 1) * M /\ (s.right - 1) * M \in Nat
      <4>1. s.right - 1 \in Nat
        BY <2>1
      <4> QED BY <2>1, <2>2, <4>1
    <3> QED BY <2>1, <2>2, <3>1
  <2>4. y = low
    BY <2>1, <2>2, <2>3
  <2>5. x * y = M * s.mulxuu + rest /\ rest \in 0..M-1
    BY <2>1, <2>2, <2>4
  <2>6. (M * s.mulxuu + rest) \div M = s.mulxuu
    BY <2>2, <2>5, OneRemainder
  <2> QED BY <2>5, <2>6 DEF M
<1> QED BY <1>2, <1>7, <1>8 DEF s

---------------------------------------------------------------------------
(* Signs. *)

LEMMA SignedIs ==
    ASSUME NEW v \in Word
    PROVE  \E g \in {0, 1} : /\ Signed(v) = v - 2^W * g
                             /\ Msb(v) <=> g = 1
<1> DEFINE M == 2^W
<1>1. M \in Nat /\ v \in Nat
  BY RegisterWidth
<1>2. CASE Msb(v)
  <2>1. Signed(v) = v - M
    BY <1>2 DEF Signed
  <2> HIDE DEF M
  <2>2. Signed(v) = v - M * 1
    BY <1>1, <2>1
  <2> QED BY <1>2, <2>2 DEF M
<1>3. CASE ~Msb(v)
  <2>1. Signed(v) = v
    BY <1>3 DEF Signed
  <2> HIDE DEF M
  <2>2. Signed(v) = v - M * 0
    BY <1>1, <2>1
  <2> QED BY <1>3, <2>2 DEF M
<1> QED BY <1>2, <1>3

(* What the signs take from the high half of the product. *)
SignsTake(M, x, y, g, k) ==
    /\ ((x - M * g) * y) \div M = (x * y) \div M - g * y
    /\ ((x - M * g) * (y - M * k)) \div M = (x * y) \div M - g * y - k * x + M * (g * k)

LEMMA HighHalf ==
    ASSUME NEW M \in Nat \ {0}, NEW x \in Nat, NEW y \in Nat, NEW g \in {0, 1}, NEW k \in {0, 1}
    PROVE  SignsTake(M, x, y, g, k)
<1> DEFINE h == (x * y) \div M
           r == (x * y) % M
<1>1. x * y \in Int /\ g \in Int /\ k \in Int /\ g * y \in Int /\ k * x \in Int /\ g * k \in Int
  OBVIOUS
<1>2. h \in Int /\ r \in 0..M-1 /\ x * y = M * h + r
  <2> DEFINE v == x * y
  <2> HIDE DEF v
  <2>1. v \in Int
    BY <1>1 DEF v
  <2>2. v \div M \in Int /\ v % M \in 0..M-1 /\ v = M * (v \div M) + (v % M)
    BY <2>1, Remainder
  <2> QED BY <2>2 DEF v
<1> HIDE DEF h, r
<1>3. (x - M * g) * y = M * (h - g * y) + r
  <2>1. (x - M * g) * y = x * y - M * (g * y)
    BY <1>1
  <2>2. M * (h - g * y) = M * h - M * (g * y)
    BY <1>1, <1>2
  <2> QED BY <1>1, <1>2, <2>1, <2>2
<1> DEFINE d == h - g * y - k * x + M * (g * k)
<1>4. (x - M * g) * (y - M * k) = M * d + r
  <2>1. (x - M * g) * (y - M * k) = x * y - M * (g * y) - M * (k * x) + M * (M * (g * k))
    BY <1>1
  <2>2. M * d = M * h - M * (g * y) - M * (k * x) + M * (M * (g * k))
    BY <1>1, <1>2
  <2> HIDE DEF d
  <2> QED BY <1>1, <1>2, <2>1, <2>2
<1>5. h - g * y \in Int /\ d \in Int
  BY <1>1, <1>2
<1> HIDE DEF d
<1>6. (M * (h - g * y) + r) \div M = h - g * y /\ (M * d + r) \div M = d
  <2> DEFINE c == h - g * y
  <2> HIDE DEF c
  <2>1. c \in Int
    BY <1>5 DEF c
  <2>2. (M * c + r) \div M = c /\ (M * d + r) \div M = d
    BY <1>2, <1>5, <2>1, OneRemainder
  <2> QED BY <2>2 DEF c
<1> QED BY <1>3, <1>4, <1>6 DEF d, h, SignsTake

(* The emulation of a multiplication computes what the instruction does. *)
LEMMA ProductExact ==
    ASSUME NEW op \in MulOps, NEW x \in Word, NEW y \in Word
    PROVE  Product(op, x, y) = Answer(op, x, y)
<1> DEFINE M == 2^W
<1>1. M \in Nat \ {0} /\ x \in Nat /\ y \in Nat
  BY RegisterWidth
<1>2. PICK p : /\ Product(op, x, y) = Halves(op, x, y, p)
               /\ p.mul = LowBits(x * y) /\ p.mulxuu = (x * y) \div M
  BY ProductHalves, Zenon
<1> DEFINE h == (x * y) \div M
<1>3. PICK g \in {0, 1} : Signed(x) = x - M * g /\ (Msb(x) <=> g = 1)
  BY SignedIs
<1>4. PICK k \in {0, 1} : Signed(y) = y - M * k /\ (Msb(y) <=> k = 1)
  BY SignedIs
<1> HIDE DEF M
<1>5. /\ (Signed(x) * y) \div M = h - g * y
      /\ (Signed(x) * Signed(y)) \div M = h - g * y - k * x + M * (g * k)
  <2>1. SignsTake(M, x, y, g, k)
    BY <1>1, HighHalf
  <2> QED BY <1>3, <1>4, <2>1, Zenon DEF SignsTake
<1>6. h \in Int /\ g * y \in Int /\ k * x \in Int /\ g * k \in Int
  <2>1. x * y \in Int
    BY <1>1
  <2> DEFINE v == x * y
  <2> HIDE DEF v
  <2>2. v \div M \in Int
    BY <1>1, <2>1, Remainder DEF v
  <2> QED BY <1>1, <2>2 DEF v
<1>7. (IF Msb(x) THEN y ELSE 0) = g * y /\ (IF Msb(y) THEN x ELSE 0) = k * x
  BY <1>1, <1>3, <1>4
<1> DEFINE su == LowBits(h - g * y)
<1>8. Halves(op, x, y, p) = CASE op \in {"mul", "muli"} -> LowBits(x * y)
                              [] op = "mulxuu" -> h
                              [] op = "mulxsu" -> su
                              [] op = "mulxss" -> LowBits(su - k * x)
  BY <1>2, <1>7 DEF Halves
<1>9. LowBits(su - k * x) = LowBits(h - g * y - k * x + M * (g * k))
  <2> DEFINE a == h - g * y
             c == 0 - k * x
             n == g * k
  <2>1. a \in Int /\ c \in Int /\ n \in Int /\ 1 \in Int /\ a + c \in Int
    BY <1>6
  <2>2. su \in Int
    <3> HIDE DEF a
    <3>1. LowBits(a) \in Int
      BY <2>1, LowBitsIs
    <3> QED BY <3>1 DEF a
  <2>3. su = LowBits(a) /\ su - k * x = 1 * su + c /\ h - g * y - k * x = a + c
    BY <1>6, <2>2
  <2> HIDE DEF a, c, n, su
  <2>4. LowBits(1 * LowBits(a) + c) = LowBits(1 * a + c) /\ 1 * a + c = a + c
    BY <2>1, LowBitsInside
  <2>5. LowBits((a + c) + M * n) = LowBits(a + c)
    BY <2>1, LowBitsMore DEF M
  <2> QED BY <2>3, <2>4, <2>5 DEF n
<1> HIDE DEF h, su
<1>10. CASE op \in {"mul", "muli"}
  BY <1>2, <1>8, <1>10 DEF Answer
<1>11. CASE op = "mulxuu"
  BY <1>2, <1>8, <1>11 DEF Answer, h, M
<1>12. CASE op = "mulxsu"
  BY <1>2, <1>5, <1>8, <1>12 DEF Answer, su, M
<1>13. CASE op = "mulxss"
  BY <1>2, <1>5, <1>8, <1>9, <1>13 DEF Answer, M
<1> QED BY <1>10, <1>11, <1>12, <1>13 DEF MulOps

LEMMA MagnitudeIs ==
    ASSUME NEW v \in Word
    PROVE  /\ Magnitude(v) \in Word /\ Magnitude(v) = Magnified(Signed(v)) /\ Magnitude(v) \in Nat
           /\ Msb(v) <=> Signed(v) < 0
           /\ v # 0 => Magnitude(v) # 0
<1> DEFINE M == 2^W
           H == 2^(W-1)
<1>1. M \in Nat \ {0} /\ H \in Nat \ {0} /\ M = 2 * H /\ Word = 0..M-1 /\ v \in Nat /\ v < M
  BY RegisterWidth
<1>2. CASE Msb(v)
  <2>1. v >= H /\ Signed(v) = v - M /\ Magnitude(v) = LowBits(-v)
    BY <1>2 DEF Msb, Signed, Magnitude
  <2> HIDE DEF M, H
  <2>2. M - v \in Word /\ -v = M * (0 - 1) + (M - v) /\ 0 - 1 \in Int
    BY <1>1, <2>1
  <2>3. LowBits(-v) = M - v
    BY <2>2, LowBitsOfSum DEF M
  <2>4. v - M < 0 /\ -(v - M) = M - v /\ M - v # 0 /\ M - v \in Nat
    BY <1>1
  <2> QED BY <1>2, <2>1, <2>2, <2>3, <2>4 DEF Magnified
<1>3. CASE ~Msb(v)
  <2>1. Signed(v) = v /\ Magnitude(v) = v /\ ~(v < 0)
    BY <1>1, <1>3 DEF Signed, Magnitude
  <2> QED BY <1>1, <1>3, <2>1 DEF Magnified
<1> QED BY <1>2, <1>3

(* And of a division, whichever way the signs are. *)
LEMMA QuotientExact ==
    ASSUME NEW op \in DivOps, NEW x \in Word, NEW y \in Word, y # 0
    PROVE  Quotient(op, x, y) = Answer(op, x, y)
<1>1. y \in Nat \ {0}
  BY RegisterWidth
<1>2. CASE op = "divu"
  BY <1>1, <1>2, DivideExact DEF Quotient, Answer
<1>3. CASE op = "div"
  <2> DEFINE a == Magnitude(x)
             b == Magnitude(y)
             q == Divide(a, b)
  <2>1. /\ a \in Word /\ a = Magnified(Signed(x)) /\ (Msb(x) <=> Signed(x) < 0)
        /\ b \in Nat \ {0} /\ b = Magnified(Signed(y)) /\ (Msb(y) <=> Signed(y) < 0)
    BY MagnitudeIs
  <2>2. Quotient(op, x, y) = IF Msb(x) # Msb(y) THEN LowBits(-q) ELSE q
    BY <1>3 DEF Quotient
  <2> HIDE DEF a, b
  <2>3. q = a \div b /\ q \in Word
    BY <2>1, DivideExact
  <2> HIDE DEF q
  <2>4. LowBits(q) = q
    BY <2>3, LowBitsOfSum
  <2>5. Truncated(Signed(x), Signed(y)) = IF (Signed(x) < 0) # (Signed(y) < 0) THEN -q ELSE q
    BY <2>1, <2>3, Zenon DEF Truncated
  <2>6. Answer(op, x, y) = LowBits(Truncated(Signed(x), Signed(y)))
    BY <1>3 DEF Answer
  <2>7. (Msb(x) # Msb(y)) <=> ((Signed(x) < 0) # (Signed(y) < 0))
    <3>1. Msb(x) = (Signed(x) < 0) /\ Msb(y) = (Signed(y) < 0)
      BY <2>1 DEF Msb
    <3> QED BY <3>1, Zenon
  <2>8. CASE Msb(x) # Msb(y)
    BY <2>2, <2>5, <2>6, <2>7, <2>8, Zenon
  <2>9. CASE ~(Msb(x) # Msb(y))
    BY <2>2, <2>4, <2>5, <2>6, <2>7, <2>9, Zenon
  <2> QED BY <2>8, <2>9
<1> QED BY <1>2, <1>3 DEF DivOps
---------------------------------------------------------------------------
(* Exceptions.                                                                *)

LEMMA Registers0 ==
    /\ Saved \subseteq GPR /\ ea \in GPR /\ ea \notin Saved
    /\ \A r \in 16..23 \cup {fp} : r \in GPR /\ r \notin Saved
  BY DEF Saved, CallerSaved, GPR, ea, ra, fp

(* Whoever runs instead of the program leaves the callee's registers alone. *)
LEMMA ScratchedKeeps ==
    /\ Scratched = [r \in GPR |-> Scratched[r]]
    /\ \A r \in GPR : r \notin Saved => Scratched[r] = regs[r]
  BY DEF Scratched, Saved

LEMMA ExcInitInv == ExcInit => ExcIInv
  <1> SUFFICES ASSUME ExcInit  PROVE ExcIInv
    OBVIOUS
  <1>1. regs \in [GPR -> Word] /\ before = regs
    BY ExceptionsAssumption DEF ExcInit
  <1>2. ExcShape
    BY <1>1 DEF ExcInit, ExcShape, Handler
  <1> QED BY <1>2 DEF ExcInit, ExcIInv, RegistersKept, Back

(* To the exit the handlers bring what the program is to find again. *)
LEMMA ToExit ==
    ASSUME ExcIInv, stage \in {"irqtest", "soft", "break"}, stage' = "exit",
           UNCHANGED <<stack, before, inst>>, regs' = regs \/ regs' = Scratched, by' # "emulation", by' # "nobody",
           alt_instruction_exception_handler' = alt_instruction_exception_handler, ResumeInv'
    PROVE  ExcIInv'
  <1>1. ExcShape'
    BY ScratchedKeeps DEF ExcIInv, ExcShape
  <1>2. Restored'
    <2>1. \A r \in GPR \ {ea} : (IF r \in Saved THEN stack'[r] ELSE regs'[r]) = before'[r]
      BY ScratchedKeeps DEF ExcIInv, Untouched, OnStack
    <2> QED BY <2>1 DEF Restored, Saved
  <1> QED BY <1>1, <1>2 DEF ExcIInv, RegistersKept, Back

LEMMA EmulateStep ==
    ASSUME ExcIInv, Emulate
    PROVE  ExcIInv'
  <1>1. /\ stage = "soft" /\ stage' = "exit" /\ by' = "emulation"
        /\ stack' = [Frame EXCEPT ![Destination] = Result]
        /\ regs' = [r \in GPR |-> IF r \in 16..23 \cup {fp} THEN stack'[r] ELSE Scratched[r]]
        /\ UNCHANGED <<inst, resume, before, alt_instruction_exception_handler>>
    BY DEF Emulate
  <1>2. /\ ExcShape /\ Untouched /\ OnStack /\ resume = "next"
    BY <1>1 DEF ExcIInv
  <1>3. /\ Frame = [r \in GPR |-> Frame[r]]
        /\ \A r \in Saved : Frame[r] = stack[r]
        /\ \A r \in 16..23 \cup {fp} : Frame[r] = regs[r]
    <2>1. Frame = [r \in GPR |-> Frame[r]]  BY DEF Frame
    <2>2. \A r \in Saved : r \in GPR /\ r # 0 /\ Frame[r] = stack[r]
      BY DEF Frame, Saved, CallerSaved, GPR, ra, gp, fp, sp
    <2>3. \A r \in 16..23 \cup {fp} : r \in GPR /\ r # 0 /\ r \notin Saved /\ Frame[r] = regs[r]
      BY DEF Frame, Saved, CallerSaved, GPR, ra, fp, gp, sp
    <2> QED BY <2>1, <2>2, <2>3
  <1>4. stack' = [r \in GPR |-> stack'[r]] /\ \A r \in GPR : r # Destination => stack'[r] = Frame[r]
    <2> DEFINE d == Destination
               v == Result
               fr == Frame
    <2>1. stack' = [fr EXCEPT ![d] = v] /\ fr = [r \in GPR |-> fr[r]]  BY <1>1, <1>3
    <2> HIDE DEF d, v, fr
    <2>2. stack' = [r \in GPR |-> stack'[r]] /\ \A r \in GPR : r # d => stack'[r] = fr[r]  BY <2>1
    <2> QED BY <2>2 DEF d, fr
  <1>5. Destination' = Destination  BY <1>1 DEF Destination
  <1>6. ExcShape'  BY <1>1, <1>2, <1>4 DEF ExcShape
  <1>7. Restored'
    <2> SUFFICES ASSUME NEW r \in GPR \ {ea}, r # Destination
                 PROVE  (IF r \in Saved THEN stack'[r] ELSE regs'[r]) = before[r]
      BY <1>1, <1>5 DEF Restored, Saved
    <2>1. CASE r \in Saved  BY <1>2, <1>3, <1>4, <2>1 DEF OnStack
    <2>2. CASE r \notin Saved /\ r \in 16..23 \cup {fp}
      <3>1. regs'[r] = stack'[r]  BY <1>1, <2>2
      <3> QED BY <1>2, <1>3, <1>4, <2>2, <3>1 DEF Untouched
    <2>3. CASE r \notin Saved /\ r \notin 16..23 \cup {fp}
      <3>1. regs'[r] = Scratched[r]  BY <1>1, <2>3
      <3> QED BY <1>2, <2>3, <3>1, ScratchedKeeps DEF Untouched
    <2> QED BY <2>1, <2>2, <2>3
  <1>8. ResumeInv'  BY <1>1, <1>2 DEF ResumeInv
  <1> QED BY <1>1, <1>6, <1>7, <1>8 DEF ExcIInv, RegistersKept, Back

LEMMA ExitStep ==
    ASSUME ExcIInv, Exit
    PROVE  ExcIInv'
  <1>1. /\ stage = "exit" /\ stage' = "program"
        /\ regs' = [r \in GPR |-> IF r \in Saved THEN stack[r] ELSE regs[r]]
        /\ UNCHANGED <<inst, stack, resume, before, by, alt_instruction_exception_handler>>
    BY DEF Exit
  <1>2. ExcShape /\ Restored /\ ResumeInv  BY <1>1 DEF ExcIInv
  <1>3. ExcShape'  BY <1>1, <1>2 DEF ExcShape
  <1>4. RegistersKept'
    <2>1. Destination' = Destination  BY <1>1 DEF Destination
    <2>2. \A r \in GPR \ {ea} : (by = "emulation" /\ r = Destination) \/ regs'[r] = before[r]
      BY <1>1, <1>2 DEF Restored
    <2> QED BY <1>1, <1>2, <2>1, <2>2 DEF RegistersKept, ResumeInv
  <1> QED BY <1>1, <1>3, <1>4 DEF ExcIInv

LEMMA RaiseStep ==
    ASSUME ExcIInv, Raise
    PROVE  ExcIInv'
  <1>1. /\ stage' = "entry" /\ by' = "nobody" /\ before' = regs /\ regs' = [regs EXCEPT ![ea] = Junk]
        /\ UNCHANGED <<inst, stack, alt_instruction_exception_handler>>
    BY DEF Raise
  <1>2. ExcShape  BY DEF ExcIInv
  <1>3. ExcShape'  BY <1>1, <1>2 DEF ExcShape
  <1>4. Untouched'  BY <1>1, <1>2 DEF ExcShape, Untouched
  <1> QED BY <1>1, <1>3, <1>4 DEF ExcIInv, RegistersKept, Back

LEMMA EntryStep ==
    ASSUME ExcIInv, Entry
    PROVE  ExcIInv'
  <1>1. /\ stage = "entry" /\ stage' = "irqtest" /\ resume' = "this"
        /\ stack' = [r \in GPR |-> IF r \in Saved THEN regs[r] ELSE stack[r]]
        /\ UNCHANGED <<inst, regs, before, by, alt_instruction_exception_handler>>
    BY DEF Entry
  <1>2. ExcShape /\ Untouched  BY <1>1 DEF ExcIInv
  <1>3. ExcShape'  BY <1>1, <1>2 DEF ExcShape
  <1>4. Untouched' /\ OnStack'  BY <1>1, <1>2, Registers0 DEF Untouched, OnStack, Saved
  <1> QED BY <1>1, <1>3, <1>4 DEF ExcIInv, RegistersKept, Back

LEMMA ExcNextInv == ExcIInv /\ [ExcNext]_excVars => ExcIInv'
  <1> SUFFICES ASSUME ExcIInv, [ExcNext]_excVars  PROVE ExcIInv'
    OBVIOUS
  <1>1. CASE UNCHANGED excVars
    BY <1>1 DEF excVars, ExcIInv, ExcShape, RegistersKept, Back, Destination, Untouched, OnStack, Restored,
       ResumeInv, Saved
  <1>2. ASSUME NEW h \in Handler, alt_instruction_exception_register(h)  PROVE ExcIInv'
    BY <1>2 DEF alt_instruction_exception_register, ExcIInv, ExcShape, RegistersKept, Back, Destination
  <1>3. CASE IrqHandler
    BY <1>3, ToExit DEF IrqHandler, ResumeInv, ExcIInv
  <1>4. CASE NotIrq
    <2>1. /\ stage = "irqtest" /\ stage' = "soft" /\ resume' = "next"
          /\ UNCHANGED <<inst, regs, stack, before, by, alt_instruction_exception_handler>>
      BY <1>4 DEF NotIrq
    <2>2. Untouched' /\ OnStack' /\ ExcShape'
      BY <2>1 DEF ExcIInv, Untouched, OnStack, ExcShape, Saved
    <2> QED BY <2>1, <2>2 DEF ExcIInv, RegistersKept, Back
  <1>5. CASE Breakpoint
    <2>1. /\ stage = "soft" /\ stage' = "break"
          /\ UNCHANGED <<inst, regs, stack, resume, before, by, alt_instruction_exception_handler>>
      BY <1>5 DEF Breakpoint
    <2>2. Untouched' /\ OnStack' /\ ExcShape'
      BY <2>1 DEF ExcIInv, Untouched, OnStack, ExcShape, Saved
    <2> QED BY <2>1, <2>2 DEF ExcIInv, RegistersKept, Back
  <1>6. CASE Continue
    BY <1>6, ToExit DEF Continue, ResumeInv, ExcIInv
  <1>7. CASE alt_instruction_exception_entry
    <2>1. alt_instruction_exception_handler \in Handler /\ resume = "next"
      BY <1>7 DEF alt_instruction_exception_entry, ExcIInv, ExcShape
    <2> QED BY <1>7, <2>1, ToExit DEF alt_instruction_exception_entry, ResumeInv, Handler
  <1> QED BY <1>1, <1>2, <1>3, <1>4, <1>5, <1>6, <1>7, RaiseStep, EntryStep, EmulateStep, ExitStep
          DEF ExcNext, Handler

---------------------------------------------------------------------------
(* What the emulation finds and leaves. *)

LEMMA ScratchedWords ==
    ASSUME regs \in [GPR -> Word], regs[0] = 0
    PROVE  Scratched \in [GPR -> Word] /\ Scratched[0] = 0
<1>1. Junk \in Word
  BY ExceptionsAssumption
<1>2. Scratched \in [GPR -> Word]
  BY <1>1 DEF Scratched
<1>3. 0 \in GPR /\ 0 \notin CallerSaved
  BY DEF GPR, CallerSaved, ra
<1> QED BY <1>2, <1>3 DEF Scratched

(* The frame holds the program's registers, but for those it does not serve.  *)
LEMMA FrameIsBefore ==
    ASSUME Untouched, OnStack, before[0] = 0, NEW r \in GPR \ {et, bt, sp, ea, ba}
    PROVE  Frame[r] = before[r]
<1>1. CASE r = 0
  <2>1. 0 \in GPR /\ 0 \notin Saved /\ 0 \notin 16..23 \cup {gp, fp} /\ 0 # sp
    BY DEF GPR, Saved, CallerSaved, ra, gp, fp, sp
  <2>2. Frame[0] = 0
    BY <2>1 DEF Frame
  <2> QED BY <1>1, <2>2
<1>2. CASE r \in Saved
  <2>1. r # 0 /\ r \notin 16..23 \cup {gp, fp} /\ r # sp /\ r \in GPR /\ r # ea
    BY <1>2 DEF Saved, CallerSaved, ra, gp, fp, sp, ea
  <2> QED BY <1>2, <2>1 DEF Frame, OnStack
<1>3. CASE r \in 16..23 \cup {gp, fp}
  <2>1. r # 0 /\ r \notin Saved
    BY <1>3 DEF Saved, CallerSaved, ra, gp, fp
  <2>2. Frame[r] = regs[r]
    BY <1>3, <2>1 DEF Frame
  <2> QED BY <1>3, <2>2 DEF Untouched, ea
<1>4. r = 0 \/ r \in Saved \/ r \in 16..23 \cup {gp, fp}
  <2>1. r \in 0..31 /\ r # 24 /\ r # 25 /\ r # 27 /\ r # 29 /\ r # 30
    BY DEF GPR, et, bt, sp, ea, ba
  <2>2. r = 0 \/ r \in 1..15 \/ r \in 16..23 \/ r = 26 \/ r = 28 \/ r = 31
    BY <2>1
  <2> QED BY <2>2 DEF Saved, CallerSaved, ra, gp, fp
<1> QED BY <1>1, <1>2, <1>3, <1>4

LEMMA DestinationIs ==
    ASSUME inst \in Instruction
    PROVE  /\ Destination \in GPR /\ inst.a \in GPR /\ inst.b \in GPR /\ inst.imm \in Word
           /\ inst.op \in MulOps \cup DivOps \cup {"trap", "other"}
  BY DEF Instruction, Destination

LEMMA ResultIsAnswer ==
    ASSUME inst \in Instruction, inst.op \in MulOps \cup DivOps, Untouched, OnStack,
           before \in [GPR -> Word], before[0] = 0, Serviceable
    PROVE  Result = Answer(inst.op, before[inst.a], Second)
<1> DEFINE x == before[inst.a]
           y == Second
<1>1. inst.a \in GPR \ {et, bt, sp, ea, ba}
  BY DestinationIs DEF Serviceable, Documented, Operands
<1>2. Frame[inst.a] = x /\ x \in Word
  BY <1>1, FrameIsBefore
<1>3. (IF inst.op = "muli" THEN inst.imm ELSE Frame[inst.b]) = y /\ y \in Word
  <2>1. CASE inst.op = "muli"
    BY <2>1, DestinationIs DEF Second
  <2>2. CASE inst.op # "muli"
    <3>1. inst.b \in GPR \ {et, bt, sp, ea, ba}
      BY <2>2, DestinationIs DEF Serviceable, Documented, Operands
    <3>2. Frame[inst.b] = before[inst.b] /\ before[inst.b] \in Word
      BY <3>1, FrameIsBefore
    <3> QED BY <2>2, <3>2 DEF Second
  <2> QED BY <2>1, <2>2
<1>4. inst.op \in DivOps => y # 0
  BY DEF Serviceable, Defined
<1> HIDE DEF x, y
<1>5. Result = IF inst.op \in DivOps THEN Quotient(inst.op, x, y) ELSE Product(inst.op, x, y)
  BY <1>2, <1>3 DEF Result
<1>6. Result = Answer(inst.op, x, y)
  <2>1. CASE inst.op \in DivOps
    BY <1>2, <1>3, <1>4, <1>5, <2>1, QuotientExact
  <2>2. CASE inst.op \notin DivOps
    BY <1>2, <1>3, <1>5, <2>2, ProductExact
  <2> QED BY <2>1, <2>2
<1> QED BY <1>6 DEF x, y

LEMMA EmulateAnswers ==
    ASSUME ExcIInv, inst \in Instruction, WordsInv, Emulate
    PROVE  AnswerLeft' /\ WordsInv'
<1>1. /\ stage = "soft" /\ stage' = "exit" /\ by' = "emulation" /\ inst.op \in MulOps \cup DivOps
      /\ stack' = [Frame EXCEPT ![Destination] = Result]
      /\ regs' = [r \in GPR |-> IF r \in 16..23 \cup {fp} THEN stack'[r] ELSE Scratched[r]]
      /\ UNCHANGED <<inst, before>>
  BY DEF Emulate
<1>2. /\ Untouched /\ OnStack /\ before \in [GPR -> Word] /\ before[0] = 0 /\ regs[0] = 0
      /\ regs \in [GPR -> Word]
  BY <1>1 DEF ExcIInv, WordsInv
<1>3. regs'[0] = 0
  <2>1. 0 \in GPR /\ 0 \notin 16..23 \cup {fp}
    BY DEF GPR, fp
  <2>2. regs'[0] = Scratched[0]
    BY <1>1, <2>1
  <2> QED BY <1>2, <2>2, ScratchedWords
<1>4. WordsInv'
  BY <1>1, <1>2, <1>3 DEF WordsInv
<1>5. Serviceable' = Serviceable /\ Destination' = Destination /\ Second' = Second
  BY <1>1 DEF Serviceable, Defined, Documented, Operands, Second, Destination
<1>6. ASSUME Serviceable
      PROVE  (IF Destination \in Saved THEN stack'[Destination] ELSE regs'[Destination])
                 = IF Destination = 0 THEN 0 ELSE Answer(inst.op, before[inst.a], Second)
  <2> DEFINE d == Destination
             v == Result
  <2>1. v = Answer(inst.op, before[inst.a], Second)
    BY <1>1, <1>2, <1>6, ResultIsAnswer
  <2>2. d \in GPR /\ d \notin {et, bt, gp, sp, ea, ba}
    BY <1>6, DestinationIs DEF Serviceable, Documented
  <2>3. stack'[d] = v
    <3> DEFINE fr == Frame
    <3>1. fr = [r \in GPR |-> fr[r]]
      BY DEF Frame
    <3>2. stack' = [fr EXCEPT ![d] = v]
      BY <1>1
    <3> HIDE DEF fr, d, v
    <3> QED BY <2>2, <3>1, <3>2
  <2>4. CASE d \in Saved
    <3>1. d # 0
      BY <2>4 DEF Saved, CallerSaved, ra
    <3> QED BY <2>1, <2>3, <2>4, <3>1
  <2>5. CASE d = 0
    <3>1. d \notin Saved
      BY <2>5 DEF Saved, CallerSaved, ra
    <3> QED BY <1>3, <2>5, <3>1
  <2>6. CASE d \notin Saved /\ d # 0
    <3>1. d \in 0..31 /\ d # 24 /\ d # 25 /\ d # 26 /\ d # 27 /\ d # 29 /\ d # 30 /\ d \notin 1..15 /\ d # 31
      BY <2>2, <2>6 DEF GPR, et, bt, gp, sp, ea, ba, Saved, CallerSaved, ra
    <3> HIDE DEF d
    <3>2. d \in 16..23 \/ d = 28
      BY <2>6, <3>1
    <3>3. regs'[d] = stack'[d]
      BY <1>1, <2>2, <3>2 DEF fp
    <3> QED BY <2>1, <2>3, <2>6, <3>3 DEF d
  <2> QED BY <2>4, <2>5, <2>6
<1>7. AnswerLeft'
  <2>1. Saved' = Saved
    BY DEF Saved
  <2>2. inst' = inst /\ before' = before
    BY <1>1
  <2> QED BY <1>5, <1>6, <2>1, <2>2 DEF AnswerLeft
<1> QED BY <1>4, <1>7

LEMMA ExcAllInit == ExcInit => ExcAllInv
<1> SUFFICES ASSUME ExcInit PROVE ExcAllInv
  OBVIOUS
<1>1. PICK s \in Situations : inst = s.inst /\ regs = s.regs
  BY DEF ExcInit
<1>2. inst \in Instruction /\ regs \in [GPR -> Word] /\ regs[0] = 0
  BY <1>1, ExceptionsAssumption
<1>3. stack \in [GPR -> Word] /\ before = regs /\ stage = "program" /\ by = "nobody"
  BY ExceptionsAssumption DEF ExcInit
<1> QED BY <1>2, <1>3, ExcInitInv DEF ExcAllInv, WordsInv, AnswerLeft, EmulationExact, Back

(* A step that does not bring an emulated instruction to its end. *)
LEMMA NotToProgram ==
    ASSUME stage' # "program" \/ by' # "emulation", stage' # "exit" \/ by' # "emulation"
    PROVE  EmulationExact' /\ AnswerLeft'
  BY DEF EmulationExact, AnswerLeft, Back

LEMMA ExitAnswers ==
    ASSUME ExcIInv, inst \in Instruction, WordsInv, AnswerLeft, Exit
    PROVE  EmulationExact' /\ AnswerLeft' /\ WordsInv'
<1>1. /\ stage = "exit" /\ stage' = "program"
      /\ regs' = [r \in GPR |-> IF r \in Saved THEN stack[r] ELSE regs[r]]
      /\ UNCHANGED <<inst, stack, before, by>>
  BY DEF Exit
<1>2. Serviceable' = Serviceable /\ Destination' = Destination /\ Second' = Second
  BY <1>1 DEF Serviceable, Defined, Documented, Operands, Second, Destination
<1>3. AnswerLeft'
  BY <1>1 DEF AnswerLeft
<1>4. EmulationExact'
  <2> SUFFICES ASSUME by = "emulation", Serviceable PROVE Matches'
    BY <1>1, <1>2 DEF EmulationExact, Back, Serviceable
  <2>1. Destination \in GPR
    BY DestinationIs
  <2>2. regs'[Destination] = IF Destination \in Saved THEN stack[Destination] ELSE regs[Destination]
    BY <1>1, <2>1
  <2>3. regs'[Destination] = IF Destination = 0 THEN 0 ELSE Answer(inst.op, before[inst.a], Second)
    BY <1>1, <2>2 DEF AnswerLeft
  <2> QED BY <1>1, <1>2, <2>3 DEF Matches
<1>5. WordsInv'
  <2>1. regs'[0] = 0
    <3>1. 0 \in GPR /\ 0 \notin Saved
      BY DEF GPR, Saved, CallerSaved, ra
    <3>2. regs'[0] = regs[0]
      BY <1>1, <3>1
    <3> QED BY <3>2 DEF WordsInv
  <2>2. by # "emulation" => regs' \in [GPR -> Word]
    BY <1>1 DEF WordsInv
  <2> QED BY <1>1, <2>1, <2>2 DEF WordsInv
<1> QED BY <1>3, <1>4, <1>5

LEMMA ExcAllNext == ExcAllInv /\ [ExcNext]_excVars => ExcAllInv'
<1> SUFFICES ASSUME ExcAllInv, [ExcNext]_excVars PROVE ExcAllInv'
  OBVIOUS
<1>1. ExcIInv /\ inst \in Instruction /\ WordsInv /\ AnswerLeft /\ EmulationExact
  BY DEF ExcAllInv
<1>2. ExcIInv'
  BY <1>1, ExcNextInv
<1>3. inst' = inst
  BY DEF ExcNext, excVars, alt_instruction_exception_register, Raise, Entry, IrqHandler, NotIrq, Emulate,
         Breakpoint, Continue, alt_instruction_exception_entry, Exit
<1>4. CASE UNCHANGED <<stage, inst, regs, stack, before, by>>
  <2>1. WordsInv' /\ AnswerLeft'
    BY <1>1, <1>4 DEF WordsInv, AnswerLeft, Serviceable, Defined, Documented, Operands, Second, Destination, Saved
  <2>2. EmulationExact'
    BY <1>1, <1>4 DEF EmulationExact, Back, Defined, Documented, Operands, Second, Destination, Matches
  <2> QED BY <1>1, <1>2, <1>3, <2>1, <2>2 DEF ExcAllInv
<1>5. CASE UNCHANGED excVars
  BY <1>4, <1>5 DEF excVars
<1>6. ASSUME NEW h, alt_instruction_exception_register(h) PROVE ExcAllInv'
  BY <1>4, <1>6 DEF alt_instruction_exception_register
<1>7. CASE Raise
  <2>1. /\ stage = "program" /\ resume = "this" /\ stage' = "entry" /\ by' = "nobody" /\ before' = regs
        /\ regs' = [regs EXCEPT ![ea] = Junk] /\ stack' = stack
    BY <1>7 DEF Raise
  <2>2. by # "emulation"
    BY <1>1, <2>1 DEF ExcIInv, RegistersKept, Back
  <2>3. regs \in [GPR -> Word] /\ stack \in [GPR -> Word] /\ regs[0] = 0
    BY <1>1, <2>2 DEF WordsInv
  <2>4. regs' \in [GPR -> Word] /\ regs'[0] = 0
    BY <2>1, <2>3, ExceptionsAssumption DEF GPR, ea
  <2>5. WordsInv'
    BY <2>1, <2>3, <2>4 DEF WordsInv
  <2> QED BY <1>1, <1>2, <1>3, <2>1, <2>5, NotToProgram DEF ExcAllInv
<1>8. CASE Entry
  <2>1. /\ stage = "entry" /\ stage' = "irqtest" /\ UNCHANGED <<regs, before, by>>
        /\ stack' = [r \in GPR |-> IF r \in Saved THEN regs[r] ELSE stack[r]]
    BY <1>8 DEF Entry
  <2>2. WordsInv'
    BY <1>1, <2>1 DEF WordsInv
  <2> QED BY <1>1, <1>2, <1>3, <2>1, <2>2, NotToProgram DEF ExcAllInv
<1>9. CASE NotIrq \/ Breakpoint
  <2>1. /\ stage \in {"irqtest", "soft"} /\ stage' \in {"soft", "break"} /\ UNCHANGED <<regs, stack, before, by>>
    BY <1>9 DEF NotIrq, Breakpoint
  <2>2. WordsInv'
    BY <1>1, <2>1 DEF WordsInv
  <2> QED BY <1>1, <1>2, <1>3, <2>1, <2>2, NotToProgram DEF ExcAllInv
<1>10. CASE IrqHandler \/ Continue \/ alt_instruction_exception_entry
  <2>1. /\ stage \in {"irqtest", "soft", "break"} /\ stage' = "exit" /\ UNCHANGED <<stack, before>>
        /\ regs' = regs \/ regs' = Scratched
    BY <1>10 DEF IrqHandler, Continue, alt_instruction_exception_entry
  <2>2. by' # "emulation"
    BY <1>1, <1>10 DEF IrqHandler, Continue, alt_instruction_exception_entry, ExcIInv, ExcShape, Handler
  <2>3. regs \in [GPR -> Word] /\ stack \in [GPR -> Word] /\ regs[0] = 0 /\ before \in [GPR -> Word] /\ before[0] = 0
    BY <1>1, <2>1 DEF WordsInv
  <2>4. WordsInv'
    BY <2>1, <2>2, <2>3, ScratchedWords DEF WordsInv
  <2> QED BY <1>1, <1>2, <1>3, <2>1, <2>2, <2>4, NotToProgram DEF ExcAllInv
<1>11. CASE Emulate
  <2>1. AnswerLeft' /\ WordsInv'
    BY <1>1, <1>11, EmulateAnswers
  <2>2. EmulationExact'
    BY <1>11 DEF Emulate, EmulationExact, Back
  <2> QED BY <1>1, <1>2, <1>3, <2>1, <2>2 DEF ExcAllInv
<1>12. CASE Exit
  BY <1>1, <1>2, <1>3, <1>12, ExitAnswers DEF ExcAllInv
<1> QED BY <1>5, <1>6, <1>7, <1>8, <1>9, <1>10, <1>11, <1>12 DEF ExcNext

(* The program does not notice an exception: its registers are as it left     *)
(* them, and an emulated multiplication or division, of registers of any       *)
(* width, has left in its destination what the instruction is defined to        *)
(* compute (alt_exception_muldiv.S:276-571).                                    *)
THEOREM ExceptionsUnnoticed == ExcSpec => []ExcInv
<1>1. ExcAllInv => ExcInv
  BY DEF ExcAllInv, ExcIInv, ExcInv
<1> QED BY <1>1, ExcAllInit, ExcAllNext, PTL DEF ExcSpec
---------------------------------------------------------------------------
(* Sums. *)

LEMMA SumRuns ==
    ASSUME NEW n \in Nat, NEW f \in [1..n -> Nat]
    PROVE  \E h \in [0..n -> Nat] : /\ h[0] = 0 /\ \A i \in 1..n : h[i] = h[i-1] + f[i]
                                    /\ SumOf(n, f) = h[n]
<1> DEFINE step == [i \in 1..n |-> [s \in Nat |-> s + f[i]]]
           F(g) == [i \in 0..n |-> IF i = 0 THEN 0 ELSE g[i-1] + f[i]]
           h == CHOOSE g : g = F(g)
<1>1. step \in [1..n -> [Nat -> Nat]]
  OBVIOUS
<1>2. PICK g \in [0..n -> Nat] : g[0] = 0 /\ \A i \in 1..n : g[i] = step[i][g[i-1]]
  <2> HIDE DEF step, F, h
  <2>1. 0 \in Nat
    OBVIOUS
  <2>2. Runs(n, Nat, 0, step)
    BY <1>1, <2>1, LoopRuns, Zenon
  <2> QED BY <2>2, Zenon DEF Runs
<1>3. \A i \in 1..n : g[i] = g[i-1] + f[i]
  <2> SUFFICES ASSUME NEW i \in 1..n PROVE g[i] = g[i-1] + f[i]
    OBVIOUS
  <2>1. i - 1 \in 0..n
    OBVIOUS
  <2>2. g[i-1] \in Nat
    BY <2>1
  <2> QED BY <1>2, <2>2
<1> HIDE DEF step
<1>4. g = F(g)
  BY <1>2, <1>3
<1>5. h = F(h)
  BY <1>4
<1>6. SumOf(n, f) = h[n]
  BY DEF SumOf
<1> HIDE DEF h
<1>7. h[0] = 0 /\ \A i \in 1..n : h[i] = h[i-1] + f[i]
  BY <1>5
<1>8. \A i \in 0..n : h[i] \in Nat
  <2> DEFINE G == {i \in 0..n : h[i] \in Nat}
  <2>1. 0 \in G
    BY <1>7
  <2>2. ASSUME NEW i \in 0..n-1, i \in G PROVE i + 1 \in G
    <3>1. i + 1 \in 1..n /\ i + 1 \in 0..n /\ i + 1 - 1 = i /\ h[i] \in Nat /\ f[i+1] \in Nat
      BY <2>2
    <3> QED BY <1>7, <3>1
  <2> HIDE DEF G
  <2>3. \A i \in 0..n : i \in G
    BY <2>1, <2>2, EveryRound
  <2> QED BY <2>3 DEF G
<1>9. h \in [0..n -> Nat]
  BY <1>5, <1>8
<1> QED BY <1>6, <1>7, <1>9

LEMMA SumIsNat ==
    ASSUME NEW n \in Nat, NEW f \in [1..n -> Nat]
    PROVE  SumOf(n, f) \in Nat /\ (n = 0 => SumOf(n, f) = 0)
<1>1. PICK h \in [0..n -> Nat] : h[0] = 0 /\ SumOf(n, f) = h[n]
  BY SumRuns, Zenon
<1>2. n \in 0..n
  OBVIOUS
<1> QED BY <1>1, <1>2

(* A sum with one term more, or with one term changed. *)
LEMMA SumAppend ==
    ASSUME NEW n \in Nat, NEW f \in [1..n -> Nat], NEW g \in [1..n+1 -> Nat], \A i \in 1..n : g[i] = f[i]
    PROVE  SumOf(n + 1, g) = SumOf(n, f) + g[n+1]
<1>1. PICK h \in [0..n -> Nat] : h[0] = 0 /\ (\A i \in 1..n : h[i] = h[i-1] + f[i]) /\ SumOf(n, f) = h[n]
  BY SumRuns, Zenon
<1>2. PICK k \in [0..n+1 -> Nat] : k[0] = 0 /\ (\A i \in 1..n+1 : k[i] = k[i-1] + g[i]) /\ SumOf(n+1, g) = k[n+1]
  <2>1. n + 1 \in Nat
    OBVIOUS
  <2> QED BY <2>1, SumRuns, Zenon
<1> DEFINE G == {i \in 0..n : k[i] = h[i]}
<1>3. 0 \in G
  BY <1>1, <1>2
<1>4. ASSUME NEW i \in 0..n-1, i \in G PROVE i + 1 \in G
  <2>1. i + 1 \in 1..n /\ i + 1 \in 1..n+1 /\ i + 1 - 1 = i /\ i + 1 \in 0..n /\ k[i] = h[i]
    BY <1>4
  <2>2. h[i+1] = h[i] + f[i+1] /\ k[i+1] = k[i] + g[i+1]
    <3> HIDE DEF G
    <3>1. h[i+1] = h[i+1-1] + f[i+1]
      BY <1>1, <2>1
    <3>2. k[i+1] = k[i+1-1] + g[i+1]
      BY <1>2, <2>1
    <3> QED BY <2>1, <3>1, <3>2
  <2> QED BY <2>1, <2>2
<1> HIDE DEF G
<1>5. n \in 0..n /\ n + 1 \in 1..n+1 /\ n + 1 - 1 = n
  OBVIOUS
<1>6. \A i \in 0..n : i \in G
  BY <1>3, <1>4, EveryRound
<1>7. k[n] = h[n]
  BY <1>5, <1>6 DEF G
<1>8. k[n+1] = k[n] + g[n+1]
  BY <1>2, <1>5
<1> QED BY <1>1, <1>2, <1>7, <1>8

LEMMA SumChange ==
    ASSUME NEW n \in Nat, NEW f \in [1..n -> Nat], NEW g \in [1..n -> Nat], NEW m \in 1..n,
           \A i \in 1..n : i # m => g[i] = f[i]
    PROVE  SumOf(n, g) = SumOf(n, f) - f[m] + g[m]
<1>1. PICK h \in [0..n -> Nat] : h[0] = 0 /\ (\A i \in 1..n : h[i] = h[i-1] + f[i]) /\ SumOf(n, f) = h[n]
  BY SumRuns, Zenon
<1>2. PICK k \in [0..n -> Nat] : k[0] = 0 /\ (\A i \in 1..n : k[i] = k[i-1] + g[i]) /\ SumOf(n, g) = k[n]
  BY SumRuns, Zenon
<1> DEFINE G == {i \in 0..n : k[i] = IF i < m THEN h[i] ELSE h[i] - f[m] + g[m]}
<1>3. 0 \in G
  BY <1>1, <1>2
<1>4. ASSUME NEW i \in 0..n-1, i \in G PROVE i + 1 \in G
  <2>1. i + 1 \in 1..n /\ i + 1 - 1 = i /\ i + 1 \in 0..n /\ i \in 0..n
    OBVIOUS
  <2>2. h[i+1] = h[i] + f[i+1] /\ k[i+1] = k[i] + g[i+1]
    <3> HIDE DEF G
    <3> QED BY <1>1, <1>2, <2>1
  <2>7. k[i] = IF i < m THEN h[i] ELSE h[i] - f[m] + g[m]
    BY <1>4
  <2>3. /\ h[i] \in Nat /\ f[m] \in Nat /\ g[m] \in Nat /\ f[i+1] \in Nat
        /\ g[i+1] \in Nat /\ h[i+1] \in Nat /\ k[i+1] \in Nat
    BY <2>1
  <2>4. CASE i + 1 < m
    BY <2>1, <2>2, <2>3, <2>4, <2>7
  <2>5. CASE i + 1 = m
    <3>1. k[i] = h[i] /\ ~(i + 1 < m)
      BY <2>1, <2>5, <2>7
    <3>3. f[i+1] = f[m] /\ g[i+1] = g[m]
      BY <2>5, Zenon
    <3>2. k[i+1] = h[i+1] - f[m] + g[m]
      BY <2>2, <2>3, <3>1, <3>3
    <3> QED BY <2>1, <3>1, <3>2
  <2>6. CASE i + 1 > m
    BY <2>1, <2>2, <2>3, <2>6, <2>7, SMTT(30)
  <2> QED BY <2>4, <2>5, <2>6
<1> HIDE DEF G
<1>5. n \in 0..n /\ ~(n < m)
  OBVIOUS
<1>6. \A i \in 0..n : i \in G
  BY <1>3, <1>4, EveryRound
<1> QED BY <1>1, <1>2, <1>5, <1>6 DEF G

LEMMA SumPositive ==
    ASSUME NEW n \in Nat, NEW f \in [1..n -> Nat], NEW m \in 1..n, f[m] # 0
    PROVE  SumOf(n, f) > 0
<1> DEFINE g == [f EXCEPT ![m] = 0]
<1>1. g \in [1..n -> Nat] /\ g[m] = 0 /\ \A i \in 1..n : i # m => g[i] = f[i]
  OBVIOUS
<1> HIDE DEF g
<1>2. SumOf(n, g) = SumOf(n, f) - f[m] + g[m]
  BY <1>1, SumChange
<1>3. SumOf(n, g) \in Nat /\ SumOf(n, f) \in Nat
  BY <1>1, SumIsNat
<1> QED BY <1>1, <1>2, <1>3
---------------------------------------------------------------------------
(* The profiler. *)

(* The last of a list's records, where it has any. *)
LEMMA LatestIs ==
    ASSUME NEW n \in Nat, NEW S \in SUBSET (1..n)
    PROVE  /\ S = {} => Latest(S) = NULL
           /\ S # {} => Latest(S) \in S /\ Latest(S) # NULL /\ \A i \in S : i <= Latest(S)
<1>1. ASSUME S # {} PROVE \E x \in S : \A y \in S : x >= y
  <2> DEFINE T == {n - i : i \in S}
  <2>1. T \subseteq Nat /\ T # {}
    <3>1. PICK i \in S : TRUE
      BY <1>1
    <3>2. n - i \in T
      OBVIOUS
    <3>3. \A j \in S : n - j \in Nat
      OBVIOUS
    <3> QED BY <3>2, <3>3
  <2> HIDE DEF T
  <2>2. PICK m \in T : \A t \in T : ~(<<t, m>> \in OpToRel(<, Nat))
    BY <2>1, NatLessThanWellFounded, WFMin
  <2>3. \A t \in T : ~(t < m)
    BY <2>1, <2>2 DEF OpToRel
  <2>4. PICK x \in S : m = n - x
    BY DEF T
  <2>5. ASSUME NEW y \in S PROVE x >= y
    <3>1. n - y \in T
      BY DEF T
    <3>2. ~(n - y < n - x)
      BY <2>3, <2>4, <3>1
    <3> QED BY <3>2
  <2> QED BY <2>5
<1>2. S # {} => Max(S) \in S /\ \A i \in S : Max(S) >= i
  BY <1>1 DEF Max
<1>3. S # {} => Latest(S) = Max(S)
  BY DEF Latest
<1> HIDE DEF Latest
<1>4. ASSUME S # {} PROVE Latest(S) \in S /\ Latest(S) # NULL /\ \A i \in S : i <= Latest(S)
  <2>1. Latest(S) \in S /\ \A i \in S : Latest(S) >= i
    BY <1>2, <1>3, <1>4
  <2>2. Latest(S) \in 1..n
    BY <2>1
  <2> QED BY <2>1, <2>2 DEF NULL
<1> QED BY <1>4 DEF Latest

LEMMA ArcsLemma ==
    ASSUME ProfTypeOK
    PROVE  /\ Len(arcs) \in Nat /\ DOMAIN arcs = 1..Len(arcs)
           /\ Len(fns) \in Nat /\ DOMAIN fns = 1..Len(fns)
           /\ \A j \in DOMAIN arcs : /\ arcs[j] \in [fn : Nat, from : Sites, count : Nat \ {0}]
                                     /\ arcs[j].count \in Nat \ {0} /\ arcs[j].from \in Sites
           /\ \A i : ArcsOf(i) \subseteq 1..Len(arcs)
           /\ cpu["main"] \in CpuState /\ cpu["isr"] \in CpuState /\ This \in CpuState
           /\ running \in {"main", "isr"}
<1>1. /\ Len(arcs) \in Nat /\ DOMAIN arcs = 1..Len(arcs)
      /\ Len(fns) \in Nat /\ DOMAIN fns = 1..Len(fns)
  BY DEF ProfTypeOK
<1>2. ASSUME NEW j \in DOMAIN arcs
      PROVE  /\ arcs[j] \in [fn : Nat, from : Sites, count : Nat \ {0}]
             /\ arcs[j].count \in Nat \ {0} /\ arcs[j].from \in Sites
  <2>1. arcs[j] \in [fn : Nat, from : Sites, count : Nat \ {0}]
    <3> DEFINE S == [fn : Nat, from : Sites, count : Nat \ {0}]
    <3>1. arcs \in Seq(S) /\ j \in 1..Len(arcs)
      BY <1>1 DEF ProfTypeOK
    <3> HIDE DEF S
    <3>2. arcs[j] \in S
      BY <3>1
    <3> QED BY <3>2 DEF S
  <2> QED BY <2>1
<1>3. ASSUME NEW i PROVE ArcsOf(i) \subseteq 1..Len(arcs)
  BY <1>1 DEF ArcsOf
<1>4. cpu["main"] \in CpuState /\ cpu["isr"] \in CpuState /\ This \in CpuState /\ running \in {"main", "isr"}
  BY DEF ProfTypeOK, Context, This
<1> QED BY <1>1, <1>2, <1>3, <1>4

LEMMA CountsType ==
    ASSUME ProfTypeOK, NEW a \in Selves \X Sites
    PROVE  /\ CountsOf(a) \in [1..Len(arcs) -> Nat] /\ Len(arcs) \in Nat /\ Counted(a) \in Nat
           /\ calls[a] \in Nat /\ lost[a] \in Nat
<1>1. CountsOf(a) \in [1..Len(arcs) -> Nat] /\ Len(arcs) \in Nat
  BY ArcsLemma DEF CountsOf
<1>2. Counted(a) \in Nat
  BY <1>1, SumIsNat DEF Counted
<1> QED BY <1>1, <1>2 DEF ProfTypeOK

(* A step of a search: only the registers of whoever runs change. *)
LEMMA Moves ==
    ASSUME ProfIInv, NEW w \in CpuState, cpu' = [cpu EXCEPT ![running] = w],
           UNCHANGED <<fns, arcs, running, calls, lost>>,
           This.pc # "store",
           Found(w), MissedFns(w) \subseteq MissedFns(This), MissedArcs(w) \subseteq MissedArcs(This),
           w.pc = "store" => w.r2 = arcs[w.arc].count
    PROVE  ProfIInv'
<1>1. /\ ProfTypeOK /\ Found(cpu["main"]) /\ Found(cpu["isr"]) /\ MissInv /\ CopyInv /\ CountsInv
  BY DEF ProfIInv
<1>2. ProfTypeOK'
  BY <1>1 DEF ProfTypeOK
<1>3. /\ running = "main" => cpu'["main"] = w /\ cpu'["isr"] = cpu["isr"] /\ This = cpu["main"]
      /\ running = "isr" => cpu'["isr"] = w /\ cpu'["main"] = cpu["main"] /\ This = cpu["isr"]
      /\ running \in {"main", "isr"}
  BY <1>1 DEF ProfTypeOK, Context, This
<1>4. Found(cpu["main"])' /\ Found(cpu["isr"])'
  <2>1. Found(cpu'["main"]) /\ Found(cpu'["isr"])
    BY <1>1, <1>3
  <2> QED BY <2>1 DEF Found, FnFound, ArcsOf
<1>5. MissInv'
  <2>1. /\ AtMostOne(MissedFns(cpu'["main"])) /\ AtMostOne(MissedArcs(cpu'["main"]))
        /\ MissedFns(cpu'["isr"]) = {} /\ MissedArcs(cpu'["isr"]) = {}
    <3>1. CASE running = "main"
      BY <1>1, <1>3, <3>1 DEF MissInv, AtMostOne
    <3>2. CASE running = "isr"
      <4>1. MissedFns(w) = {} /\ MissedArcs(w) = {}
        BY <1>1, <1>3, <3>2 DEF MissInv
      <4> QED BY <1>1, <1>3, <3>2, <4>1 DEF MissInv
    <3> QED BY <1>3, <3>1, <3>2
  <2>2. running' = "main" => cpu'["isr"] = Idle
    BY <1>1, <1>3 DEF MissInv
  <2>3. /\ MissedFns(cpu["main"])' = MissedFns(cpu'["main"]) /\ MissedArcs(cpu["main"])' = MissedArcs(cpu'["main"])
        /\ MissedFns(cpu["isr"])' = MissedFns(cpu'["isr"]) /\ MissedArcs(cpu["isr"])' = MissedArcs(cpu'["isr"])
    BY DEF MissedFns, MissedArcs, FnSought, ArcsOf
  <2>4. /\ AtMostOne(MissedFns(cpu["main"])') /\ AtMostOne(MissedArcs(cpu["main"])')
        /\ MissedFns(cpu["isr"])' = {} /\ MissedArcs(cpu["isr"])' = {}
    BY <2>1, <2>3, Zenon
  <2> QED BY <2>2, <2>4 DEF MissInv, AtMostOne
<1>6. CopyInv'
  BY <1>1 DEF CopyInv, ArcsOf, AtMostTwo
<1>7. CountsInv'
  <2>1. ASSUME NEW a \in Selves \X Sites PROVE Counted(a)' = Counted(a) /\ Copies(a)' = Copies(a)
    BY DEF Counted, CountsOf, Copies, SumOf
  <2>2. /\ cpu'["main"].pc = "store" => cpu'["main"].r2 <= arcs[cpu'["main"].arc].count /\ cpu'["main"].r2 # 0
        /\ cpu'["isr"].pc = "store" => cpu'["isr"].r2 = arcs[cpu'["isr"].arc].count
    <3>1. w.pc = "store" => w.r2 <= arcs[w.arc].count /\ w.r2 # 0
      <4> SUFFICES ASSUME w.pc = "store" PROVE w.r2 <= arcs[w.arc].count /\ w.r2 # 0
        OBVIOUS
      <4>1. w.arc \in ArcsOf(w.fn)
        BY DEF Found
      <4>2. w.arc \in DOMAIN arcs
        BY <4>1 DEF ArcsOf
      <4>3. arcs[w.arc].count \in Nat \ {0}
        BY <1>1, <4>2, ArcsLemma
      <4> QED BY <4>3
    <3> QED BY <1>1, <1>3, <3>1 DEF CountsInv
  <2>3. ASSUME NEW a \in Selves \X Sites PROVE Undone(a)' = Undone(a)
    <3>1. CASE running = "isr"
      BY <1>3, <3>1 DEF Undone
    <3>2. CASE running = "main"
      <4>1. Undone(a) = 0
        BY <1>3, <3>2 DEF Undone
      <4>2. Undone(a)' = 0
        <5>1. CASE w.pc # "store"
          BY <1>3, <3>2, <5>1 DEF Undone
        <5>2. CASE w.pc = "store"
          <6>1. w.arc \in ArcsOf(w.fn)
            BY <5>2 DEF Found
          <6>2. arcs[w.arc].count \in Nat
            BY <1>1, <6>1, ArcsLemma DEF ArcsOf
          <6>3. arcs'[w.arc].count - w.r2 = 0
            BY <5>2, <6>2
          <6> QED BY <1>3, <3>2, <6>3 DEF Undone
        <5> QED BY <5>1, <5>2
      <4> QED BY <4>1, <4>2
    <3> QED BY <1>3, <3>1, <3>2
  <2> QED BY <1>1, <2>1, <2>2, <2>3 DEF CountsInv
<1> QED BY <1>2, <1>4, <1>5, <1>6, <1>7 DEF ProfIInv

(* The steps of a search. *)
LEMMA SearchSteps ==
    ASSUME ProfIInv,
           (\E self \in Selves, from \in Sites : mcount(self, from)) \/ FindFunction \/ FindArc \/ Load
    PROVE  ProfIInv'
<1> DEFINE v == This
<1>1. ProfTypeOK /\ Found(v) /\ CopyInv /\ v \in CpuState
  <2>1. ProfTypeOK /\ Found(cpu["main"]) /\ Found(cpu["isr"]) /\ CopyInv
    BY DEF ProfIInv
  <2>2. v = cpu["main"] \/ v = cpu["isr"]
    BY <2>1, ArcsLemma DEF This
  <2> QED BY <2>1, <2>2, ArcsLemma
<1>2. /\ Len(arcs) \in Nat /\ DOMAIN arcs = 1..Len(arcs) /\ Len(fns) \in Nat /\ DOMAIN fns = 1..Len(fns)
      /\ \A j \in DOMAIN arcs : arcs[j].count \in Nat \ {0}
      /\ \A i : ArcsOf(i) \subseteq 1..Len(arcs)
  BY <1>1, ArcsLemma
<1>3. ASSUME NEW p, NEW c, GoOn(p, c) PROVE cpu' = [cpu EXCEPT ![running] = [c EXCEPT !.pc = p]]
  BY <1>3 DEF GoOn
<1>4. CASE \E self \in Selves, from \in Sites : mcount(self, from)
  <2>1. PICK self \in Selves, from \in Sites : mcount(self, from)
    BY <1>4
  <2> DEFINE w == [[v EXCEPT !.self = self, !.from = from, !.fn = Len(fns)] EXCEPT !.pc = "function"]
  <2>2. /\ v.pc = "idle" /\ cpu' = [cpu EXCEPT ![running] = w]
        /\ UNCHANGED <<fns, arcs, running, calls, lost>>
    BY <2>1 DEF mcount, At, GoOn, This
  <2>3. w \in CpuState /\ w.pc = "function" /\ w.self = self /\ w.from = from /\ w.fn = Len(fns)
    BY <1>1, <1>2 DEF CpuState
  <2> HIDE DEF w
  <2>4. Found(w)
    BY <1>2, <2>3 DEF Found, FnFound
  <2>5. MissedFns(w) = {} /\ MissedArcs(w) = {}
    BY <1>2, <2>3 DEF MissedFns, MissedArcs
  <2> HIDE DEF v
  <2> QED BY <2>2, <2>3, <2>4, <2>5, Moves DEF v
<1>5. CASE FindFunction
  <2>1. v.pc = "function" /\ UNCHANGED <<fns, arcs, running, calls, lost>>
    BY <1>5 DEF FindFunction, At, This
  <2>2. v.fn \in 0..Len(fns) /\ v.self \in Selves /\ v.from \in Sites
    BY <1>1, <2>1 DEF Found
  <2>3. CASE v.fn = NULL
    <3> DEFINE w == [v EXCEPT !.pc = "record"]
    <3>1. cpu' = [cpu EXCEPT ![running] = w]
      BY <1>5, <2>3 DEF FindFunction, GoOn
    <3>2. w \in CpuState /\ w.pc = "record" /\ w.self = v.self /\ w.from = v.from /\ w.fn = NULL
      BY <1>1, <2>3 DEF CpuState
    <3> HIDE DEF w
    <3>3. Found(w)
      BY <2>2, <3>2 DEF Found, FnFound
    <3>4. MissedFns(w) \subseteq MissedFns(v) /\ MissedArcs(w) = {}
      BY <2>1, <2>3, <3>2 DEF MissedFns, MissedArcs, FnSought
    <3> HIDE DEF v
    <3> QED BY <2>1, <3>1, <3>2, <3>3, <3>4, Moves DEF v
  <2>4. CASE v.fn # NULL /\ fns[v.fn] = v.self
    <3> DEFINE S == ArcsOf(v.fn)
               w == [[v EXCEPT !.arc = Latest(S)] EXCEPT !.pc = "arc"]
    <3>1. cpu' = [cpu EXCEPT ![running] = w]
      BY <1>5, <2>4 DEF FindFunction, GoOn
    <3>2. v.fn \in DOMAIN fns
      BY <1>2, <2>2, <2>4 DEF NULL
    <3>3. S # {}
      BY <1>1, <2>2, <3>2 DEF CopyInv
    <3>4. Latest(S) \in S /\ (\A i \in S : i <= Latest(S)) /\ S \subseteq 1..Len(arcs)
      BY <1>2, <3>3, LatestIs
    <3>5. Latest(S) \in Nat
      BY <1>2, <3>4
    <3>6. w \in CpuState /\ w.pc = "arc" /\ w.self = v.self /\ w.from = v.from /\ w.fn = v.fn /\ w.arc = Latest(S)
      BY <1>1, <3>5 DEF CpuState
    <3> HIDE DEF w
    <3>7. Found(w)
      BY <2>2, <2>4, <3>2, <3>4, <3>6 DEF Found, FnFound
    <3>8. MissedFns(w) = {} /\ MissedArcs(w) = {}
      BY <1>2, <3>4, <3>5, <3>6 DEF MissedFns, MissedArcs, FnSought
    <3> HIDE DEF v, S
    <3> QED BY <2>1, <3>1, <3>6, <3>7, <3>8, Moves DEF v
  <2>5. CASE v.fn # NULL /\ fns[v.fn] # v.self
    <3> DEFINE w == [[v EXCEPT !.fn = @ - 1] EXCEPT !.pc = "function"]
    <3>1. cpu' = [cpu EXCEPT ![running] = w]
      BY <1>5, <2>5 DEF FindFunction, GoOn
    <3>2. v.fn - 1 \in 0..Len(fns) /\ v.fn - 1 \in Nat /\ v.fn \in Nat
      BY <1>2, <2>2, <2>5 DEF NULL
    <3>3. w \in CpuState /\ w.pc = "function" /\ w.self = v.self /\ w.from = v.from /\ w.fn = v.fn - 1
      BY <1>1, <3>2 DEF CpuState
    <3> HIDE DEF w
    <3>4. Found(w)
      BY <2>2, <3>2, <3>3 DEF Found, FnFound
    <3>5. MissedFns(w) \subseteq MissedFns(v) /\ MissedArcs(w) = {}
      <4>1. ASSUME NEW i \in DOMAIN fns, v.fn - 1 < i, fns[i] = v.self PROVE v.fn < i
        BY <1>2, <2>5, <3>2, <4>1
      <4> QED BY <2>1, <3>3, <4>1 DEF MissedFns, MissedArcs, FnSought
    <3> HIDE DEF v
    <3> QED BY <2>1, <3>1, <3>3, <3>4, <3>5, Moves DEF v
  <2> QED BY <2>3, <2>4, <2>5
<1>6. CASE FindArc
  <2> DEFINE S == {i \in ArcsOf(v.fn) : i < v.arc}
  <2>1. v.pc = "arc" /\ UNCHANGED <<fns, arcs, running, calls, lost>>
    BY <1>6 DEF FindArc, At, This
  <2>2. /\ v.fn \in DOMAIN fns /\ fns[v.fn] = v.self /\ v.self \in Selves /\ v.from \in Sites
        /\ v.arc \in ArcsOf(v.fn) /\ v.fn # NULL /\ v.arc \in Nat
    <3>1. v.fn \in DOMAIN fns /\ fns[v.fn] = v.self /\ v.self \in Selves /\ v.from \in Sites /\ v.arc \in ArcsOf(v.fn)
      BY <1>1, <2>1 DEF Found, FnFound
    <3> QED BY <1>2, <3>1 DEF NULL
  <2>3. /\ NextArc = Latest(S) /\ S \subseteq ArcsOf(v.fn)
        /\ S = {} => Latest(S) = NULL
        /\ S # {} => Latest(S) \in S /\ Latest(S) # NULL /\ \A i \in S : i <= Latest(S)
    <3>1. NextArc = Latest(S) /\ S \subseteq ArcsOf(v.fn) /\ S \subseteq 1..Len(arcs)
      BY <1>2 DEF NextArc
    <3> HIDE DEF S
    <3> QED BY <1>2, <3>1, LatestIs
  <2>4. CASE arcs[v.arc].from = v.from
    <3> DEFINE w == [v EXCEPT !.pc = "load"]
    <3>1. cpu' = [cpu EXCEPT ![running] = w]
      BY <1>6, <2>4 DEF FindArc, GoOn
    <3>2. w \in CpuState /\ w.pc = "load" /\ w.self = v.self /\ w.from = v.from /\ w.fn = v.fn /\ w.arc = v.arc
      BY <1>1 DEF CpuState
    <3> HIDE DEF w
    <3>3. Found(w)
      BY <2>2, <2>4, <3>2 DEF Found, FnFound
    <3>4. MissedFns(w) = {} /\ MissedArcs(w) = {}
      BY <3>2 DEF MissedFns, MissedArcs, FnSought
    <3> HIDE DEF v
    <3> QED BY <2>1, <3>1, <3>2, <3>3, <3>4, Moves DEF v
  <2>5. CASE arcs[v.arc].from # v.from /\ S = {}
    <3> DEFINE w == [v EXCEPT !.pc = "record"]
    <3>1. cpu' = [cpu EXCEPT ![running] = w]
      BY <1>6, <2>3, <2>5 DEF FindArc, GoOn
    <3>2. w \in CpuState /\ w.pc = "record" /\ w.self = v.self /\ w.from = v.from /\ w.fn = v.fn /\ w.arc = v.arc
      BY <1>1 DEF CpuState
    <3> HIDE DEF w
    <3>3. Found(w)
      BY <2>2, <3>2 DEF Found, FnFound
    <3>4. MissedFns(w) = {}
      BY <2>2, <3>2 DEF MissedFns, FnSought
    <3>5. MissedArcs(w) \subseteq MissedArcs(v)
      <4>1. ASSUME NEW j \in ArcsOf(v.fn), arcs[j].from = v.from PROVE v.arc < j
        <5>1. ~(j < v.arc) /\ j # v.arc
          BY <2>5, <4>1
        <5>2. j \in Nat
          BY <1>2
        <5> QED BY <2>2, <5>1, <5>2
      <4> QED BY <2>1, <3>2, <4>1 DEF MissedArcs
    <3> HIDE DEF v
    <3> QED BY <2>1, <3>1, <3>2, <3>3, <3>4, <3>5, Moves DEF v
  <2>6. CASE arcs[v.arc].from # v.from /\ S # {}
    <3> DEFINE a == Latest(S)
               w == [[v EXCEPT !.arc = NextArc] EXCEPT !.pc = "arc"]
    <3>1. cpu' = [cpu EXCEPT ![running] = w]
      <4>1. NextArc # NULL
        BY <2>3, <2>6
      <4> QED BY <1>6, <2>6, <4>1 DEF FindArc, GoOn
    <3>2. a \in ArcsOf(v.fn) /\ a \in Nat /\ NextArc = a
      <4>1. a \in S /\ NextArc = a
        BY <2>3, <2>6
      <4>2. a \in ArcsOf(v.fn)
        BY <4>1
      <4> QED BY <1>2, <4>1, <4>2
    <3>3. w \in CpuState /\ w.pc = "arc" /\ w.self = v.self /\ w.from = v.from /\ w.fn = v.fn /\ w.arc = a
      BY <1>1, <3>2 DEF CpuState
    <3> HIDE DEF w
    <3>4. Found(w)
      BY <2>2, <3>2, <3>3 DEF Found, FnFound
    <3>5. MissedFns(w) = {}
      BY <3>3 DEF MissedFns, FnSought
    <3>6. MissedArcs(w) \subseteq MissedArcs(v)
      <4>1. ASSUME NEW j \in ArcsOf(v.fn), arcs[j].from = v.from, a < j PROVE v.arc < j
        <5>1. j \in Nat /\ j # v.arc
          BY <1>2, <2>6, <4>1
        <5>2. ~(j < v.arc)
          <6> SUFFICES ASSUME j < v.arc PROVE FALSE
            OBVIOUS
          <6>1. j \in S
            OBVIOUS
          <6>2. j <= a
            BY <2>3, <6>1
          <6> QED BY <3>2, <4>1, <5>1, <6>2
        <5> QED BY <2>2, <5>1, <5>2
      <4> QED BY <2>1, <3>3, <4>1 DEF MissedArcs
    <3> HIDE DEF v
    <3> QED BY <2>1, <3>1, <3>3, <3>4, <3>5, <3>6, Moves DEF v
  <2> QED BY <2>4, <2>5, <2>6
<1>7. CASE Load
  <2> DEFINE w == [[v EXCEPT !.r2 = arcs[v.arc].count] EXCEPT !.pc = "store"]
  <2>1. /\ v.pc = "load" /\ cpu' = [cpu EXCEPT ![running] = w]
        /\ UNCHANGED <<fns, arcs, running, calls, lost>>
    BY <1>7 DEF Load, At, GoOn, This
  <2>2. /\ v.fn \in DOMAIN fns /\ fns[v.fn] = v.self /\ v.self \in Selves /\ v.from \in Sites
        /\ v.arc \in ArcsOf(v.fn) /\ arcs[v.arc].from = v.from
    BY <1>1, <2>1 DEF Found, FnFound
  <2>3. arcs[v.arc].count \in Nat
    BY <1>2, <2>2 DEF ArcsOf
  <2>4. /\ w \in CpuState /\ w.pc = "store" /\ w.self = v.self /\ w.from = v.from /\ w.fn = v.fn /\ w.arc = v.arc
        /\ w.r2 = arcs[v.arc].count
    BY <1>1, <2>3 DEF CpuState
  <2> HIDE DEF w
  <2>5. Found(w)
    BY <2>2, <2>4 DEF Found, FnFound
  <2>6. MissedFns(w) = {} /\ MissedArcs(w) = {}
    BY <2>4 DEF MissedFns, MissedArcs, FnSought
  <2> HIDE DEF v
  <2> QED BY <2>1, <2>4, <2>5, <2>6, Moves DEF v
<1> QED BY <1>4, <1>5, <1>6, <1>7

(* The store: one more call, and what the routine counted in between undone. *)
LEMMA StoreStep ==
    ASSUME ProfIInv, Store
    PROVE  ProfIInv'
<1> DEFINE v == This
           k == v.arc
           key == <<v.self, v.from>>
           m == cpu["main"]
<1>1. /\ ProfTypeOK /\ Found(m) /\ Found(cpu["isr"]) /\ MissInv /\ CopyInv /\ CountsInv
  BY DEF ProfIInv
<1>2. /\ v.pc = "store" /\ cpu' = [cpu EXCEPT ![running] = Idle]
      /\ calls' = [calls EXCEPT ![key] = @ + 1]
      /\ arcs' = [arcs EXCEPT ![k].count = v.r2 + 1]
      /\ lost' = IF Overtaken THEN [lost EXCEPT ![key] = @ + 1] ELSE lost
      /\ fns' = fns /\ running' = running
  BY DEF Store, At, Return, This
<1>3. /\ Len(arcs) \in Nat /\ DOMAIN arcs = 1..Len(arcs) /\ Len(fns) \in Nat /\ DOMAIN fns = 1..Len(fns)
      /\ \A j \in DOMAIN arcs : /\ arcs[j] \in [fn : Nat, from : Sites, count : Nat \ {0}]
                                /\ arcs[j].count \in Nat \ {0}
      /\ \A i : ArcsOf(i) \subseteq 1..Len(arcs)
      /\ running \in {"main", "isr"} /\ v \in CpuState /\ m \in CpuState
      /\ (running = "main" => v = m) /\ (running = "isr" => v = cpu["isr"])
  BY <1>1, ArcsLemma DEF This
<1>4. /\ v.fn \in DOMAIN fns /\ fns[v.fn] = v.self /\ v.self \in Selves /\ v.from \in Sites
      /\ k \in ArcsOf(v.fn) /\ arcs[k].from = v.from /\ k \in DOMAIN arcs /\ arcs[k].fn = v.fn
  <2>1. Found(v)
    BY <1>1, <1>3
  <2>2. /\ v.fn \in DOMAIN fns /\ fns[v.fn] = v.self /\ v.self \in Selves /\ v.from \in Sites
        /\ k \in ArcsOf(v.fn) /\ arcs[k].from = v.from
    BY <1>2, <2>1 DEF Found, FnFound
  <2> QED BY <2>2 DEF ArcsOf
<1>5. v.r2 \in Nat /\ v.r2 <= arcs[k].count /\ v.r2 # 0 /\ (running = "isr" => v.r2 = arcs[k].count)
  <2>1. v.r2 \in Nat /\ arcs[k].count \in Nat \ {0}
    BY <1>3, <1>4 DEF CpuState
  <2>2. CASE running = "main"
    BY <1>1, <1>2, <1>3, <2>1, <2>2 DEF CountsInv
  <2>3. CASE running = "isr"
    <3>1. v.r2 = arcs[k].count
      BY <1>1, <1>2, <1>3, <2>3 DEF CountsInv
    <3> QED BY <2>1, <3>1
  <2> QED BY <1>3, <2>2, <2>3
<1>6. /\ DOMAIN arcs' = DOMAIN arcs /\ Len(arcs') = Len(arcs)
      /\ arcs'[k] = [arcs[k] EXCEPT !.count = v.r2 + 1]
      /\ \A j \in DOMAIN arcs : j # k => arcs'[j] = arcs[j]
  <2> HIDE DEF v, k
  <2> QED BY <1>1, <1>2, <1>4 DEF ProfTypeOK
<1>7. /\ \A j \in DOMAIN arcs : arcs'[j].fn = arcs[j].fn /\ arcs'[j].from = arcs[j].from
      /\ arcs'[k].count = v.r2 + 1
  <2>1. arcs'[k].fn = arcs[k].fn /\ arcs'[k].from = arcs[k].from /\ arcs'[k].count = v.r2 + 1
    BY <1>3, <1>4, <1>6
  <2> QED BY <1>6, <2>1
<1>8. ProfTypeOK'
  <2>1. arcs'[k] \in [fn : Nat, from : Sites, count : Nat \ {0}]
    <3>1. arcs[k] \in [fn : Nat, from : Sites, count : Nat \ {0}]
      BY <1>3, <1>4, Zenon
    <3>2. v.r2 + 1 \in Nat \ {0}
      BY <1>5
    <3> HIDE DEF v, k
    <3> QED BY <1>6, <3>1, <3>2
  <2>2. arcs' \in Seq([fn : Nat, from : Sites, count : Nat \ {0}])
    <3> DEFINE R == [fn : Nat, from : Sites, count : Nat \ {0}]
               r == [arcs[k] EXCEPT !.count = v.r2 + 1]
    <3>1. arcs' = [arcs EXCEPT ![k] = r] /\ r \in R /\ arcs \in Seq(R)
      BY <1>1, <1>2, <1>6, <2>1 DEF ProfTypeOK
    <3> DEFINE n == Len(arcs)
    <3>2. n \in Nat /\ arcs \in [1..n -> R] /\ DOMAIN arcs' = 1..n
      BY <1>3, <1>6, <3>1
    <3> HIDE DEF R, r, n
    <3>3. arcs' \in [1..n -> R]
      BY <3>1, <3>2
    <3>4. arcs' \in Seq(R)
      BY <3>2, <3>3
    <3> QED BY <3>4 DEF R
  <2>3. \A j \in DOMAIN arcs' : arcs'[j].fn \in DOMAIN fns'
    BY <1>1, <1>2, <1>6, <1>7 DEF ProfTypeOK
  <2>4. cpu' \in [Context -> CpuState]
    <3>1. Idle \in CpuState
      BY DEF Idle, CpuState, NULL
    <3> QED BY <1>1, <1>2, <3>1 DEF ProfTypeOK
  <2>5. calls' \in [Selves \X Sites -> Nat] /\ lost' \in [Selves \X Sites -> Nat]
    <3>1. key \in Selves \X Sites /\ calls[key] + 1 \in Nat /\ lost[key] + 1 \in Nat
      BY <1>1, <1>4, CountsType
    <3> HIDE DEF key
    <3> QED BY <1>1, <1>2, <3>1 DEF ProfTypeOK
  <2> QED BY <1>1, <1>2, <2>2, <2>3, <2>4, <2>5 DEF ProfTypeOK
<1>9. /\ running = "main" => cpu'["main"] = Idle /\ cpu'["isr"] = cpu["isr"]
      /\ running = "isr" => cpu'["isr"] = Idle /\ cpu'["main"] = m
  BY <1>1, <1>2 DEF ProfTypeOK, Context
<1>10. \A i : ArcsOf(i)' = ArcsOf(i)
  BY <1>6, <1>7 DEF ArcsOf
<1>11. Idle.pc = "idle"
  BY DEF Idle
<1>12. Found(cpu["main"])' /\ Found(cpu["isr"])'
  <2>1. ASSUME NEW c \in Context PROVE Found(cpu[c])'
    <3>1. CASE cpu'[c] = Idle
      BY <1>11, <3>1 DEF Found, FnFound
    <3>2. CASE cpu'[c] = cpu[c]
      <4>1. Found(cpu[c])
        BY <1>1 DEF Context
      <4>2. cpu[c].pc \in {"load", "store"} => cpu[c].arc \in DOMAIN arcs
        BY <4>1 DEF Found, ArcsOf
      <4> HIDE DEF v, k, key, m
      <4> QED BY <1>2, <1>7, <1>10, <3>2, <4>1, <4>2 DEF Found, FnFound
    <3>3. cpu'[c] = Idle \/ cpu'[c] = cpu[c]
      BY <1>3, <1>9 DEF Context
    <3> QED BY <3>1, <3>2, <3>3
  <2> QED BY <2>1 DEF Context
<1>13. MissInv'
  <2>1. ASSUME NEW c \in Context
        PROVE  MissedFns(cpu[c])' \subseteq MissedFns(cpu[c]) /\ MissedArcs(cpu[c])' \subseteq MissedArcs(cpu[c])
    <3>1. CASE cpu'[c] = Idle
      BY <1>11, <3>1 DEF MissedFns, MissedArcs, FnSought
    <3>2. CASE cpu'[c] = cpu[c]
      <4>1. \A i \in DOMAIN arcs : arcs'[i].from = arcs[i].from
        BY <1>7
      <4> HIDE DEF v, k, key, m
      <4>2. MissedFns(cpu[c])' \subseteq MissedFns(cpu[c])
        BY <1>2, <3>2 DEF MissedFns, FnSought
      <4>3. MissedArcs(cpu[c])' \subseteq MissedArcs(cpu[c])
        <5>1. ArcsOf(cpu[c].fn)' = ArcsOf(cpu[c].fn)
          BY <1>6, <1>7, <3>2 DEF ArcsOf
        <5>2. \A j \in ArcsOf(cpu[c].fn) : arcs'[j].from = arcs[j].from
          BY <4>1 DEF ArcsOf
        <5>3. MissedArcs(cpu[c])' = {j \in ArcsOf(cpu[c].fn) :
                  /\ (cpu[c].pc = "arc" /\ cpu[c].arc < j) \/ (cpu[c].pc = "record" /\ cpu[c].fn # NULL)
                  /\ arcs'[j].from = cpu[c].from}
          BY <3>2, <5>1 DEF MissedArcs
        <5> QED BY <5>2, <5>3 DEF MissedArcs
      <4> QED BY <4>2, <4>3
    <3>3. cpu'[c] = Idle \/ cpu'[c] = cpu[c]
      BY <1>3, <1>9 DEF Context
    <3> QED BY <3>1, <3>2, <3>3
  <2>2. running' = "main" => cpu'["isr"] = Idle
    BY <1>1, <1>2, <1>9 DEF MissInv
  <2>3. "main" \in Context /\ "isr" \in Context
    BY DEF Context
  <2>4. /\ MissedFns(cpu["main"])' \subseteq MissedFns(cpu["main"]) /\ MissedArcs(cpu["main"])' \subseteq MissedArcs(cpu["main"])
        /\ MissedFns(cpu["isr"])' \subseteq MissedFns(cpu["isr"]) /\ MissedArcs(cpu["isr"])' \subseteq MissedArcs(cpu["isr"])
    BY <2>1, <2>3, Zenon
  <2>5. AtMostOne(MissedFns(cpu["main"]))' /\ AtMostOne(MissedArcs(cpu["main"]))'
    BY <1>1, <2>4 DEF MissInv, AtMostOne
  <2>6. MissedFns(cpu["isr"])' = {} /\ MissedArcs(cpu["isr"])' = {}
    BY <1>1, <2>4 DEF MissInv
  <2> QED BY <2>2, <2>5, <2>6 DEF MissInv
<1>14. CopyInv'
  <2>1. ASSUME NEW f \in Selves PROVE AtMostTwo({i \in DOMAIN fns : fns[i] = f})'
    BY <1>1, <1>2 DEF CopyInv, AtMostTwo
  <2>2. ASSUME NEW i \in DOMAIN fns', NEW from \in Sites
        PROVE  ArcsOf(i)' # {} /\ AtMostTwo({j \in ArcsOf(i) : arcs[j].from = from})'
    <3>1. ArcsOf(i) # {} /\ AtMostTwo({j \in ArcsOf(i) : arcs[j].from = from})
      BY <1>1, <1>2 DEF CopyInv
    <3>2. \A j \in ArcsOf(i) : arcs'[j].from = arcs[j].from
      BY <1>7 DEF ArcsOf
    <3>3. {j \in ArcsOf(i) : arcs[j].from = from}' = {j \in ArcsOf(i) : arcs[j].from = from}
      BY <1>10, <3>2
    <3> QED BY <1>10, <3>1, <3>3, Zenon DEF AtMostTwo
  <2> QED BY <2>1, <2>2 DEF CopyInv
<1>15. CountsInv'
  <2>1. \A a : Copies(a)' = Copies(a)
    BY <1>2, <1>6, <1>7 DEF Copies
  <2>2. key \in Selves \X Sites /\ k \in 1..Len(arcs) /\ \A a \in Selves \X Sites : k \in Copies(a) <=> a = key
    <3>1. key \in Selves \X Sites /\ k \in 1..Len(arcs)
      BY <1>3, <1>4
    <3>2. ASSUME NEW a \in Selves \X Sites PROVE k \in Copies(a) <=> a = key
      <4>1. k \in Copies(a) <=> v.self = a[1] /\ v.from = a[2]
        BY <1>4 DEF Copies
      <4>2. a = <<a[1], a[2]>>
        OBVIOUS
      <4> QED BY <4>1, <4>2
    <3> QED BY <3>1, <3>2
  <2>3. ASSUME NEW a \in Selves \X Sites
        PROVE  Counted(a)' = IF a = key THEN Counted(a) - arcs[k].count + (v.r2 + 1) ELSE Counted(a)
    <3> DEFINE f == CountsOf(a)
               g == CountsOf(a)'
               n == Len(arcs)
    <3>1. f \in [1..n -> Nat] /\ n \in Nat /\ g \in [1..n -> Nat]
      <4>1. f \in [1..n -> Nat] /\ n \in Nat
        BY <1>1, CountsType
      <4>2. ASSUME NEW i \in 1..n PROVE (IF i \in Copies(a) THEN arcs'[i].count ELSE 0) \in Nat
        <5>1. CASE i = k
          BY <1>5, <1>7, <5>1
        <5>2. CASE i # k
          BY <1>3, <1>6, <5>2
        <5> QED BY <5>1, <5>2
      <4>3. g = [i \in 1..n |-> IF i \in Copies(a) THEN arcs'[i].count ELSE 0]
        BY <1>3, <1>6, <2>1 DEF CountsOf
      <4> QED BY <4>1, <4>2, <4>3
    <3>2. \A i \in 1..n : i # k => g[i] = f[i]
      BY <1>3, <1>6, <2>1 DEF CountsOf
    <3>3. g[k] = IF a = key THEN v.r2 + 1 ELSE 0
      BY <1>3, <1>6, <1>7, <2>1, <2>2 DEF CountsOf
    <3>4. f[k] = IF a = key THEN arcs[k].count ELSE 0
      BY <1>3, <2>2 DEF CountsOf
    <3>5. Counted(a) = SumOf(n, f)
      BY DEF Counted
    <3>6. Counted(a)' = SumOf(n, g)
      BY <1>6 DEF Counted, SumOf
    <3> HIDE DEF f, g, n
    <3>7. SumOf(n, g) = SumOf(n, f) - f[k] + g[k]
      BY <2>2, <3>1, <3>2, SumChange DEF n
    <3>8. SumOf(n, f) \in Nat
      BY <3>1, SumIsNat
    <3>9. CASE a = key
      BY <3>3, <3>4, <3>5, <3>6, <3>7, <3>9
    <3>10. CASE a # key
      BY <3>3, <3>4, <3>5, <3>6, <3>7, <3>8, <3>10
    <3> QED BY <3>9, <3>10
  <2>4. /\ cpu'["main"].pc = "store" => cpu'["main"].r2 <= arcs'[cpu'["main"].arc].count /\ cpu'["main"].r2 # 0
        /\ cpu'["isr"].pc = "store" => cpu'["isr"].r2 = arcs'[cpu'["isr"].arc].count
    <3>1. CASE running = "main"
      BY <1>1, <1>9, <1>11, <3>1 DEF MissInv
    <3>2. CASE running = "isr"
      <4>1. cpu'["isr"].pc # "store" /\ cpu'["main"] = m
        BY <1>9, <1>11, <3>2
      <4>2. ASSUME m.pc = "store" PROVE m.r2 <= arcs'[m.arc].count /\ m.r2 # 0
        <5>1. m.r2 <= arcs[m.arc].count /\ m.r2 # 0 /\ m.arc \in DOMAIN arcs /\ m.r2 \in Nat
          BY <1>1, <1>3, <4>2 DEF CountsInv, Found, ArcsOf, CpuState
        <5>2. CASE m.arc = k
          BY <1>5, <1>7, <3>2, <5>1, <5>2
        <5>3. CASE m.arc # k
          BY <1>6, <5>1, <5>3
        <5> QED BY <5>2, <5>3
      <4> QED BY <4>1, <4>2
    <3> QED BY <1>3, <3>1, <3>2
  <2>5. ASSUME NEW a \in Selves \X Sites
        PROVE  /\ Counted(a)' <= calls'[a] /\ calls'[a] + Undone(a)' <= Counted(a)' + lost'[a]
               /\ calls'[a] > 0 => Copies(a)' # {}
    <3>1. /\ Counted(a) <= calls[a] /\ calls[a] + Undone(a) <= Counted(a) + lost[a]
          /\ calls[a] > 0 => Copies(a) # {}
          /\ Counted(a) \in Nat /\ calls[a] \in Nat /\ lost[a] \in Nat
      BY <1>1, CountsType DEF CountsInv
    <3>2. /\ calls'[a] = IF a = key THEN calls[a] + 1 ELSE calls[a]
          /\ lost'[a] = IF a = key /\ Overtaken THEN lost[a] + 1 ELSE lost[a]
      <4> HIDE DEF key, v, k
      <4> QED BY <1>1, <1>2, <2>2 DEF ProfTypeOK
    <3>3. arcs[k].count \in Nat /\ v.r2 \in Nat /\ v.r2 <= arcs[k].count
      BY <1>3, <1>4, <1>5
    <3>4. calls'[a] > 0 => Copies(a)' # {}
      <4>1. CASE a = key
        BY <2>1, <2>2, <4>1
      <4>2. CASE a # key
        BY <2>1, <3>1, <3>2, <4>2
      <4> QED BY <4>1, <4>2
    <3>5. CASE running = "main"
      <4>1. ~Overtaken
        BY <3>5 DEF Overtaken
      <4>2. Undone(a)' = 0
        BY <1>9, <1>11, <3>5 DEF Undone
      <4>3. Undone(a) = IF a = key THEN arcs[k].count - v.r2 ELSE 0
        BY <1>2, <1>3, <3>5 DEF Undone
      <4>4. CASE a = key
        BY <2>3, <3>1, <3>2, <3>3, <3>4, <4>1, <4>2, <4>3, <4>4
      <4>5. CASE a # key
        BY <2>3, <3>1, <3>2, <3>4, <4>2, <4>3, <4>5
      <4> QED BY <4>4, <4>5
    <3>6. CASE running = "isr"
      <4>1. v.r2 = arcs[k].count
        BY <1>5, <3>6
      <4>2. m.pc = "store" => /\ m.arc \in DOMAIN arcs /\ m.r2 \in Nat /\ arcs[m.arc].count \in Nat
                              /\ m.fn \in DOMAIN fns /\ fns[m.fn] = m.self /\ arcs[m.arc].from = m.from
                              /\ arcs[m.arc].fn = m.fn
        BY <1>1, <1>3 DEF Found, FnFound, ArcsOf, CpuState
      <4>3. Overtaken <=> m.pc = "store" /\ m.arc = k
        BY <3>6 DEF Overtaken
      <4>4. Undone(a) = IF m.pc = "store" /\ <<m.self, m.from>> = a THEN arcs[m.arc].count - m.r2 ELSE 0
        BY DEF Undone
      <4>5. Undone(a)' = IF m.pc = "store" /\ <<m.self, m.from>> = a THEN arcs'[m.arc].count - m.r2 ELSE 0
        BY <1>9, <3>6 DEF Undone
      <4>6. CASE m.pc = "store" /\ m.arc = k
        <5>1. <<m.self, m.from>> = key
          BY <1>4, <4>2, <4>6
        <5>2. CASE a = key
          <6>1. Undone(a) = arcs[k].count - m.r2 /\ Undone(a)' = arcs[k].count + 1 - m.r2
            <7>1. arcs'[m.arc].count = arcs[k].count + 1 /\ arcs[m.arc].count = arcs[k].count
              BY <1>7, <4>1, <4>6
            <7>2. Undone(a) = arcs[m.arc].count - m.r2 /\ Undone(a)' = arcs'[m.arc].count - m.r2
              BY <4>4, <4>5, <4>6, <5>1, <5>2
            <7>3. arcs[k].count \in Nat /\ m.r2 \in Nat
              BY <3>3, <4>2, <4>6
            <7> HIDE DEF m, v, k, key
            <7> QED BY <7>1, <7>2, <7>3
          <6>2. Counted(a)' = Counted(a) + 1 /\ calls'[a] = calls[a] + 1 /\ lost'[a] = lost[a] + 1
            BY <2>3, <3>1, <3>2, <3>3, <4>1, <4>3, <4>6, <5>2
          <6> QED BY <3>1, <3>3, <3>4, <4>2, <4>6, <6>1, <6>2
        <5>3. CASE a # key
          <6>1. Undone(a) = 0 /\ Undone(a)' = 0
            BY <4>4, <4>5, <5>1, <5>3
          <6> QED BY <2>3, <3>1, <3>2, <3>4, <5>3, <6>1
        <5> QED BY <5>2, <5>3
      <4>7. CASE ~(m.pc = "store" /\ m.arc = k)
        <5>1. Undone(a)' = Undone(a) /\ Undone(a) \in Int
          <6>1. m.pc = "store" => arcs'[m.arc].count = arcs[m.arc].count
            BY <1>6, <4>2, <4>7
          <6> QED BY <4>2, <4>4, <4>5, <6>1
        <5>2. lost'[a] = lost[a]
          BY <3>2, <4>3, <4>7
        <5>3. CASE a = key
          <6>1. Counted(a)' = Counted(a) + 1 /\ calls'[a] = calls[a] + 1
            BY <2>3, <3>1, <3>2, <3>3, <4>1, <5>3
          <6> QED BY <3>1, <3>4, <5>1, <5>2, <6>1
        <5>4. CASE a # key
          BY <2>3, <3>1, <3>2, <3>4, <5>1, <5>2, <5>4
        <5> QED BY <5>3, <5>4
      <4> QED BY <4>6, <4>7
    <3> QED BY <1>3, <3>5, <3>6
  <2> QED BY <2>4, <2>5 DEF CountsInv
<1> QED BY <1>8, <1>12, <1>13, <1>14, <1>15 DEF ProfIInv

(* A record: of a function or an arc that was looked for and is not there,     *)
(* once more than it is at worst.                                              *)
LEMMA RecordStep ==
    ASSUME ProfIInv, __mcount_record
    PROVE  ProfIInv'
<1> DEFINE v == This
           n == Len(arcs)
           key == <<v.self, v.from>>
           m == cpu["main"]
           fn == IF v.fn = NULL THEN Len(fns) + 1 ELSE v.fn
           r == [fn |-> fn, from |-> v.from, count |-> 1]
           R == [fn : Nat, from : Sites, count : Nat \ {0}]
           New(i) == {j \in DOMAIN arcs' : arcs'[j].fn = i}
<1>1. /\ ProfTypeOK /\ Found(m) /\ Found(cpu["isr"]) /\ MissInv /\ CopyInv /\ CountsInv
  BY DEF ProfIInv
<1>2. /\ v.pc = "record" /\ cpu' = [cpu EXCEPT ![running] = Idle]
      /\ calls' = [calls EXCEPT ![key] = @ + 1]
      /\ fns' = IF v.fn = NULL THEN Append(fns, v.self) ELSE fns
      /\ arcs' = Append(arcs, r)
      /\ lost' = lost /\ running' = running
  BY DEF __mcount_record, At, Return, This
<1>3. /\ n \in Nat /\ DOMAIN arcs = 1..n /\ Len(fns) \in Nat /\ DOMAIN fns = 1..Len(fns)
      /\ \A j \in DOMAIN arcs : /\ arcs[j] \in R /\ arcs[j].count \in Nat \ {0}
      /\ \A i : ArcsOf(i) \subseteq 1..n
      /\ running \in {"main", "isr"} /\ v \in CpuState /\ m \in CpuState /\ v.fn \in Nat
      /\ (running = "main" => v = m) /\ (running = "isr" => v = cpu["isr"])
  BY <1>1, ArcsLemma DEF This, CpuState
<1>4. /\ v.self \in Selves /\ v.from \in Sites
      /\ v.fn # NULL => v.fn \in DOMAIN fns /\ fns[v.fn] = v.self
  <2>1. Found(v)
    BY <1>1, <1>3
  <2> QED BY <1>2, <2>1 DEF Found, FnFound
<1>5. /\ DOMAIN fns \subseteq DOMAIN fns' /\ \A i \in DOMAIN fns : fns'[i] = fns[i]
      /\ fn \in DOMAIN fns' /\ fn \in Nat /\ fns'[fn] = v.self
      /\ v.fn # NULL => fns' = fns /\ fn = v.fn
      /\ v.fn = NULL => fn \notin DOMAIN fns /\ DOMAIN fns' = DOMAIN fns \cup {fn}
      /\ fns' \in Seq(Selves) /\ Len(fns) <= Len(fns') /\ Len(fns') \in Nat
  <2> HIDE DEF v
  <2>1. CASE v.fn # NULL
    BY <1>1, <1>2, <1>3, <1>4, <2>1 DEF ProfTypeOK
  <2>2. CASE v.fn = NULL
    <3>1. fns' = Append(fns, v.self) /\ fns \in Seq(Selves) /\ v.self \in Selves
      BY <1>1, <1>2, <1>4, <2>2 DEF ProfTypeOK
    <3>2. /\ fns' \in Seq(Selves) /\ Len(fns') = Len(fns) + 1 /\ DOMAIN fns' = 1..Len(fns) + 1
          /\ fns'[Len(fns) + 1] = v.self /\ \A i \in 1..Len(fns) : fns'[i] = fns[i]
      BY <3>1
    <3> QED BY <1>3, <2>2, <3>2
  <2> QED BY <2>1, <2>2
<1> HIDE DEF fn
<1>6. /\ DOMAIN arcs' = DOMAIN arcs \cup {n + 1} /\ DOMAIN arcs' = 1..n + 1 /\ Len(arcs') = n + 1
      /\ \A j \in DOMAIN arcs : arcs'[j] = arcs[j]
      /\ arcs'[n+1] = r /\ n + 1 \notin DOMAIN arcs
      /\ arcs' \in Seq(R) /\ r \in R
  <2>1. r \in R
    BY <1>4, <1>5
  <2>2. arcs \in Seq(R)
    BY <1>1 DEF ProfTypeOK
  <2> HIDE DEF r, R
  <2> QED BY <1>2, <1>3, <2>1, <2>2
<1>7. /\ \A i : New(i) = IF i = fn THEN ArcsOf(i) \cup {n + 1} ELSE ArcsOf(i)
      /\ \A i : ArcsOf(i)' = New(i)
      /\ v.fn = NULL => ArcsOf(fn) = {}
  <2>1. arcs'[n+1].fn = fn
    BY <1>6
  <2>2. v.fn = NULL => ArcsOf(fn) = {}
    BY <1>1, <1>5 DEF ProfTypeOK, ArcsOf
  <2> QED BY <1>6, <2>1, <2>2 DEF ArcsOf
<1>8. ProfTypeOK'
  <2>1. \A j \in DOMAIN arcs' : arcs'[j].fn \in DOMAIN fns'
    BY <1>1, <1>5, <1>6, SMTT(30) DEF ProfTypeOK
  <2>2. cpu' \in [Context -> CpuState]
    <3>1. Idle \in CpuState
      BY DEF Idle, CpuState, NULL
    <3> QED BY <1>1, <1>2, <3>1 DEF ProfTypeOK
  <2>3. calls' \in [Selves \X Sites -> Nat] /\ lost' \in [Selves \X Sites -> Nat]
    <3>1. key \in Selves \X Sites /\ calls[key] + 1 \in Nat
      BY <1>1, <1>4, CountsType
    <3> HIDE DEF key
    <3> QED BY <1>1, <1>2, <3>1 DEF ProfTypeOK
  <2> QED BY <1>1, <1>2, <1>5, <1>6, <2>1, <2>2, <2>3 DEF ProfTypeOK
<1>9. /\ running = "main" => cpu'["main"] = Idle /\ cpu'["isr"] = Idle
      /\ running = "isr" => cpu'["isr"] = Idle /\ cpu'["main"] = m
  BY <1>1, <1>2 DEF ProfTypeOK, Context, MissInv
<1>10. /\ Idle.pc = "idle"
       /\ cpu'["isr"] = Idle /\ (cpu'["main"] = Idle \/ (running = "isr" /\ cpu'["main"] = m))
  BY <1>3, <1>9 DEF Idle
<1>11. FnFound(m) => m.fn \in DOMAIN fns /\ fns[m.fn] = m.self
  BY <1>1 DEF Found
(* What the function or the arc recorded was not missing from. *)
<1>12. v.fn = NULL => /\ AtMostOne({i \in DOMAIN fns : fns[i] = v.self})
                      /\ running = "isr" => {i \in DOMAIN fns : fns[i] = v.self} = {}
  <2> SUFFICES ASSUME v.fn = NULL
               PROVE  /\ AtMostOne({i \in DOMAIN fns : fns[i] = v.self})
                      /\ running = "isr" => {i \in DOMAIN fns : fns[i] = v.self} = {}
    OBVIOUS
  <2>1. MissedFns(v) = {i \in DOMAIN fns : fns[i] = v.self}
    <3>1. \A i \in DOMAIN fns : v.fn < i
      BY <1>3 DEF NULL
    <3> QED BY <1>2, <3>1 DEF MissedFns, FnSought
  <2>2. AtMostOne(MissedFns(v)) /\ (running = "isr" => MissedFns(v) = {})
    BY <1>1, <1>3 DEF MissInv, AtMostOne
  <2> HIDE DEF v
  <2> QED BY <2>1, <2>2 DEF AtMostOne
<1>13. v.fn # NULL => /\ AtMostOne({j \in ArcsOf(fn) : arcs[j].from = v.from})
                      /\ running = "isr" => {j \in ArcsOf(fn) : arcs[j].from = v.from} = {}
  <2> SUFFICES ASSUME v.fn # NULL
               PROVE  /\ AtMostOne({j \in ArcsOf(fn) : arcs[j].from = v.from})
                      /\ running = "isr" => {j \in ArcsOf(fn) : arcs[j].from = v.from} = {}
    OBVIOUS
  <2>1. MissedArcs(v) = {j \in ArcsOf(fn) : arcs[j].from = v.from}
    BY <1>2, <1>5 DEF MissedArcs
  <2>2. AtMostOne(MissedArcs(v)) /\ (running = "isr" => MissedArcs(v) = {})
    BY <1>1, <1>3 DEF MissInv, AtMostOne
  <2> HIDE DEF v
  <2> QED BY <2>1, <2>2 DEF AtMostOne
<1>14. Found(cpu["main"])' /\ Found(cpu["isr"])'
  <2>1. Found(cpu["isr"])'
    BY <1>10 DEF Found, FnFound
  <2>2. Found(cpu["main"])'
    <3>1. CASE cpu'["main"] = Idle
      BY <1>10, <3>1 DEF Found, FnFound
    <3>2. CASE cpu'["main"] = m
      <4>1. m.pc \in {"arc", "load", "store"} => m.arc \in New(m.fn) /\ m.arc \in DOMAIN arcs
        <5>1. m.pc \in {"arc", "load", "store"} => m.arc \in ArcsOf(m.fn)
          BY <1>1 DEF Found
        <5>2. New(m.fn) = ArcsOf(m.fn) \/ New(m.fn) = ArcsOf(m.fn) \cup {n + 1}
          BY <1>7
        <5>3. ArcsOf(m.fn) \subseteq DOMAIN arcs
          BY DEF ArcsOf
        <5> HIDE DEF m, New, n
        <5> QED BY <5>1, <5>2, <5>3
      <4>2. m.pc \in {"load", "store"} => arcs'[m.arc].from = m.from
        BY <1>1, <1>6, <4>1 DEF Found
      <4>3. FnFound(m) => m.fn \in DOMAIN fns' /\ fns'[m.fn] = m.self
        BY <1>5, <1>11
      <4>4. m.pc = "function" => m.fn \in 0..Len(fns')
        BY <1>1, <1>3, <1>5 DEF Found
      <4>5. m.pc # "idle" => m.self \in Selves /\ m.from \in Sites
        BY <1>1 DEF Found
      <4>6. ArcsOf(cpu["main"].fn)' = New(m.fn)
        BY <3>2 DEF ArcsOf
      <4>7. m.pc = "idle" => m = Idle
        BY <1>1 DEF Found
      <4> DEFINE w == cpu'["main"]
      <4>8. /\ w.pc = "idle" => w = Idle
            /\ w.pc # "idle" => w.self \in Selves /\ w.from \in Sites
            /\ w.pc = "function" => w.fn \in 0..Len(fns')
            /\ FnFound(w) => w.fn \in DOMAIN fns' /\ fns'[w.fn] = w.self
            /\ w.pc \in {"arc", "load", "store"} => w.arc \in ArcsOf(cpu["main"].fn)'
            /\ w.pc \in {"load", "store"} => arcs'[w.arc].from = w.from
        <5> HIDE DEF v, key, fn, r
        <5> QED BY <3>2, <4>1, <4>2, <4>3, <4>4, <4>5, <4>6, <4>7
      <4> QED BY <4>8 DEF Found, FnFound
    <3> QED BY <1>10, <3>1, <3>2
  <2> QED BY <2>1, <2>2
<1>15. MissInv'
  <2>1. MissedFns(cpu["isr"])' = {} /\ MissedArcs(cpu["isr"])' = {}
    BY <1>10 DEF MissedFns, MissedArcs, FnSought
  <2>2. AtMostOne(MissedFns(cpu["main"])') /\ AtMostOne(MissedArcs(cpu["main"])')
    <3>1. CASE cpu'["main"] = Idle
      <4>1. MissedFns(cpu["main"])' = {} /\ MissedArcs(cpu["main"])' = {}
        BY <1>10, <3>1 DEF MissedFns, MissedArcs, FnSought
      <4> QED BY <4>1 DEF AtMostOne
    <3>2. CASE running = "isr" /\ cpu'["main"] = m
      <4> DEFINE F == MissedFns(m)
                 A == MissedArcs(m)
      <4>1. AtMostOne(F) /\ AtMostOne(A)
        BY <1>1 DEF MissInv
      <4>2. MissedFns(cpu["main"])' = {i \in DOMAIN fns' : FnSought(m) /\ m.fn < i /\ fns'[i] = m.self}
        BY <3>2 DEF MissedFns, FnSought
      <4>3. AtMostOne(MissedFns(cpu["main"])')
        <5>1. CASE v.fn = NULL /\ m.self = v.self
          <6>1. MissedFns(cpu["main"])' \subseteq {fn}
            BY <1>5, <1>12, <3>2, <4>2, <5>1
          <6> QED BY <6>1 DEF AtMostOne
        <5>2. CASE ~(v.fn = NULL /\ m.self = v.self)
          <6>1. MissedFns(cpu["main"])' \subseteq F
            <7> HIDE DEF v, m
            <7> QED BY <1>5, <4>2, <5>2 DEF MissedFns
          <6> QED BY <4>1, <6>1 DEF AtMostOne
        <5> QED BY <5>1, <5>2
      <4>4. MissedArcs(cpu["main"])' =
               {j \in New(m.fn) : /\ (m.pc = "arc" /\ m.arc < j) \/ (m.pc = "record" /\ m.fn # NULL)
                                  /\ arcs'[j].from = m.from}
        BY <3>2 DEF MissedArcs, ArcsOf
      <4>5. AtMostOne(MissedArcs(cpu["main"])')
        <5>1. CASE FnFound(m) /\ m.fn = fn /\ m.from = v.from
          <6>1. v.fn # NULL
            BY <1>5, <1>11, <5>1
          <6>2. MissedArcs(cpu["main"])' \subseteq {n + 1}
            <7>1. ASSUME NEW j \in ArcsOf(m.fn), arcs'[j].from = m.from PROVE FALSE
              <8>1. arcs'[j] = arcs[j] /\ j \in ArcsOf(fn)
                BY <1>6, <5>1, <7>1 DEF ArcsOf
              <8>2. {i \in ArcsOf(fn) : arcs[i].from = v.from} = {}
                BY <1>13, <3>2, <6>1
              <8> QED BY <5>1, <7>1, <8>1, <8>2
            <7>2. New(m.fn) = ArcsOf(m.fn) \cup {n + 1}
              BY <1>7, <5>1
            <7> HIDE DEF m, v, New
            <7> QED BY <4>4, <7>1, <7>2
          <6> QED BY <6>2 DEF AtMostOne
        <5>2. CASE FnFound(m) /\ ~(m.fn = fn /\ m.from = v.from)
          <6>1. MissedArcs(cpu["main"])' \subseteq A
            <7>1. arcs'[n+1].from = v.from
              BY <1>6
            <7>2. ASSUME NEW j \in New(m.fn), arcs'[j].from = m.from PROVE j \in ArcsOf(m.fn) /\ arcs[j].from = m.from
              <8>1. j \in ArcsOf(m.fn)
                <9>1. \/ New(m.fn) = ArcsOf(m.fn)
                      \/ New(m.fn) = ArcsOf(m.fn) \cup {n + 1} /\ m.from # v.from
                  BY <1>7, <5>2
                <9> HIDE DEF New, m, v, n
                <9> QED BY <7>1, <7>2, <9>1
              <8> QED BY <1>6, <7>2, <8>1 DEF ArcsOf
            <7> QED BY <4>4, <7>2 DEF MissedArcs
          <6> QED BY <4>1, <6>1 DEF AtMostOne
        <5>3. CASE ~FnFound(m)
          <6>1. MissedArcs(cpu["main"])' = {}
            BY <4>4, <5>3 DEF FnFound
          <6> QED BY <6>1 DEF AtMostOne
        <5> QED BY <5>1, <5>2, <5>3
      <4> QED BY <4>3, <4>5
    <3> QED BY <1>10, <3>1, <3>2
  <2> QED BY <1>10, <2>1, <2>2 DEF MissInv, AtMostOne
<1>16. CopyInv'
  <2>1. ASSUME NEW f \in Selves PROVE AtMostTwo({i \in DOMAIN fns : fns[i] = f})'
    <3> DEFINE S == {i \in DOMAIN fns : fns[i] = f}
               S1 == {i \in DOMAIN fns' : fns'[i] = f}
    <3> SUFFICES AtMostTwo(S1)
      BY DEF AtMostTwo
    <3>1. AtMostTwo(S)
      BY <1>1 DEF CopyInv
    <3>2. CASE v.fn = NULL /\ f = v.self
      <4>1. S1 = S \cup {fn} /\ AtMostOne(S)
        BY <1>5, <1>12, <3>2
      <4> HIDE DEF S, S1
      <4> QED BY <4>1 DEF AtMostTwo, AtMostOne
    <3>3. CASE ~(v.fn = NULL /\ f = v.self)
      <4>1. S1 = S
        BY <1>5, <3>3
      <4> HIDE DEF S, S1
      <4> QED BY <3>1, <4>1 DEF AtMostTwo
    <3> QED BY <3>2, <3>3
  <2>2. ASSUME NEW i \in DOMAIN fns', NEW from \in Sites
        PROVE  ArcsOf(i)' # {} /\ AtMostTwo({j \in ArcsOf(i) : arcs[j].from = from})'
    <3> DEFINE T == {j \in ArcsOf(i) : arcs[j].from = from}
               T1 == {j \in ArcsOf(i)' : arcs'[j].from = from}
    <3> SUFFICES ArcsOf(i)' # {} /\ AtMostTwo(T1)
      BY DEF AtMostTwo
    <3>1. \A j \in ArcsOf(i) : arcs'[j] = arcs[j]
      BY <1>6 DEF ArcsOf
    <3>2. arcs'[n+1].from = v.from
      BY <1>6
    <3>3. CASE i = fn /\ from = v.from
      <4>1. T1 = T \cup {n + 1} /\ ArcsOf(i)' # {}
        BY <1>7, <3>1, <3>2, <3>3
      <4>2. AtMostOne(T)
        BY <1>7, <1>13, <3>3 DEF AtMostOne
      <4> HIDE DEF T, T1
      <4> QED BY <4>1, <4>2 DEF AtMostTwo, AtMostOne
    <3>4. CASE i = fn /\ from # v.from
      <4>1. T1 = T /\ ArcsOf(i)' # {}
        BY <1>7, <3>1, <3>2, <3>4
      <4>2. AtMostTwo(T)
        <5>1. CASE v.fn = NULL
          BY <1>7, <3>4, <5>1 DEF AtMostTwo
        <5>2. CASE v.fn # NULL
          BY <1>1, <1>4, <1>5, <3>4, <5>2 DEF CopyInv
        <5> QED BY <5>1, <5>2
      <4> HIDE DEF T, T1
      <4> QED BY <4>1, <4>2 DEF AtMostTwo
    <3>5. CASE i # fn
      <4>1. i \in DOMAIN fns
        BY <1>5, <3>5
      <4>2. ArcsOf(i) # {} /\ AtMostTwo(T)
        BY <1>1, <4>1 DEF CopyInv
      <4>3. ArcsOf(i)' = ArcsOf(i) /\ T1 = T
        BY <1>7, <3>1, <3>5
      <4> HIDE DEF T, T1
      <4> QED BY <4>2, <4>3 DEF AtMostTwo
    <3> QED BY <3>3, <3>4, <3>5
  <2> QED BY <2>1, <2>2 DEF CopyInv
<1>17. CountsInv'
  <2>1. key \in Selves \X Sites
    BY <1>4
  <2>2. ASSUME NEW a \in Selves \X Sites
        PROVE  Copies(a)' = IF a = key THEN Copies(a) \cup {n + 1} ELSE Copies(a)
    <3>1. \A j \in DOMAIN arcs : fns'[arcs'[j].fn] = fns[arcs[j].fn] /\ arcs'[j].from = arcs[j].from
      BY <1>1, <1>5, <1>6 DEF ProfTypeOK
    <3>2. fns'[arcs'[n+1].fn] = v.self /\ arcs'[n+1].from = v.from
      BY <1>5, <1>6
    <3>3. (a[1] = v.self /\ a[2] = v.from) <=> a = key
      <4>1. a = <<a[1], a[2]>>
        OBVIOUS
      <4> QED BY <4>1
    <3> HIDE DEF v, key
    <3> QED BY <1>6, <3>1, <3>2, <3>3 DEF Copies
  <2>3. ASSUME NEW a \in Selves \X Sites
        PROVE  Counted(a)' = IF a = key THEN Counted(a) + 1 ELSE Counted(a)
    <3> DEFINE f == CountsOf(a)
               g == CountsOf(a)'
    <3>1. f \in [1..n -> Nat] /\ f = [i \in 1..n |-> IF i \in Copies(a) THEN arcs[i].count ELSE 0]
      BY <1>1, <1>3, CountsType DEF CountsOf
    <3>2. g = [i \in 1..n+1 |-> IF i \in Copies(a)' THEN arcs'[i].count ELSE 0]
      BY <1>6 DEF CountsOf
    <3>3. ASSUME NEW i \in 1..n PROVE g[i] = f[i]
      <4>1. (i \in Copies(a)') = (i \in Copies(a)) /\ i \in 1..n+1 /\ arcs'[i] = arcs[i]
        <5>1. i # n + 1 /\ i \in 1..n+1 /\ arcs'[i] = arcs[i]
          BY <1>3, <1>6
        <5> HIDE DEF key, n
        <5> QED BY <2>2, <5>1
      <4> HIDE DEF f, g
      <4> QED BY <3>1, <3>2, <4>1
    <3>4. g[n+1] = IF a = key THEN 1 ELSE 0
      <4>1. n + 1 \in 1..n+1 /\ arcs'[n+1].count = 1
        BY <1>3, <1>6
      <4>2. n + 1 \in Copies(a)' <=> a = key
        <5>1. Copies(a) \subseteq DOMAIN arcs
          BY DEF Copies
        <5> QED BY <1>6, <2>2, <5>1
      <4> HIDE DEF f, g
      <4> QED BY <3>2, <4>1, <4>2
    <3>5. g \in [1..n+1 -> Nat]
      <4>1. \A i \in 1..n+1 : g[i] \in Nat
        <5> SUFFICES ASSUME NEW i \in 1..n+1 PROVE g[i] \in Nat
          OBVIOUS
        <5> HIDE DEF f, g, key
        <5>1. CASE i \in 1..n
          BY <3>1, <3>3, <5>1
        <5>2. CASE i = n + 1
          BY <3>4, <5>2
        <5> QED BY <1>3, <5>1, <5>2
      <4> HIDE DEF f, g
      <4> QED BY <3>2, <4>1
    <3>6. Counted(a) = SumOf(n, f) /\ Counted(a)' = SumOf(n + 1, g)
      BY <1>6 DEF Counted, SumOf
    <3> HIDE DEF f, g
    <3>7. SumOf(n + 1, g) = SumOf(n, f) + g[n+1] /\ SumOf(n, f) \in Nat
      <4>1. n \in Nat
        BY <1>3
      <4> HIDE DEF n
      <4> QED BY <3>1, <3>3, <3>5, <4>1, SumAppend, SumIsNat
    <3> QED BY <3>4, <3>6, <3>7
  <2>4. m.pc = "store" => m.arc \in DOMAIN arcs /\ arcs'[m.arc] = arcs[m.arc]
    BY <1>1, <1>6 DEF Found, ArcsOf
  <2>5. /\ cpu'["main"].pc = "store" => cpu'["main"].r2 <= arcs'[cpu'["main"].arc].count /\ cpu'["main"].r2 # 0
        /\ cpu'["isr"].pc = "store" => cpu'["isr"].r2 = arcs'[cpu'["isr"].arc].count
    <3>1. CASE cpu'["main"] = Idle
      BY <1>10, <3>1
    <3>2. CASE cpu'["main"] = m
      <4>1. m.pc = "store" => m.r2 <= arcs'[m.arc].count /\ m.r2 # 0
        BY <1>1, <2>4 DEF CountsInv
      <4> QED BY <1>10, <3>2, <4>1
    <3> QED BY <1>10, <3>1, <3>2
  <2>6. ASSUME NEW a \in Selves \X Sites PROVE Undone(a)' = Undone(a)
    <3>1. CASE running = "main"
      BY <1>2, <1>3, <1>9, <1>10, <3>1 DEF Undone
    <3>2. CASE running = "isr"
      BY <1>9, <2>4, <3>2 DEF Undone
    <3> QED BY <1>3, <3>1, <3>2
  <2>7. ASSUME NEW a \in Selves \X Sites
        PROVE  /\ Counted(a)' <= calls'[a] /\ calls'[a] + Undone(a)' <= Counted(a)' + lost'[a]
               /\ calls'[a] > 0 => Copies(a)' # {}
    <3>1. /\ Counted(a) <= calls[a] /\ calls[a] + Undone(a) <= Counted(a) + lost[a]
          /\ calls[a] > 0 => Copies(a) # {}
          /\ Counted(a) \in Nat /\ calls[a] \in Nat /\ lost[a] \in Nat
      BY <1>1, CountsType DEF CountsInv
    <3>2. calls'[a] = (IF a = key THEN calls[a] + 1 ELSE calls[a]) /\ lost'[a] = lost[a]
      <4> HIDE DEF key
      <4> QED BY <1>1, <1>2, <2>1 DEF ProfTypeOK
    <3>3. Undone(a) \in Int
      <4>1. m.pc = "store" => arcs[m.arc].count \in Int /\ m.r2 \in Int
        BY <1>3, <2>4 DEF CpuState
      <4> QED BY <4>1 DEF Undone
    <3> HIDE DEF key, n
    <3>4. CASE a = key
      BY <2>2, <2>3, <2>6, <3>1, <3>2, <3>3, <3>4
    <3>5. CASE a # key
      BY <2>2, <2>3, <2>6, <3>1, <3>2, <3>3, <3>5
    <3> QED BY <3>4, <3>5
  <2> QED BY <2>5, <2>7 DEF CountsInv
<1> QED BY <1>8, <1>14, <1>15, <1>16, <1>17 DEF ProfIInv

(* An interrupt routine starts, or returns: no register changes. *)
LEMMA SwitchSteps ==
    ASSUME ProfIInv, Interrupt \/ Eret \/ UNCHANGED profVars
    PROVE  ProfIInv'
<1>1. /\ ProfTypeOK /\ Found(cpu["main"]) /\ Found(cpu["isr"]) /\ MissInv /\ CopyInv /\ CountsInv
  BY DEF ProfIInv
<1>2. UNCHANGED <<fns, arcs, cpu, calls, lost>>
  BY DEF Interrupt, Eret, profVars
<1>3. running' \in Context /\ (running' = "main" => cpu["isr"] = Idle)
  <2>1. CASE Interrupt
    BY <2>1 DEF Interrupt, Context
  <2>2. CASE Eret
    BY <1>1, <2>2 DEF Eret, At, Found, Context
  <2>3. CASE UNCHANGED profVars
    BY <1>1, <2>3 DEF profVars, ProfTypeOK, MissInv
  <2> QED BY <2>1, <2>2, <2>3
<1>4. ProfTypeOK'
  BY <1>1, <1>2, <1>3 DEF ProfTypeOK
<1>5. Found(cpu["main"])' /\ Found(cpu["isr"])'
  BY <1>1, <1>2 DEF Found, FnFound, ArcsOf
<1>6. MissInv'
  <2>1. /\ MissedFns(cpu["main"])' = MissedFns(cpu["main"]) /\ MissedArcs(cpu["main"])' = MissedArcs(cpu["main"])
        /\ MissedFns(cpu["isr"])' = MissedFns(cpu["isr"]) /\ MissedArcs(cpu["isr"])' = MissedArcs(cpu["isr"])
    BY <1>2 DEF MissedFns, MissedArcs, FnSought, ArcsOf
  <2>2. AtMostOne(MissedFns(cpu["main"])') /\ AtMostOne(MissedArcs(cpu["main"])')
    BY <1>1, <2>1, Zenon DEF MissInv
  <2> QED BY <1>1, <1>2, <1>3, <2>1, <2>2 DEF MissInv, AtMostOne
<1>7. CopyInv'
  BY <1>1, <1>2 DEF CopyInv, ArcsOf, AtMostTwo
<1>8. CountsInv'
  <2>1. ASSUME NEW a \in Selves \X Sites
        PROVE Counted(a)' = Counted(a) /\ Copies(a)' = Copies(a) /\ Undone(a)' = Undone(a)
    BY <1>2 DEF Counted, CountsOf, Copies, SumOf, Undone
  <2> QED BY <1>1, <1>2, <2>1 DEF CountsInv
<1> QED BY <1>4, <1>5, <1>6, <1>7, <1>8 DEF ProfIInv

LEMMA ProfInitInv == ProfInit => ProfIInv
<1> SUFFICES ASSUME ProfInit PROVE ProfIInv
  OBVIOUS
<1>1. /\ fns = <<>> /\ arcs = <<>> /\ running = "main" /\ cpu = [c \in {"main", "isr"} |-> Idle]
      /\ calls = [a \in Selves \X Sites |-> 0] /\ lost = [a \in Selves \X Sites |-> 0]
  BY DEF ProfInit
<1>2. cpu["main"] = Idle /\ cpu["isr"] = Idle /\ Idle.pc = "idle" /\ Idle \in CpuState
  BY <1>1 DEF Idle, CpuState, NULL
<1>3. ProfTypeOK
  BY <1>1, <1>2 DEF ProfTypeOK, Context
<1>4. Found(cpu["main"]) /\ Found(cpu["isr"])
  BY <1>2 DEF Found, FnFound
<1>5. MissInv
  <2>1. MissedFns(Idle) = {} /\ MissedArcs(Idle) = {}
    BY <1>1, <1>2 DEF MissedFns, MissedArcs, ArcsOf
  <2> QED BY <1>2, <2>1 DEF MissInv, AtMostOne
<1>6. CopyInv
  BY <1>1 DEF CopyInv, AtMostTwo
<1>7. CountsInv
  <2>1. ASSUME NEW a \in Selves \X Sites
        PROVE  Counted(a) = 0 /\ Undone(a) = 0 /\ calls[a] = 0 /\ lost[a] = 0
    <3>1. CountsOf(a) \in [1..0 -> Nat] /\ Len(arcs) = 0
      <4>1. CountsOf(a) \in [1..Len(arcs) -> Nat] /\ Len(arcs) = 0
        BY <1>1, <1>3, CountsType
      <4> QED BY <4>1, Zenon
    <3>2. Counted(a) = 0
      <4>1. Counted(a) = SumOf(0, CountsOf(a))
        BY <3>1, Zenon DEF Counted
      <4>2. 0 \in Nat
        OBVIOUS
      <4>3. SumOf(0, CountsOf(a)) = 0
        BY <3>1, <4>2, SumIsNat, Zenon
      <4> QED BY <4>1, <4>3
    <3> QED BY <1>1, <1>2, <3>2 DEF Undone
  <2> QED BY <1>2, <2>1 DEF CountsInv
<1> QED BY <1>3, <1>4, <1>5, <1>6, <1>7 DEF ProfIInv

LEMMA ProfNextInv == ProfIInv /\ [ProfNext]_profVars => ProfIInv'
<1> SUFFICES ASSUME ProfIInv, [ProfNext]_profVars PROVE ProfIInv'
  OBVIOUS
<1>1. CASE (\E self \in Selves, from \in Sites : mcount(self, from)) \/ FindFunction \/ FindArc \/ Load
  BY <1>1, SearchSteps
<1>2. CASE Store
  BY <1>2, StoreStep
<1>3. CASE __mcount_record
  BY <1>3, RecordStep
<1>4. CASE Interrupt \/ Eret \/ UNCHANGED profVars
  BY <1>4, SwitchSteps
<1> QED BY <1>1, <1>2, <1>3, <1>4 DEF ProfNext

(* A set no three of whose members differ. *)
LEMMA SmallSet ==
    ASSUME NEW S, AtMostTwo(S)
    PROVE  Cardinality(S) <= 2
<1>1. CASE S = {}
  BY <1>1, FS_EmptySet
<1>2. CASE S # {}
  <2>1. PICK x \in S : TRUE
    BY <1>2
  <2>2. IsFiniteSet({x}) /\ Cardinality({x}) = 1
    BY FS_Singleton
  <2>3. CASE S = {x}
    BY <2>2, <2>3
  <2>4. CASE S # {x}
    <3>1. PICK y \in S : y # x
      BY <2>1, <2>4
    <3>2. S = {x} \cup {y}
      BY <2>1, <3>1 DEF AtMostTwo
    <3>3. Cardinality({x} \cup {y}) = 2
      BY <2>2, <3>1, FS_AddElement
    <3> QED BY <3>2, <3>3
  <2> QED BY <2>3, <2>4
<1> QED BY <1>1, <1>2

LEMMA ProfIInvEnough == ProfIInv => ProfInv
<1> SUFFICES ASSUME ProfIInv PROVE CopiesBounded /\ CallsCounted
  BY DEF ProfInv
<1>1. /\ ProfTypeOK /\ Found(cpu["main"]) /\ CopyInv /\ CountsInv
  BY DEF ProfIInv
<1>2. CopiesBounded
  <2>1. ASSUME NEW f \in Selves PROVE Cardinality({i \in DOMAIN fns : fns[i] = f}) <= 2
    BY <1>1, SmallSet DEF CopyInv
  <2>2. ASSUME NEW i \in DOMAIN fns, NEW from \in Sites
        PROVE  ArcsOf(i) # {} /\ Cardinality({j \in ArcsOf(i) : arcs[j].from = from}) <= 2
    BY <1>1, SmallSet DEF CopyInv
  <2> QED BY <2>1, <2>2 DEF CopiesBounded
<1>3. CallsCounted
  <2>1. ASSUME NEW a \in Selves \X Sites
        PROVE  /\ Counted(a) <= calls[a] /\ calls[a] <= Counted(a) + lost[a]
               /\ calls[a] > 0 => Counted(a) > 0
    <3>1. /\ Counted(a) <= calls[a] /\ calls[a] + Undone(a) <= Counted(a) + lost[a]
          /\ calls[a] > 0 => Copies(a) # {}
          /\ Counted(a) \in Nat /\ calls[a] \in Nat /\ lost[a] \in Nat
      BY <1>1, CountsType DEF CountsInv
    <3>2. Undone(a) \in Nat
      <4> DEFINE m == cpu["main"]
      <4>1. CASE m.pc = "store"
        <5>1. m.arc \in DOMAIN arcs /\ m.r2 \in Nat /\ m.r2 <= arcs[m.arc].count
          <6>1. m.arc \in ArcsOf(m.fn) /\ m.r2 <= arcs[m.arc].count
            BY <1>1, <4>1 DEF Found, CountsInv
          <6>2. m.r2 \in Nat
            BY <1>1, ArcsLemma DEF CpuState
          <6> QED BY <6>1, <6>2 DEF ArcsOf
        <5>2. arcs[m.arc].count \in Nat
          BY <1>1, <5>1, ArcsLemma
        <5>3. arcs[m.arc].count - m.r2 \in Nat
          BY <5>1, <5>2
        <5> QED BY <5>3 DEF Undone
      <4>2. CASE m.pc # "store"
        BY <4>2 DEF Undone
      <4> QED BY <4>1, <4>2
    <3>3. ASSUME Copies(a) # {} PROVE Counted(a) > 0
      <4> DEFINE f == CountsOf(a)
                 n == Len(arcs)
      <4>1. PICK j \in Copies(a) : TRUE
        BY <3>3
      <4>2. j \in 1..n /\ f \in [1..n -> Nat] /\ n \in Nat
        BY <1>1, ArcsLemma, CountsType DEF Copies
      <4>3. f[j] # 0
        <5>1. j \in DOMAIN arcs
          BY DEF Copies
        <5>2. arcs[j].count # 0
          BY <1>1, <5>1, ArcsLemma
        <5> QED BY <5>1, <5>2 DEF CountsOf
      <4>4. Counted(a) = SumOf(n, f)
        BY DEF Counted
      <4> HIDE DEF f, n
      <4> QED BY <4>2, <4>3, <4>4, SumPositive
    <3> QED BY <3>1, <3>2, <3>3
  <2> QED BY <2>1 DEF CallsCounted
<1> QED BY <1>2, <1>3

(* The call graph that the program and the interrupt routines build together   *)
(* is complete, for any number of functions, call sites and calls and however  *)
(* they interleave: a function has at most two entries and an entry at most two *)
(* records of a call site, no entry is without one, no call is counted twice and *)
(* the only calls missed are those an interrupt routine made between the         *)
(* program's load and store of the same count (alt_mcount.S:77-123,             *)
(* alt_gmon.c:149-191).                                                         *)
THEOREM CallGraphComplete == ProfSpec => []ProfInv
<1>1. ProfSpec => []ProfIInv
  BY ProfInitInv, ProfNextInv, PTL DEF ProfSpec
<1> QED BY <1>1, ProfIInvEnough, PTL
---------------------------------------------------------------------------
(* The sample line. *)

LEMMA PowersMultiply ==
    ASSUME NEW m \in Nat, NEW n \in Nat
    PROVE  2^(m + n) = 2^m * 2^n
<1> DEFINE G == {i \in 0..n : 2^(m + i) = 2^m * 2^i}
<1>1. 0 \in G
  <2>1. 2^0 = 1 /\ 2^m \in Nat /\ m + 0 = m
    BY PowerOfTwo
  <2> HIDE DEF G
  <2>2. 2^(m + 0) = 2^m * 2^0
    BY <2>1
  <2> QED BY <2>2 DEF G
<1>2. ASSUME NEW i \in 0..n-1, i \in G PROVE i + 1 \in G
  <2> DEFINE a == 2^m
             b == 2^i
             c == 2^(m + i)
  <2>1. i \in Nat /\ m + i \in Nat /\ m + (i + 1) = (m + i) + 1 /\ i + 1 \in 0..n
    OBVIOUS
  <2>2. a \in Nat /\ b \in Nat /\ 2^(i+1) = 2 * b /\ 2^(m + (i+1)) = 2 * c
    BY <2>1, PowerOfTwo
  <2>3. c = a * b
    BY <1>2
  <2> HIDE DEF a, b, c
  <2>4. 2 * (a * b) = a * (2 * b)
    BY <2>2
  <2>5. 2^(m + (i+1)) = a * 2^(i+1)
    BY <2>2, <2>3, <2>4
  <2> QED BY <2>1, <2>5 DEF a
<1> HIDE DEF G
<1>3. \A i \in 0..n : i \in G
  BY <1>1, <1>2, EveryRound
<1>4. n \in 0..n
  OBVIOUS
<1> QED BY <1>3, <1>4 DEF G

LEMMA QuotientOfQuotient ==
    ASSUME NEW v \in Nat, NEW a \in Nat \ {0}, NEW b \in Nat \ {0}
    PROVE  v \div (a * b) = (v \div a) \div b /\ v \div a \in Nat
<1> DEFINE q == v \div a
           r == v % a
           p == q \div b
           t == q % b
<1>1. q \in Int /\ r \in 0..a-1 /\ v = a * q + r
  BY Remainder
<1>2. p \in Int /\ t \in 0..b-1 /\ q = b * p + t
  BY <1>1, Remainder
<1>3. q \in Nat
  <2> SUFFICES ASSUME q < 0 PROVE FALSE
    BY <1>1
  <2>1. a * (q + 1) <= 0 /\ a * q + a = a * (q + 1)
    BY <1>1
  <2> QED BY <1>1, <2>1
<1> DEFINE m == a * b
           s == a * t + r
<1>4. m \in Nat \ {0} /\ v = m * p + s
  <2> HIDE DEF q, r, p, t
  <2>1. a * b \in Nat \ {0}
    OBVIOUS
  <2>2. a * (b * p + t) = (a * b) * p + a * t
    BY <1>2
  <2> QED BY <1>1, <1>2, <2>1, <2>2
<1>5. s \in 0..m-1
  <2> HIDE DEF q, r, p, t
  <2>1. a * t \in Nat /\ a * t <= a * (b - 1) /\ a * (b - 1) = a * b - a /\ a * b \in Nat
    BY <1>2
  <2> QED BY <1>1, <2>1
<1> HIDE DEF q, r, p, t, m, s
<1>6. (m * p + s) \div m = p
  BY <1>2, <1>4, <1>5, OneRemainder
<1>7. v \div m = p
  BY <1>4, <1>6
<1> QED BY <1>3, <1>7 DEF m, p, q

Base == 2^DigitBits
Shifted(v, s) == v \div 2^(DigitBits * s)

LEMMA LineWidths ==
    /\ LongBits \in Nat \ {0} /\ DigitBits \in Nat \ {0} /\ Base \in Nat \ {0}
    /\ Digits \in Nat \ {0} /\ DigitBits * Digits = LongBits
    /\ 2^LongBits \in Nat \ {0} /\ 2^(LongBits-1) \in Nat \ {0} /\ 2^LongBits = 2 * 2^(LongBits-1)
<1>1. LongBits \in Nat \ {0} /\ DigitBits \in Nat \ {0} /\ LongBits % DigitBits = 0
  BY LineAssumption
<1>2. LongBits - 1 \in Nat /\ LongBits - 1 + 1 = LongBits
  BY <1>1
<1>3. /\ Base \in Nat \ {0} /\ 2^LongBits \in Nat \ {0} /\ 2^(LongBits-1) \in Nat \ {0}
      /\ 2^LongBits = 2 * 2^(LongBits-1)
  BY <1>1, <1>2, PowerOfTwo DEF Base
<1>4. Digits \in Int /\ LongBits = DigitBits * Digits
  <2>1. /\ LongBits \div DigitBits \in Int
        /\ LongBits = DigitBits * (LongBits \div DigitBits) + (LongBits % DigitBits)
    BY <1>1, Remainder
  <2> DEFINE q == LongBits \div DigitBits
  <2>2. DigitBits * q \in Int
    BY <1>1, <2>1
  <2> QED BY <1>1, <2>1, <2>2 DEF Digits
<1>5. Digits \in Nat \ {0}
  <2> SUFFICES ASSUME Digits <= 0 PROVE FALSE
    BY <1>4
  <2>1. DigitBits * Digits <= 0
    BY <1>1, <1>4
  <2> QED BY <1>1, <1>4, <2>1
<1> QED BY <1>1, <1>3, <1>4, <1>5

(* A number shifted by one digit more, and the digit that is shifted out. *)
LEMMA ShiftDigit ==
    ASSUME NEW v \in Nat, NEW s \in Nat
    PROVE  /\ Shifted(v, s) \in Nat /\ Shifted(v, s + 1) \in Nat
           /\ Digit(v, s) \in 0..Base-1
           /\ Shifted(v, s) = Base * Shifted(v, s + 1) + Digit(v, s)
<1> DEFINE a == 2^(DigitBits * s)
           q == v \div a
<1>1. DigitBits * s \in Nat /\ DigitBits \in Nat /\ DigitBits * (s + 1) = DigitBits * s + DigitBits
  BY LineWidths
<1>2. a \in Nat \ {0} /\ 2^(DigitBits * (s + 1)) = a * Base
  BY <1>1, PowerOfTwo, PowersMultiply DEF Base
<1>3. Base \in Nat \ {0}
  BY LineWidths
<1> HIDE DEF a
<1>4. v \div (a * Base) = q \div Base /\ q \in Nat
  BY <1>2, <1>3, QuotientOfQuotient
<1>5. Shifted(v, s) = q /\ Shifted(v, s + 1) = q \div Base /\ Digit(v, s) = q % Base
  BY <1>2, <1>4 DEF Shifted, Digit, a, Base
<1>6. q \div Base \in Nat
  <2>1. 1 \in Nat \ {0}
    OBVIOUS
  <2> HIDE DEF q
  <2> QED BY <1>3, <1>4, QuotientOfQuotient
<1>7. q % Base \in 0..Base-1 /\ q = Base * (q \div Base) + (q % Base)
  <2>1. q \in Int
    BY <1>4
  <2> HIDE DEF q
  <2> QED BY <1>3, <2>1, Remainder, Zenon
<1> QED BY <1>4, <1>5, <1>6, <1>7

LEMMA QuotientEnds ==
    ASSUME NEW v \in 0..2^LongBits - 1
    PROVE  Shifted(v, 0) = v /\ Shifted(v, Digits) = 0
<1> DEFINE M == 2^LongBits
<1>1. M \in Nat \ {0} /\ v \in 0..M-1
  BY LineWidths
<1>2. Shifted(v, 0) = v
  <2>1. DigitBits * 0 = 0 /\ 2^0 = 1
    BY LineWidths
  <2> HIDE DEF M
  <2>2. v \div 1 = v
    BY <1>1
  <2> QED BY <2>1, <2>2 DEF Shifted
<1>3. Shifted(v, Digits) = v \div M
  BY LineWidths DEF Shifted
<1> HIDE DEF M
<1>4. v \div M = 0
  <2>1. 0 \in Int /\ M * 0 + v = v
    BY <1>1
  <2> QED BY <1>1, <2>1, OneRemainder
<1> QED BY <1>2, <1>3, <1>4


(* A set of numbers up to a bound has a greatest. *)
LEMMA Greatest ==
    ASSUME NEW n \in Nat, NEW S \in SUBSET (0..n), S # {}
    PROVE  \E x \in S : \A y \in S : x >= y
<1> DEFINE T == {n - i : i \in S}
<1>1. T \subseteq Nat /\ T # {}
  <2>1. PICK i \in S : TRUE
    OBVIOUS
  <2>2. n - i \in T
    OBVIOUS
  <2>3. \A j \in S : n - j \in Nat
    OBVIOUS
  <2> QED BY <2>2, <2>3
<1> HIDE DEF T
<1>2. PICK m \in T : \A t \in T : ~(<<t, m>> \in OpToRel(<, Nat))
  BY <1>1, NatLessThanWellFounded, WFMin
<1>3. \A t \in T : ~(t < m)
  BY <1>1, <1>2 DEF OpToRel
<1>4. PICK x \in S : m = n - x
  BY DEF T
<1>5. ASSUME NEW y \in S PROVE x >= y
  <2>1. n - y \in T
    BY DEF T
  <2>2. ~(n - y < n - x)
    BY <1>3, <1>4, <2>1
  <2> QED BY <2>2
<1> QED BY <1>5

(* Where all the digits above the s-th are zero, nothing is left above it. *)
LEMMA ZeroAbove ==
    ASSUME NEW v \in 0..2^LongBits - 1, NEW s \in 0..Digits,
           \A t \in Shifts : t >= s => Digit(v, t) = 0
    PROVE  Shifted(v, s) = 0
<1> DEFINE G == {i \in 0..Digits : i <= Digits - s => Shifted(v, Digits - i) = 0}
<1>1. Digits \in Nat /\ Shifts = 0..Digits-1 /\ v \in Nat /\ Base \in Nat
  BY LineWidths DEF Shifts
<1>2. 0 \in G
  <2>1. Digits - 0 = Digits
    BY <1>1
  <2> QED BY <1>1, <2>1, QuotientEnds
<1>3. ASSUME NEW i \in 0..Digits-1, i \in G PROVE i + 1 \in G
  <2> SUFFICES ASSUME i + 1 <= Digits - s PROVE Shifted(v, Digits - (i + 1)) = 0
    BY <1>1
  <2> DEFINE t == Digits - (i + 1)
  <2>1. t \in Nat /\ t + 1 = Digits - i /\ t \in Shifts /\ t >= s
    BY <1>1
  <2>2. Shifted(v, t + 1) = 0
    BY <1>1, <1>3, <2>1
  <2>3. Digit(v, t) = 0
    BY <2>1
  <2> HIDE DEF t
  <2>4. Shifted(v, t) = Base * Shifted(v, t + 1) + Digit(v, t)
    BY <1>1, <2>1, ShiftDigit
  <2>5. Shifted(v, t) = 0
    BY <1>1, <2>2, <2>3, <2>4
  <2> QED BY <2>5 DEF t
<1> HIDE DEF G
<1>4. \A i \in 0..Digits : i \in G
  BY <1>1, <1>2, <1>3, EveryRound
<1>5. Digits - s \in 0..Digits /\ Digits - (Digits - s) = s
  BY <1>1
<1> QED BY <1>4, <1>5 DEF G

LEMMA FirstShiftIs ==
    ASSUME NEW v \in 0..2^LongBits - 1, v # 0
    PROVE  FirstShift(v) \in Shifts /\ Shifted(v, FirstShift(v) + 1) = 0
<1> DEFINE P(s) == Digit(v, s) # 0 /\ \A t \in Shifts : t > s => Digit(v, t) = 0
           S == {s \in Shifts : Digit(v, s) # 0}
<1>1. Digits \in Nat \ {0} /\ Shifts = 0..Digits-1 /\ v \in Nat
  BY LineWidths DEF Shifts
<1>2. S # {}
  <2> SUFFICES ASSUME S = {} PROVE FALSE
    OBVIOUS
  <2>1. 0 \in 0..Digits /\ \A t \in Shifts : t >= 0 => Digit(v, t) = 0
    BY <1>1
  <2>2. Shifted(v, 0) = 0
    BY <2>1, ZeroAbove
  <2> QED BY <2>2, QuotientEnds
<1>3. PICK s \in S : \A t \in S : s >= t
  <2>1. Digits - 1 \in Nat /\ S \subseteq 0..Digits-1
    BY <1>1
  <2> HIDE DEF S
  <2> QED BY <1>2, <2>1, Greatest
<1>4. s \in Shifts /\ P(s)
  <2>1. ASSUME NEW t \in Shifts, t > s PROVE Digit(v, t) = 0
    <3>1. ~(s >= t)
      BY <1>1, <2>1
    <3>2. t \notin S
      BY <1>3, <3>1
    <3> QED BY <3>2
  <2> QED BY <2>1
<1> DEFINE f == FirstShift(v)
<1>5. f \in Shifts /\ P(f)
  <2>1. f = CHOOSE x \in Shifts : P(x)
    BY DEF FirstShift
  <2> HIDE DEF P, f
  <2> QED BY <1>4, <2>1
<1> HIDE DEF f
<1>6. f + 1 \in 0..Digits /\ \A t \in Shifts : t >= f + 1 => Digit(v, t) = 0
  BY <1>1, <1>5
<1>7. Shifted(v, f + 1) = 0
  BY <1>6, ZeroAbove
<1> QED BY <1>5, <1>7 DEF f

(* The rounds in which int(x, 16) puts digits together. *)
LEMMA Int16Runs ==
    ASSUME NEW d \in Seq(Nat)
    PROVE  \E h \in [0..Len(d) -> Nat] :
              /\ h[0] = 0 /\ \A i \in 1..Len(d) : h[i] = h[i-1] * Base + d[i]
              /\ Int16(d) = h[Len(d)]
<1> DEFINE n == Len(d)
           step == [i \in 1..n |-> [s \in Nat |-> s * Base + d[i]]]
           F(g) == [i \in 0..n |-> IF i = 0 THEN 0 ELSE g[i-1] * Base + d[i]]
           h == CHOOSE g : g = F(g)
<1>1. n \in Nat /\ Base \in Nat /\ \A i \in 1..n : d[i] \in Nat
  BY LineWidths
<1>2. step \in [1..n -> [Nat -> Nat]]
  <2>1. ASSUME NEW i \in 1..n, NEW s \in Nat PROVE s * Base + d[i] \in Nat
    <3>1. s * Base \in Nat /\ d[i] \in Nat
      BY <1>1
    <3> QED BY <3>1
  <2> QED BY <2>1
<1>3. PICK g \in [0..n -> Nat] : g[0] = 0 /\ \A i \in 1..n : g[i] = step[i][g[i-1]]
  <2> HIDE DEF step, F, h
  <2>1. 0 \in Nat
    OBVIOUS
  <2>2. Runs(n, Nat, 0, step)
    BY <1>1, <1>2, <2>1, LoopRuns, Zenon
  <2> QED BY <2>2, Zenon DEF Runs
<1>4. \A i \in 1..n : g[i] = g[i-1] * Base + d[i]
  <2> SUFFICES ASSUME NEW i \in 1..n PROVE g[i] = g[i-1] * Base + d[i]
    OBVIOUS
  <2>1. i - 1 \in 0..n
    BY <1>1
  <2>2. g[i-1] \in Nat
    BY <2>1
  <2> QED BY <1>3, <2>2
<1> HIDE DEF step
<1>5. g = F(g)
  BY <1>3, <1>4
<1>6. h = F(h)
  BY <1>5
<1>7. Int16(d) = h[n]
  BY DEF Int16, Base
<1> HIDE DEF h
<1>8. h[0] = 0 /\ \A i \in 1..n : h[i] = h[i-1] * Base + d[i]
  <2> HIDE DEF n
  <2>1. h[0] = 0
    BY <1>1, <1>6
  <2>2. ASSUME NEW i \in 1..n PROVE h[i] = h[i-1] * Base + d[i]
    <3>1. i \in 0..n /\ i # 0
      BY <1>1
    <3>2. F(h)[i] = h[i-1] * Base + d[i]
      BY <3>1
    <3> HIDE DEF F
    <3> QED BY <1>6, <3>2, Zenon
  <2> QED BY <2>1, <2>2
<1>9. \A i \in 0..n : h[i] \in Nat
  <2>1. ASSUME NEW i \in 1..n, h[i-1] \in Nat PROVE h[i] \in Nat
    <3>1. h[i] = h[i-1] * Base + d[i] /\ h[i-1] * Base \in Nat /\ d[i] \in Nat
      BY <1>1, <1>8, <2>1
    <3> QED BY <3>1
  <2>2. n \in Nat /\ h[0] \in Nat
    BY <1>1, <1>8
  <2> HIDE DEF n, F
  <2> QED BY <2>1, <2>2, LoopTyped
<1>10. h \in [0..n -> Nat]
  BY <1>6, <1>9
<1> QED BY <1>7, <1>8, <1>10

(* A number printed in hexadecimal and read back. *)
LEMMA HexReadBack ==
    ASSUME NEW v \in 0..2^LongBits - 1
    PROVE  /\ Hex(v) \in Seq(0..Base-1) /\ Hex(v) # <<>> /\ Len(Hex(v)) \in Nat \ {0}
           /\ Int16(Hex(v)) = v
<1>1. Base \in Nat \ {0} /\ v \in Nat /\ Digits \in Nat /\ Shifts = 0..Digits-1
  BY LineWidths DEF Shifts
<1>2. CASE v = 0
  <2> DEFINE d == <<0>>
  <2>1. Hex(v) = d
    BY <1>2 DEF Hex
  <2>2. d \in Seq(0..Base-1) /\ d \in Seq(Nat) /\ Len(d) = 1 /\ d # <<>> /\ d[1] = 0
    BY <1>1
  <2> HIDE DEF d
  <2>3. PICK h \in [0..Len(d) -> Nat] :
              /\ h[0] = 0 /\ \A i \in 1..Len(d) : h[i] = h[i-1] * Base + d[i]
              /\ Int16(d) = h[Len(d)]
    BY <2>2, Int16Runs
  <2>4. Int16(d) = 0
    <3>1. h[1] = h[1-1] * Base + d[1] /\ 1 - 1 = 0
      BY <2>2, <2>3
    <3> QED BY <1>1, <2>2, <2>3, <3>1
  <2> QED BY <1>2, <2>1, <2>2, <2>4
<1>3. CASE v # 0
  <2> DEFINE f == FirstShift(v)
             d == [i \in 1..f + 1 |-> Digit(v, f + 1 - i)]
  <2>1. f \in Shifts /\ Shifted(v, f + 1) = 0
    BY <1>3, FirstShiftIs
  <2>2. Hex(v) = d
    BY <1>3 DEF Hex
  <2> HIDE DEF f
  <2>3. f \in Nat /\ f + 1 \in Nat
    BY <1>1, <2>1
  <2>4. \A i \in 1..f + 1 : f + 1 - i \in Nat /\ d[i] = Digit(v, f + 1 - i) /\ d[i] \in 0..Base-1
    <3> SUFFICES ASSUME NEW i \in 1..f + 1
                 PROVE  f + 1 - i \in Nat /\ d[i] = Digit(v, f + 1 - i) /\ d[i] \in 0..Base-1
      OBVIOUS
    <3>1. f + 1 - i \in Nat /\ d[i] = Digit(v, f + 1 - i)
      BY <2>3
    <3>2. Digit(v, f + 1 - i) \in 0..Base-1
      BY <1>1, <3>1, ShiftDigit
    <3> QED BY <3>1, <3>2
  <2>5. d \in Seq(0..Base-1) /\ Len(d) = f + 1 /\ d \in Seq(Nat)
    <3>1. d \in [1..f + 1 -> 0..Base-1] /\ d \in [1..f + 1 -> Nat]
      BY <1>1, <2>4
    <3>2. d \in Seq(0..Base-1) /\ d \in Seq(Nat) /\ DOMAIN d = 1..f + 1
      BY <2>3, <3>1
    <3> HIDE DEF d
    <3>3. Len(d) = f + 1
      BY <2>3, <3>2
    <3> QED BY <3>2, <3>3
  <2> HIDE DEF d
  <2>6. PICK h \in [0..Len(d) -> Nat] :
              /\ h[0] = 0 /\ \A i \in 1..Len(d) : h[i] = h[i-1] * Base + d[i]
              /\ Int16(d) = h[Len(d)]
    BY <2>5, Int16Runs
  <2> DEFINE G == {i \in 0..f + 1 : h[i] = Shifted(v, f + 1 - i)}
  <2>7. 0 \in G
    <3>1. f + 1 - 0 = f + 1 /\ 0 \in 0..f + 1
      BY <2>3
    <3> QED BY <2>1, <2>6, <3>1
  <2>8. ASSUME NEW i \in 0..(f + 1)-1, i \in G PROVE i + 1 \in G
    <3> DEFINE s == f + 1 - (i + 1)
               q == Shifted(v, s + 1)
    <3>1. s \in Nat /\ s + 1 = f + 1 - i /\ i + 1 \in 1..f + 1 /\ i + 1 \in 0..f + 1 /\ i + 1 - 1 = i
      BY <2>3
    <3>2. h[i] = q
      BY <2>8, <3>1
    <3>3. d[i+1] = Digit(v, s)
      BY <2>4, <3>1
    <3>4. h[i+1] = h[i] * Base + d[i+1]
      BY <2>5, <2>6, <3>1
    <3> HIDE DEF s, G
    <3>5. Shifted(v, s) = Base * q + Digit(v, s) /\ q \in Nat
      BY <1>1, <3>1, ShiftDigit
    <3>6. q * Base = Base * q
      BY <1>1, <3>5
    <3>7. h[i+1] = Shifted(v, s)
      BY <3>2, <3>3, <3>4, <3>5, <3>6
    <3> QED BY <3>1, <3>7 DEF G, s
  <2> HIDE DEF G
  <2>9. \A i \in 0..f + 1 : i \in G
    BY <2>3, <2>7, <2>8, EveryRound
  <2>10. f + 1 \in 0..f + 1 /\ f + 1 - (f + 1) = 0
    BY <2>3
  <2>11. h[f + 1] = Shifted(v, 0)
    BY <2>9, <2>10 DEF G
  <2>12. Int16(d) = v
    BY <2>5, <2>6, <2>11, QuotientEnds
  <2>13. d # <<>> /\ Len(d) \in Nat \ {0}
    BY <2>3, <2>5
  <2> QED BY <2>2, <2>5, <2>12, <2>13
<1> QED BY <1>2, <1>3

(* The sign is put back. *)
LEMMA SignReadBack ==
    ASSUME NEW x \in -2^(LongBits-1)..2^(LongBits-1) - 1
    PROVE  x % 2^LongBits \in 0..2^LongBits - 1 /\ twos_comp(x % 2^LongBits) = x
<1> DEFINE H == 2^(LongBits-1)
           M == 2^LongBits
           r == x % M
<1>1. H \in Nat \ {0} /\ M = 2 * H /\ M \in Nat \ {0}
  BY LineWidths
<1>2. x \in -H..H-1
  OBVIOUS
<1>3. twos_comp(r) = IF (r \div H) % 2 # 0 THEN r - M ELSE r
  BY DEF twos_comp
<1> HIDE DEF H
<1>4. r = IF x >= 0 THEN x ELSE x + M
  <2> HIDE DEF M
  <2>1. CASE x >= 0
    <3>1. 0 \in Int /\ x \in 0..M-1 /\ M * 0 + x = x
      BY <1>1, <1>2, <2>1
    <3>2. (M * 0 + x) % M = x
      BY <1>1, <3>1, OneRemainder
    <3> QED BY <2>1, <3>1, <3>2
  <2>2. CASE x < 0
    <3>1. -1 \in Int /\ x + M \in 0..M-1 /\ M * (-1) + (x + M) = x
      BY <1>1, <1>2, <2>2
    <3>2. (M * (-1) + (x + M)) % M = x + M
      BY <1>1, <3>1, OneRemainder
    <3> QED BY <1>2, <2>2, <3>1, <3>2
  <2> QED BY <1>2, <2>1, <2>2
<1>5. r \in 0..M-1
  BY <1>1, <1>2, <1>4
<1> HIDE DEF M, r
<1>6. CASE x >= 0
  <2>1. r \in 0..H-1 /\ H * 0 + r = r /\ 0 \in Int
    BY <1>1, <1>2, <1>4, <1>6
  <2>2. (H * 0 + r) \div H = 0
    BY <1>1, <2>1, OneRemainder
  <2>3. (r \div H) % 2 = 0
    BY <2>1, <2>2
  <2> QED BY <1>3, <1>4, <1>5, <1>6, <2>3 DEF M, r
<1>7. CASE x < 0
  <2>1. r - H \in 0..H-1 /\ H * 1 + (r - H) = r /\ 1 \in Int
    BY <1>1, <1>2, <1>4, <1>7
  <2>2. (H * 1 + (r - H)) \div H = 1
    BY <1>1, <2>1, OneRemainder
  <2>3. (r \div H) % 2 = 1
    BY <2>1, <2>2
  <2>4. r = x + M /\ M \in Nat
    BY <1>1, <1>2, <1>4, <1>7
  <2>5. twos_comp(r) = r - M
    BY <1>3, <2>3
  <2>6. r - M = x
    BY <1>2, <2>4
  <2>7. twos_comp(r) = x
    BY <2>5, <2>6
  <2> QED BY <1>5, <2>7 DEF M, r
<1> QED BY <1>2, <1>6, <1>7


(* Splitting a line into its fields. *)
Splits == Seq(Seq(Int)) \ {<<>>}

LEMMA FieldType ==
    ASSUME NEW f \in Splits, NEW c \in Int
    PROVE  Field(f, c) \in Splits
<1>1. f \in Seq(Seq(Int)) /\ Len(f) \in 1..Len(f) /\ f[Len(f)] \in Seq(Int)
  BY DEF Splits
<1>2. CASE c = Comma
  <2>1. Append(f, <<>>) \in Seq(Seq(Int)) /\ Append(f, <<>>) # <<>>
    BY <1>1, SMTT(30)
  <2> QED BY <1>2, <2>1 DEF Field, Splits
<1>3. CASE c # Comma
  <2> DEFINE T == Seq(Int)
             g == [f EXCEPT ![Len(f)] = Append(@, c)]
  <2>1. Append(f[Len(f)], c) \in T
    BY <1>1
  <2>2. f \in [1..Len(f) -> T] /\ Len(f) \in Nat
    BY <1>1
  <2> HIDE DEF T
  <2>3. g \in [1..Len(f) -> T]
    BY <2>1, <2>2
  <2>4. g \in Seq(T) /\ Len(g) = Len(f)
    BY <2>2, <2>3
  <2>5. g # <<>>
    BY <1>1, <2>4
  <2> QED BY <1>3, <2>4, <2>5 DEF Field, Splits, T
<1> QED BY <1>2, <1>3

LEMMA FieldsRuns ==
    ASSUME NEW c \in Seq(Int)
    PROVE  \E h : /\ h[0] = <<<<>>>> /\ \A i \in 1..Len(c) : h[i] = Field(h[i-1], c[i])
                  /\ Fields(c) = h[Len(c)]
<1> DEFINE n == Len(c)
           step == [i \in 1..n |-> [s \in Splits |-> Field(s, c[i])]]
           F(g) == [i \in 0..n |-> IF i = 0 THEN <<<<>>>> ELSE Field(g[i-1], c[i])]
           h == CHOOSE g : g = F(g)
<1>1. n \in Nat /\ \A i \in 1..n : c[i] \in Int
  OBVIOUS
<1>2. step \in [1..n -> [Splits -> Splits]]
  BY <1>1, FieldType
<1>3. PICK g \in [0..n -> Splits] : g[0] = <<<<>>>> /\ \A i \in 1..n : g[i] = step[i][g[i-1]]
  <2>1. <<<<>>>> \in Splits
    BY DEF Splits
  <2> DEFINE b == <<<<>>>>
  <2> HIDE DEF step, F, h, b
  <2>2. Runs(n, Splits, b, step)
    BY <1>1, <1>2, <2>1, LoopRuns, Zenon DEF b
  <2> QED BY <2>2, Zenon DEF Runs, b
<1>4. \A i \in 1..n : g[i] = Field(g[i-1], c[i])
  <2> SUFFICES ASSUME NEW i \in 1..n PROVE g[i] = Field(g[i-1], c[i])
    OBVIOUS
  <2>1. i - 1 \in 0..n
    BY <1>1
  <2>2. g[i-1] \in Splits
    BY <2>1
  <2>3. g[i] = step[i][g[i-1]]
    BY <1>3
  <2> QED BY <2>2, <2>3, Zenon
<1> HIDE DEF step
<1>5. g = F(g)
  <2>1. g[0] = F(g)[0]
    BY <1>1, <1>3
  <2>2. \A i \in 1..n : g[i] = F(g)[i]
    BY <1>1, <1>4
  <2>3. \A i \in 0..n : g[i] = F(g)[i]
    <3> HIDE DEF n, F
    <3>1. \A i \in 0..n : i = 0 \/ i \in 1..n
      BY <1>1
    <3> QED BY <2>1, <2>2, <3>1
  <2>4. F(g) = [i \in 0..n |-> F(g)[i]]
    OBVIOUS
  <2> HIDE DEF F, n
  <2> QED BY <2>3, <2>4
<1>6. h = F(h)
  <2> HIDE DEF F
  <2> QED BY <1>5, Zenon
<1>7. Fields(c) = h[n]
  BY Zenon DEF Fields
<1> HIDE DEF h
<1>8. h[0] = <<<<>>>>
  <2>1. F(h)[0] = <<<<>>>>
    BY <1>1
  <2> HIDE DEF F
  <2> QED BY <1>6, <2>1, Zenon
<1>9. ASSUME NEW i \in 1..n PROVE h[i] = Field(h[i-1], c[i])
  <2>1. i \in 0..n /\ i # 0
    BY <1>1
  <2>2. F(h)[i] = Field(h[i-1], c[i])
    BY <2>1
  <2> HIDE DEF F
  <2> QED BY <1>6, <2>2, Zenon
<1> QED BY <1>7, <1>8, <1>9, Zenon

LEMMA FieldGrows ==
    ASSUME NEW p \in Seq(Seq(Int)), NEW q \in Seq(Int), NEW x \in Int
    PROVE  Field(Append(p, q), x) = IF x = Comma THEN Append(Append(p, q), <<>>) ELSE Append(p, Append(q, x))
<1> DEFINE T == Seq(Int)
           f == Append(p, q)
           r == Append(q, x)
<1>1. r \in T
  OBVIOUS
<1> HIDE DEF r
<1>2. ASSUME x # Comma PROVE Field(f, x) = Append(p, r)
  <2> HIDE DEF T
  <2>1. /\ Len(f) = Len(p) + 1 /\ Len(p) \in Nat /\ f[Len(p) + 1] = q /\ f \in Seq(T)
        /\ \A i \in 1..Len(p) : f[i] = p[i]
    BY DEF T
  <2> HIDE DEF f
  <2>2. Field(f, x) = [f EXCEPT ![Len(p) + 1] = r]
    BY <1>2, <2>1 DEF Field, r
  <2>3. [f EXCEPT ![Len(p) + 1] = r] = Append(p, r)
    <3> DEFINE n == Len(p)
               a == [f EXCEPT ![n + 1] = r]
               b == Append(p, r)
    <3>1. /\ b \in Seq(T) /\ Len(b) = n + 1 /\ b[n + 1] = r
          /\ \A i \in 1..n : b[i] = p[i]
      BY <1>1, <2>1 DEF T
    <3>2. b = [i \in 1..n + 1 |-> b[i]] /\ n \in Nat
      <4> HIDE DEF b
      <4> QED BY <2>1, <3>1
    <3>3. f \in [1..n + 1 -> T]
      BY <2>1
    <3>7. n \in Nat /\ \A i \in 1..n : f[i] = p[i]
      BY <2>1
    <3> HIDE DEF b, n
    <3>4. a = [i \in 1..n + 1 |-> a[i]] /\ a[n + 1] = r /\ \A i \in 1..n : a[i] = f[i]
      <4>1. n + 1 \in 1..n + 1 /\ \A i \in 1..n : i \in 1..n + 1 /\ i # n + 1
        BY <3>7
      <4>2. DOMAIN f = 1..n + 1
        BY <3>3
      <4>3. a \in [1..n + 1 -> T]
        BY <1>1, <3>3 DEF T
      <4>4. a = [i \in 1..n + 1 |-> a[i]]
        <5> HIDE DEF a
        <5> QED BY <4>3
      <4>5. a[n + 1] = r
        BY <4>1, <4>2
      <4>6. ASSUME NEW i \in 1..n PROVE a[i] = f[i]
        <5>1. i \in DOMAIN f /\ i # n + 1
          BY <4>1, <4>2
        <5> QED BY <5>1
      <4> QED BY <4>4, <4>5, <4>6
    <3> HIDE DEF a
    <3>5. \A i \in 1..n + 1 : a[i] = b[i]
      <4>1. \A i \in 1..n + 1 : i \in 1..n \/ i = n + 1
        BY <3>7
      <4> QED BY <3>1, <3>4, <3>7, <4>1
    <3>6. a = b
      BY <3>2, <3>4, <3>5
    <3> QED BY <3>6 DEF a, b, n
  <2> QED BY <2>2, <2>3
<1>3. x = Comma => Field(f, x) = Append(f, <<>>)
  BY DEF Field
<1> QED BY <1>2, <1>3 DEF r

Grown(t, s, x, S) == /\ t \in Seq(S) /\ Len(s) \in Nat /\ Len(t) = Len(s) + 1
                     /\ t[Len(s) + 1] = x /\ \A y \in 1..Len(s) : t[y] = s[y]

LEMMA AppendEntries ==
    ASSUME NEW S, NEW s \in Seq(S), NEW x \in S
    PROVE  Grown(Append(s, x), s, x, S)
BY DEF Grown

(* A field of the line, read from its beginning to its end. *)
Splitting(h, c, n) == \A i \in 1..n : h[i] = Field(h[i-1], c[i])
Follows(q, c, a) == \A j \in 1..Len(q) : c[a + j] = q[j]

LEMMA FieldFollows ==
    ASSUME NEW n \in Nat, NEW h, NEW c, Splitting(h, c, n),
           NEW p \in Seq(Seq(Int)), NEW q \in Seq(Nat), NEW a \in 0..n, a + Len(q) <= n,
           h[a] = Append(p, <<>>), Follows(q, c, a)
    PROVE  h[a + Len(q)] = Append(p, q)
<1> DEFINE m == Len(q)
           Prefix(j) == [i \in 1..j |-> q[i]]
           G == {j \in 0..m : h[a + j] = Append(p, Prefix(j))}
<1>1. /\ m \in Nat /\ a + m <= n /\ q = [i \in 1..m |-> q[i]]
      /\ \A j \in 1..m : q[j] \in Nat /\ c[a + j] = q[j]
  BY DEF Follows
<1> HIDE DEF m
<1>2. 0 \in G
  <2>1. Prefix(0) = <<>> /\ a + 0 = a
    OBVIOUS
  <2> HIDE DEF Prefix
  <2> QED BY <1>1, <2>1
<1>3. ASSUME NEW j \in 0..m-1, j \in G PROVE j + 1 \in G
  <2> DEFINE i == a + j + 1
             x == q[j + 1]
             b == Append(Prefix(j), x)
             k == j + 1
  <2>3. h[a + j] = Append(p, Prefix(j))
    BY <1>3
  <2> HIDE DEF G, Prefix
  <2>1. i \in 1..n /\ i - 1 = a + j /\ a + (j + 1) = i /\ k \in 1..m /\ j + 1 \in 0..m /\ j \in Nat
    <3>1. m \in Nat /\ a + m <= n /\ a \in Nat /\ j \in Nat /\ j + 1 <= m
      BY <1>1
    <3> QED BY <3>1
  <2>2. h[i] = Field(h[i-1], c[i]) /\ c[i] = x /\ x \in Nat
    <3>1. c[a + (j + 1)] = q[j + 1] /\ q[j + 1] \in Nat
      BY <1>1, <2>1
    <3>2. h[i] = Field(h[i-1], c[i])
      BY <2>1 DEF Splitting
    <3> QED BY <2>1, <3>1, <3>2
  <2>7. Prefix(j) \in Seq(Nat) /\ Len(Prefix(j)) = j /\ \A y \in 1..j : Prefix(j)[y] = q[y]
    <3>1. \A y \in 1..j : q[y] \in Nat
      <4>1. \A y \in 1..j : y \in 1..m
        BY <1>1, <2>1, SMTT(30)
      <4> QED BY <1>1, <4>1
    <3>2. Prefix(j) \in [1..j -> Nat] /\ \A y \in 1..j : Prefix(j)[y] = q[y]
      BY <3>1 DEF Prefix
    <3> QED BY <2>1, <3>2
  <2>8. b \in Seq(Nat) /\ Len(b) = k /\ b[k] = x /\ \A y \in 1..j : b[y] = Prefix(j)[y]
    <3> DEFINE s == Prefix(j)
    <3>1. s \in Seq(Nat) /\ Len(s) = j /\ x \in Nat
      BY <2>2, <2>7
    <3> HIDE DEF x, i, s
    <3>2. Grown(b, s, x, Nat)
      BY <3>1, AppendEntries, Zenon DEF s
    <3> HIDE DEF b
    <3>3. /\ b \in Seq(Nat) /\ Len(b) = Len(s) + 1 /\ b[Len(s) + 1] = x
          /\ \A y \in 1..Len(s) : b[y] = s[y]
      BY <3>2, Zenon DEF Grown
    <3> QED BY <3>1, <3>3 DEF s
  <2>4. Prefix(j) \in Seq(Int) /\ b = Prefix(j + 1)
    <3>1. Prefix(j) \in Seq(Int)
      BY <2>7
    <3> HIDE DEF b
    <3>2. b = [y \in 1..k |-> b[y]]
      BY <2>8
    <3>3. \A y \in 1..k : b[y] = q[y]
      <4> SUFFICES ASSUME NEW y \in 1..k PROVE b[y] = q[y]
        OBVIOUS
      <4>1. CASE y = k
        BY <2>8, <4>1
      <4>2. CASE y \in 1..j
        BY <2>7, <2>8, <4>2
      <4> QED BY <2>1, <4>1, <4>2
    <3> QED BY <3>1, <3>2, <3>3 DEF Prefix
  <2>5. x \in Int /\ x # Comma
    BY <2>2 DEF Comma
  <2> HIDE DEF x, i
  <2>6. Field(Append(p, Prefix(j)), x) = Append(p, b)
    BY <2>4, <2>5, FieldGrows
  <2> HIDE DEF b
  <2>9. h[a + (j + 1)] = Append(p, Prefix(j + 1))
    BY <2>1, <2>2, <2>3, <2>4, <2>6
  <2> QED BY <2>1, <2>9 DEF G
<1> HIDE DEF G
<1>4. \A j \in 0..m : j \in G
  BY <1>1, <1>2, <1>3, EveryRound
<1>5. Prefix(m) = q /\ m \in 0..m
  BY <1>1
<1>6. h[a + m] = Append(p, Prefix(m))
  <2> HIDE DEF Prefix
  <2> QED BY <1>4, <1>5 DEF G
<1> QED BY <1>5, <1>6 DEF m

(* A line of five fields: where each begins and ends. *)
FiveFields(c, q, e, n) ==
    /\ q \in [1..5 -> Seq(Nat)] /\ e \in [0..5 -> Nat] /\ e[0] = 0 /\ e[5] = n + 1
    /\ \A k \in 1..5 : /\ e[k] = e[k-1] + Len(q[k]) + 1
                       /\ \A j \in 1..Len(q[k]) : c[e[k-1] + j] = q[k][j]
    /\ \A k \in 1..4 : c[e[k]] = Comma

LEMMA FieldsAreFive ==
    ASSUME NEW c \in Seq(Int), NEW q, NEW e, FiveFields(c, q, e, Len(c))
    PROVE  Fields(c) = q
<1> DEFINE n == Len(c)
           Before(k) == [i \in 1..k |-> q[i]]
<1>1. PICK h : h[0] = <<<<>>>> /\ (\A i \in 1..n : h[i] = Field(h[i-1], c[i])) /\ Fields(c) = h[n]
  BY FieldsRuns, Zenon
<1>2. n \in Nat /\ e[0] = 0 /\ e[5] = n + 1 /\ (\A k \in 0..5 : e[k] \in Nat) /\ q = [i \in 1..5 |-> q[i]]
  BY DEF FiveFields
<1>3. \A k \in 0..4 : /\ e[k+1] = e[k] + Len(q[k+1]) + 1 /\ e[k] \in Nat /\ e[k+1] \in Nat
                      /\ q[k+1] \in Seq(Nat) /\ q[k+1] \in Seq(Int) /\ Len(q[k+1]) \in Nat
                      /\ \A j \in 1..Len(q[k+1]) : c[e[k] + j] = q[k+1][j]
  <2> SUFFICES ASSUME NEW k \in 0..4
               PROVE /\ e[k+1] = e[k] + Len(q[k+1]) + 1 /\ e[k] \in Nat /\ e[k+1] \in Nat
                     /\ q[k+1] \in Seq(Nat) /\ q[k+1] \in Seq(Int) /\ Len(q[k+1]) \in Nat
                     /\ \A j \in 1..Len(q[k+1]) : c[e[k] + j] = q[k+1][j]
    OBVIOUS
  <2> DEFINE i == k + 1
  <2>1. i \in 1..5 /\ i \in 0..5 /\ k \in 0..5 /\ i - 1 = k
    OBVIOUS
  <2> HIDE DEF i
  <2>2. q[i] \in Seq(Nat)
    BY <2>1 DEF FiveFields
  <2>3. q[i] \in Seq(Int) /\ Len(q[i]) \in Nat
    BY <2>2
  <2>4. e[k] \in Nat /\ e[i] \in Nat
    BY <1>2, <2>1
  <2>5. e[i] = e[i-1] + Len(q[i]) + 1 /\ \A j \in 1..Len(q[i]) : c[e[i-1] + j] = q[i][j]
    BY <2>1, Zenon DEF FiveFields
  <2>6. e[i] = e[k] + Len(q[i]) + 1 /\ \A j \in 1..Len(q[i]) : c[e[k] + j] = q[i][j]
    BY <2>1, <2>5, Zenon
  <2> QED BY <2>2, <2>3, <2>4, <2>6 DEF i
<1> HIDE DEF n
<1>4. \A k \in 0..4 : e[k+1] <= n + 1 /\ (k # 4 => e[k+1] <= n)
  <2> DEFINE l(k) == Len(q[k+1])
  <2>1. \A k \in 0..4 : e[k+1] = e[k] + l(k) + 1 /\ l(k) \in Nat /\ e[k] \in Nat
    BY <1>3
  <2> HIDE DEF l
  <2>4. e[0] \in Nat /\ e[1] \in Nat /\ e[2] \in Nat /\ e[3] \in Nat /\ e[4] \in Nat /\ e[5] = n + 1 /\ n \in Nat
    BY <1>2
  <2>5. e[4] <= n
    <3>1. e[4+1] = e[4] + l(4) + 1 /\ l(4) \in Nat /\ 4 + 1 = 5
      BY <2>1
    <3> QED BY <2>4, <3>1
  <2>6. e[3] <= n
    <3>1. e[3+1] = e[3] + l(3) + 1 /\ l(3) \in Nat /\ 3 + 1 = 4
      BY <2>1
    <3> QED BY <2>4, <2>5, <3>1
  <2>7. e[2] <= n
    <3>1. e[2+1] = e[2] + l(2) + 1 /\ l(2) \in Nat /\ 2 + 1 = 3
      BY <2>1
    <3> QED BY <2>4, <2>6, <3>1
  <2>8. e[1] <= n
    <3>1. e[1+1] = e[1] + l(1) + 1 /\ l(1) \in Nat /\ 1 + 1 = 2
      BY <2>1
    <3> QED BY <2>4, <2>7, <3>1
  <2> SUFFICES ASSUME NEW k \in 0..4 PROVE e[k+1] <= n + 1 /\ (k # 4 => e[k+1] <= n)
    OBVIOUS
  <2>9. /\ k + 1 = 1 \/ k + 1 = 2 \/ k + 1 = 3 \/ k + 1 = 4 \/ k + 1 = 5
        /\ k # 4 => k + 1 # 5
    OBVIOUS
  <2> QED BY <2>4, <2>5, <2>6, <2>7, <2>8, <2>9
<1>5. \A k \in 0..4 : Before(k) \in Seq(Seq(Int)) /\ Len(Before(k)) = k
  <2> SUFFICES ASSUME NEW k \in 0..4 PROVE Before(k) \in Seq(Seq(Int)) /\ Len(Before(k)) = k
    OBVIOUS
  <2> DEFINE T == Seq(Int)
  <2>1. \A i \in 1..k : q[i] \in T
    <3> SUFFICES ASSUME NEW i \in 1..k PROVE q[i] \in T
      OBVIOUS
    <3>1. i - 1 \in 0..4 /\ i - 1 + 1 = i
      OBVIOUS
    <3> QED BY <1>3, <3>1
  <2> HIDE DEF T
  <2>2. Before(k) \in [1..k -> T] /\ k \in Nat
    BY <2>1
  <2>3. Before(k) \in Seq(T) /\ Len(Before(k)) = k
    BY <2>2
  <2> QED BY <2>3 DEF T
<1>6. \A k \in 0..4 : Append(Before(k), q[k+1]) = Before(k+1)
  <2> SUFFICES ASSUME NEW k \in 0..4 PROVE Append(Before(k), q[k+1]) = Before(k+1)
    OBVIOUS
  <2> DEFINE T == Seq(Int)
             p == Before(k)
             b == Append(p, q[k+1])
             i == k + 1
  <2>1. q[i] \in T
    BY <1>3
  <2>2. p \in Seq(T) /\ Len(p) = k
    BY <1>5
  <2>3. \A y \in 1..k : p[y] = q[y]
    OBVIOUS
  <2> HIDE DEF p, T, Before
  <2>4. b \in Seq(T) /\ Len(b) = i /\ b[i] = q[i] /\ \A y \in 1..k : b[y] = p[y]
    BY <2>1, <2>2
  <2> HIDE DEF b
  <2>5. b = [y \in 1..i |-> b[y]]
    BY <2>4
  <2>6. \A y \in 1..i : b[y] = q[y]
    BY <2>3, <2>4
  <2>7. b = [y \in 1..i |-> q[y]]
    BY <2>5, <2>6
  <2> QED BY <2>7 DEF b, p, Before
<1> DEFINE G == {k \in 0..4 : h[e[k]] = Append(Before(k), <<>>)}
<1>7. ASSUME NEW k \in 0..4, h[e[k]] = Append(Before(k), <<>>)
      PROVE  h[e[k] + Len(q[k+1])] = Before(k+1)
  <2>2. /\ e[k+1] = e[k] + Len(q[k+1]) + 1 /\ e[k] \in Nat /\ e[k+1] \in Nat /\ e[k+1] <= n + 1
        /\ q[k+1] \in Seq(Nat) /\ Len(q[k+1]) \in Nat
        /\ \A j \in 1..Len(q[k+1]) : c[e[k] + j] = q[k+1][j]
    BY <1>3, <1>4
  <2>3. e[k] \in 0..n /\ e[k] + Len(q[k+1]) <= n
    <3> DEFINE l == Len(q[k+1])
    <3>1. e[k+1] = e[k] + l + 1 /\ e[k] \in Nat /\ e[k+1] \in Nat /\ e[k+1] <= n + 1 /\ l \in Nat
      BY <2>2
    <3>2. n \in Nat
      BY <1>2
    <3> HIDE DEF l
    <3>3. e[k] \in 0..n /\ e[k] + l <= n
      BY <3>1, <3>2
    <3> QED BY <3>3 DEF l
  <2> DEFINE a == e[k]
             s == q[k+1]
             p == Before(k)
  <2>4. p \in Seq(Seq(Int)) /\ h[a] = Append(p, <<>>) /\ s \in Seq(Nat)
    BY <1>5, <1>7, <2>2
  <2>5. h[a + Len(s)] = Append(p, s)
    <3> HIDE DEF a, s, p
    <3>1. a \in 0..n /\ a + Len(s) <= n /\ \A j \in 1..Len(s) : c[a + j] = s[j]
      BY <2>2, <2>3 DEF a, s
    <3>2. n \in Nat /\ \A i \in 1..n : h[i] = Field(h[i-1], c[i])
      BY <1>1, <1>2
    <3>3. Splitting(h, c, n) /\ Follows(s, c, a)
      BY <3>1, <3>2 DEF Splitting, Follows
    <3> QED BY <2>4, <3>1, <3>2, <3>3, FieldFollows, Zenon
  <2>6. Append(p, s) = Before(k+1)
    <3> HIDE DEF Before
    <3> QED BY <1>6
  <2> QED BY <2>5, <2>6
<1>8. 0 \in G
  <2>1. Before(0) = <<>>
    OBVIOUS
  <2>2. Append(<<>>, <<>>) = <<<<>>>>
    OBVIOUS
  <2>3. h[e[0]] = Append(Before(0), <<>>)
    BY <1>1, <1>2, <2>1, <2>2, Zenon
  <2> HIDE DEF Before
  <2> QED BY <2>3
<1>9. ASSUME NEW k \in 0..3, k \in G PROVE k + 1 \in G
  <2>1. k \in 0..4 /\ k + 1 \in 0..4 /\ k + 1 \in 1..5 /\ k + 1 \in 1..4 /\ k + 1 - 1 = k
    OBVIOUS
  <2>2. h[e[k] + Len(q[k+1])] = Before(k+1)
    <3> HIDE DEF Before
    <3> QED BY <1>7, <1>9, <2>1
  <2>3. /\ e[k+1] = e[k] + Len(q[k+1]) + 1 /\ e[k] \in Nat /\ e[k+1] \in Nat /\ Len(q[k+1]) \in Nat
        /\ q[k+1] \in Seq(Int)
    BY <1>3, <2>1
  <2>4. e[k+1] \in 1..n /\ e[k+1] - 1 = e[k] + Len(q[k+1])
    <3> DEFINE l == Len(q[k+1])
    <3>1. e[k+1] <= n /\ n \in Nat
      <4>1. k # 4
        OBVIOUS
      <4> QED BY <1>2, <1>4, <2>1, <4>1
    <3>2. e[k+1] = e[k] + l + 1 /\ e[k] \in Nat /\ e[k+1] \in Nat /\ l \in Nat
      BY <2>3
    <3> HIDE DEF l
    <3>3. e[k+1] \in 1..n /\ e[k+1] - 1 = e[k] + l
      BY <3>1, <3>2
    <3> QED BY <3>3 DEF l
  <2>5. h[e[k+1]] = Field(Before(k+1), Comma)
    <3>1. c[e[k+1]] = Comma
      BY <2>1 DEF FiveFields
    <3>2. h[e[k+1]] = Field(h[e[k+1]-1], c[e[k+1]])
      BY <1>1, <2>4
    <3> HIDE DEF Before
    <3> QED BY <2>2, <2>4, <3>1, <3>2
  <2> DEFINE p == Before(k)
             s == q[k+1]
  <2>6. p \in Seq(Seq(Int)) /\ s \in Seq(Int) /\ Append(p, s) = Before(k+1)
    <3>1. s \in Seq(Int) /\ p \in Seq(Seq(Int))
      BY <1>5, <2>1, <2>3
    <3>2. Append(p, s) = Before(k+1)
      <4> HIDE DEF Before
      <4> QED BY <1>6, <2>1
    <3> QED BY <3>1, <3>2
  <2> HIDE DEF p, s, Before
  <2>7. Field(Append(p, s), Comma) = Append(Append(p, s), <<>>)
    <3>1. Comma \in Int
      BY DEF Comma
    <3> QED BY <2>6, <3>1, FieldGrows
  <2>8. h[e[k+1]] = Append(Before(k+1), <<>>)
    BY <2>5, <2>6, <2>7
  <2> QED BY <2>1, <2>8
<1> HIDE DEF G
<1>10. \A k \in 0..4 : k \in G
  <2>1. 4 \in Nat /\ \A k \in 0..4-1 : k \in G => k + 1 \in G
    BY <1>9
  <2> QED BY <1>8, <2>1, EveryRound
<1>11. h[e[4]] = Append(Before(4), <<>>)
  <2>1. 4 \in 0..4
    OBVIOUS
  <2> HIDE DEF Before
  <2> QED BY <1>10, <2>1 DEF G
<1>12. h[e[4] + Len(q[5])] = Before(5)
  <2>1. 4 \in 0..4 /\ 4 + 1 = 5
    OBVIOUS
  <2> HIDE DEF Before
  <2> QED BY <1>7, <1>11, <2>1
<1>13. e[4] + Len(q[5]) = n
  <2>1. 4 \in 0..4 /\ 4 + 1 = 5
    OBVIOUS
  <2>2. e[5] = e[4] + Len(q[5]) + 1 /\ e[4] \in Nat /\ Len(q[5]) \in Nat
    BY <1>3, <2>1
  <2> QED BY <1>2, <2>2
<1>14. Before(5) = q
  BY <1>2
<1> QED BY <1>1, <1>12, <1>13, <1>14


(* A line as it is printed: five numbers, each with the character behind it. *)
Begins(P, r) == Len(r) <= Len(P) /\ \A i \in 1..Len(r) : P[i] = r[i]
Piece(P, q, t, a, b) ==
    a \in Nat /\ b = a + Len(q) + 1 /\ (\A j \in 1..Len(q) : P[a + j] = q[j]) /\ P[b] = t

LEMMA ConcatEntries ==
    ASSUME NEW S, NEW a \in Seq(S), NEW b \in Seq(S)
    PROVE  /\ a \o b \in Seq(S) /\ Len(a) \in Nat /\ Len(b) \in Nat /\ Len(a \o b) = Len(a) + Len(b)
           /\ \A i \in 1..Len(a) : (a \o b)[i] = a[i]
           /\ \A i \in 1..Len(b) : (a \o b)[Len(a) + i] = b[i]
OBVIOUS

LEMMA PieceOf ==
    ASSUME NEW a \in Seq(Int), NEW q \in Seq(Int), NEW t \in Int, NEW r, r = a \o q \o <<t>>
    PROVE  /\ r \in Seq(Int)
           /\ \A P : Begins(P, r) => Begins(P, a) /\ Piece(P, q, t, Len(a), Len(r))
<1> DEFINE m == a \o q
           u == <<t>>
<1>1. /\ m \in Seq(Int) /\ Len(a) \in Nat /\ Len(q) \in Nat /\ Len(m) = Len(a) + Len(q)
      /\ \A i \in 1..Len(a) : m[i] = a[i]
      /\ \A i \in 1..Len(q) : m[Len(a) + i] = q[i]
  BY ConcatEntries
<1>2. u \in Seq(Int) /\ Len(u) = 1 /\ u[1] = t /\ r = m \o u
  OBVIOUS
<1> HIDE DEF m, u
<1>3. /\ r \in Seq(Int) /\ Len(r) = Len(m) + 1
      /\ \A i \in 1..Len(m) : r[i] = m[i]
      /\ r[Len(m) + 1] = t
  <2>1. /\ m \o u \in Seq(Int) /\ Len(m \o u) = Len(m) + Len(u)
        /\ \A i \in 1..Len(m) : (m \o u)[i] = m[i]
        /\ \A i \in 1..Len(u) : (m \o u)[Len(m) + i] = u[i]
    <3>1. m \in Seq(Int) /\ u \in Seq(Int)
      BY <1>1, <1>2
    <3> QED BY <3>1, ConcatEntries
  <2>2. 1 \in 1..Len(u)
    BY <1>2
  <2> QED BY <1>2, <2>1, <2>2
<1> DEFINE x == Len(a)
           y == Len(q)
           z == Len(r)
<1>4. x \in Nat /\ y \in Nat /\ z = x + y + 1 /\ Len(m) = x + y
  BY <1>1, <1>3
<1>5. ASSUME NEW P, Begins(P, r) PROVE Begins(P, a) /\ Piece(P, q, t, x, z)
  <2>1. z <= Len(P) /\ \A i \in 1..z : P[i] = r[i]
    BY <1>5, Zenon DEF Begins
  <2>2. \A i \in 1..x : i \in 1..z /\ i \in 1..x + y
    <3> HIDE DEF x, y, z
    <3> QED BY <1>4
  <2>3. \A i \in 1..y : x + i \in 1..z /\ x + i \in 1..x + y
    <3> HIDE DEF x, y, z
    <3> QED BY <1>4
  <2>4. z \in 1..z /\ x + y + 1 = z
    <3> HIDE DEF x, y, z
    <3> QED BY <1>4
  <2>5. \A i \in 1..x : P[i] = a[i]
    BY <1>1, <1>3, <1>4, <2>1, <2>2
  <2>6. \A i \in 1..y : P[x + i] = q[i]
    BY <1>1, <1>3, <1>4, <2>1, <2>3
  <2>7. P[z] = t
    BY <1>3, <1>4, <2>1, <2>4
  <2>8. x <= Len(P)
    <3>1. r[1] = r[1] /\ x < z
      <4> HIDE DEF x, y, z
      <4> QED BY <1>4
    <3> DEFINE w == Len(P)
    <3>2. z <= w /\ x \in Nat /\ z \in Nat
      BY <1>4, <2>1
    <3> QED BY <1>5, <3>1, <3>2, <2>1
  <2> QED BY <1>4, <2>5, <2>6, <2>7, <2>8 DEF Begins, Piece
<1> QED BY <1>3, <1>5

(* The numbers of a line, and where each of them ends. *)
LineOf(P, q, e) ==
    /\ P \in Seq(Int) /\ q \in [1..5 -> Seq(Nat)] /\ e \in [0..5 -> Nat] /\ e[0] = 0 /\ e[5] = Len(P)
    /\ \A k \in 1..5 : Piece(P, q[k], IF k = 5 THEN Newline ELSE Comma, e[k-1], e[k])

Numbers(s) == [k \in 1..5 |-> Hex(s[k] % 2^LongBits)]

LEMMA NumbersType ==
    ASSUME NEW s \in Lines
    PROVE  /\ s = [k \in 1..5 |-> s[k]] /\ Numbers(s) \in [1..5 -> Seq(Nat)]
           /\ \A k \in 1..5 : /\ s[k] % 2^LongBits \in 0..2^LongBits - 1 /\ Numbers(s)[k] # <<>>
                              /\ Int16(Numbers(s)[k]) = s[k] % 2^LongBits
           /\ \A k \in 1..3 : twos_comp(s[k] % 2^LongBits) = s[k]
           /\ \A k \in 4..5 : s[k] % 2^LongBits = s[k]
<1> DEFINE M == 2^LongBits
<1>1. /\ Len(s) = 5 /\ s \in Seq(Int)
      /\ \A i \in 1..3 : s[i] \in -2^(LongBits-1)..2^(LongBits-1) - 1
      /\ \A i \in 4..5 : s[i] \in 0..2^LongBits - 1
  BY LineAssumption, Zenon
<1>2. s = [k \in 1..5 |-> s[k]] /\ M \in Nat \ {0}
  BY <1>1, LineWidths
<1>3. \A k \in 1..3 : s[k] % M \in 0..M-1 /\ twos_comp(s[k] % M) = s[k]
  BY <1>1, SignReadBack
<1>4. ASSUME NEW k \in 4..5 PROVE s[k] % M = s[k] /\ s[k] \in 0..M-1
  <2>1. s[k] \in 0..M-1
    BY <1>1
  <2> HIDE DEF M
  <2>2. 0 \in Int /\ M * 0 + s[k] = s[k]
    BY <1>2, <2>1
  <2>3. (M * 0 + s[k]) % M = s[k]
    BY <1>2, <2>1, <2>2, OneRemainder
  <2> QED BY <2>1, <2>2, <2>3
<1>5. \A k \in 1..5 : s[k] % M \in 0..M-1
  <2>1. \A k \in 1..5 : k \in 1..3 \/ k \in 4..5
    OBVIOUS
  <2> HIDE DEF M
  <2> QED BY <1>3, <1>4, <2>1
<1>6. ASSUME NEW k \in 1..5
      PROVE  Numbers(s)[k] \in Seq(Nat) /\ Numbers(s)[k] # <<>> /\ Int16(Numbers(s)[k]) = s[k] % M
  <2> DEFINE v == s[k] % M
  <2>1. Numbers(s)[k] = Hex(v) /\ v \in 0..M-1
    BY <1>5 DEF Numbers
  <2> HIDE DEF v
  <2>2. Hex(v) \in Seq(0..Base-1) /\ Hex(v) # <<>> /\ Int16(Hex(v)) = v
    BY <2>1, HexReadBack
  <2>3. Hex(v) \in Seq(Nat)
    <3>1. 0..Base-1 \subseteq Nat
      BY LineWidths
    <3> DEFINE x == Hex(v)
               S == 0..Base-1
    <3> HIDE DEF x, S
    <3>2. x \in [1..Len(x) -> S] /\ Len(x) \in Nat
      <4>1. x \in Seq(S)
        BY <2>2 DEF x, S
      <4> QED BY <4>1
    <3>3. x \in [1..Len(x) -> Nat]
      BY <3>1, <3>2 DEF S
    <3>4. x \in Seq(Nat)
      BY <3>2, <3>3
    <3> QED BY <3>4 DEF x
  <2> QED BY <2>1, <2>2, <2>3 DEF v
<1>7. Numbers(s) \in [1..5 -> Seq(Nat)]
  <2>1. Numbers(s) = [k \in 1..5 |-> Numbers(s)[k]]
    BY DEF Numbers
  <2> QED BY <1>6, <2>1
<1> QED BY <1>2, <1>3, <1>4, <1>5, <1>6, <1>7

LEMMA PrintedIs ==
    ASSUME NEW s \in Lines
    PROVE  \E e : LineOf(Printed(s), Numbers(s), e)
<1> DEFINE q == Numbers(s)
           C == <<Comma>>
           o1 == q[1] \o <<Comma>>
           o2 == o1 \o q[2] \o <<Comma>>
           o3 == o2 \o q[3] \o <<Comma>>
           o4 == o3 \o q[4] \o <<Comma>>
           P == o4 \o q[5] \o <<Newline>>
           e == [k \in 0..5 |-> IF k = 0 THEN 0 ELSE IF k = 1 THEN Len(o1) ELSE IF k = 2 THEN Len(o2)
                                ELSE IF k = 3 THEN Len(o3) ELSE IF k = 4 THEN Len(o4) ELSE Len(P)]
<1>1. Printed(s) = P
  <2> DEFINE x(i) == Hex(s[i] % 2^LongBits)
  <2>1. q[1] = x(1) /\ q[2] = x(2) /\ q[3] = x(3) /\ q[4] = x(4) /\ q[5] = x(5)
    BY DEF Numbers
  <2>2. Printed(s) = x(1) \o C \o x(2) \o C \o x(3) \o C \o x(4) \o C \o x(5) \o <<Newline>>
    BY Zenon DEF Printed
  <2> HIDE DEF q, x
  <2> QED BY <2>1, <2>2, Zenon
<1>2. q \in [1..5 -> Seq(Nat)] /\ \A k \in 1..5 : q[k] \in Seq(Int)
  <2>1. q \in [1..5 -> Seq(Nat)]
    BY NumbersType
  <2> HIDE DEF q
  <2>2. \A k \in 1..5 : q[k] \in Seq(Nat)
    BY <2>1
  <2> QED BY <2>1, <2>2
<1>3. Comma \in Int /\ Newline \in Int
  BY DEF Comma, Newline
<1> HIDE DEF q
<1>4. /\ q[1] \in Seq(Int) /\ q[2] \in Seq(Int) /\ q[3] \in Seq(Int) /\ q[4] \in Seq(Int) /\ q[5] \in Seq(Int)
      /\ <<>> \in Seq(Int)
  BY <1>2
<1>5. o1 = <<>> \o q[1] \o <<Comma>>
  <2>1. <<>> \o q[1] = q[1]
    BY <1>4
  <2> QED BY <2>1
<1> HIDE DEF P
<1>6. /\ o1 \in Seq(Int)
      /\ \A R : Begins(R, o1) => Begins(R, <<>>) /\ Piece(R, q[1], Comma, Len(<<>>), Len(o1))
  <2> HIDE DEF o1
  <2> QED BY <1>3, <1>4, <1>5, PieceOf, Zenon
<1> HIDE DEF o1
<1>7. /\ o2 \in Seq(Int)
      /\ \A R : Begins(R, o2) => Begins(R, o1) /\ Piece(R, q[2], Comma, Len(o1), Len(o2))
  BY <1>3, <1>4, <1>6, PieceOf, Zenon
<1> HIDE DEF o2
<1>8. /\ o3 \in Seq(Int)
      /\ \A R : Begins(R, o3) => Begins(R, o2) /\ Piece(R, q[3], Comma, Len(o2), Len(o3))
  BY <1>3, <1>4, <1>7, PieceOf, Zenon
<1> HIDE DEF o3
<1>9. /\ o4 \in Seq(Int)
      /\ \A R : Begins(R, o4) => Begins(R, o3) /\ Piece(R, q[4], Comma, Len(o3), Len(o4))
  BY <1>3, <1>4, <1>8, PieceOf, Zenon
<1> HIDE DEF o4
<1>10. /\ P \in Seq(Int)
       /\ \A R : Begins(R, P) => Begins(R, o4) /\ Piece(R, q[5], Newline, Len(o4), Len(P))
  BY <1>3, <1>4, <1>9, PieceOf, Zenon DEF P
<1>11. Begins(P, P)
  <2>1. Len(P) \in Nat
    BY <1>10
  <2> QED BY <2>1 DEF Begins
<1>12. /\ Piece(P, q[5], Newline, Len(o4), Len(P)) /\ Piece(P, q[4], Comma, Len(o3), Len(o4))
       /\ Piece(P, q[3], Comma, Len(o2), Len(o3)) /\ Piece(P, q[2], Comma, Len(o1), Len(o2))
       /\ Piece(P, q[1], Comma, Len(<<>>), Len(o1))
  BY <1>6, <1>7, <1>8, <1>9, <1>10, <1>11, Zenon
<1>13. /\ e[0] = 0 /\ e[1] = Len(o1) /\ e[2] = Len(o2) /\ e[3] = Len(o3) /\ e[4] = Len(o4) /\ e[5] = Len(P)
       /\ Len(<<>>) = 0
  OBVIOUS
<1>14. e \in [0..5 -> Nat]
  <2>1. Len(o1) \in Nat /\ Len(o2) \in Nat /\ Len(o3) \in Nat /\ Len(o4) \in Nat /\ Len(P) \in Nat
    BY <1>6, <1>7, <1>8, <1>9, <1>10
  <2> QED BY <2>1
<1> HIDE DEF e
<1>15. ASSUME NEW k \in 1..5
       PROVE  Piece(P, q[k], IF k = 5 THEN Newline ELSE Comma, e[k-1], e[k])
  <2>1. k = 1 \/ k = 2 \/ k = 3 \/ k = 4 \/ k = 5
    OBVIOUS
  <2>2. 1 - 1 = 0 /\ 2 - 1 = 1 /\ 3 - 1 = 2 /\ 4 - 1 = 3 /\ 5 - 1 = 4
    OBVIOUS
  <2>3. CASE k = 1
    BY <1>12, <1>13, <2>2, <2>3
  <2>4. CASE k = 2
    BY <1>12, <1>13, <2>2, <2>4
  <2>5. CASE k = 3
    BY <1>12, <1>13, <2>2, <2>5
  <2>6. CASE k = 4
    BY <1>12, <1>13, <2>2, <2>6
  <2>7. CASE k = 5
    BY <1>12, <1>13, <2>2, <2>7
  <2> QED BY <2>1, <2>3, <2>4, <2>5, <2>6, <2>7
<1>16. LineOf(P, q, e)
  BY <1>2, <1>10, <1>13, <1>14, <1>15 DEF LineOf
<1> QED BY <1>1, <1>16 DEF q


LineParts(P, q, e) ==
    /\ Len(P) \in Nat
    /\ \A k \in 0..4 : /\ e[k] \in Nat /\ e[k+1] \in Nat /\ q[k+1] \in Seq(Nat) /\ Len(q[k+1]) \in Nat
                       /\ e[k+1] = e[k] + Len(q[k+1]) + 1
                       /\ e[k+1] <= Len(P) /\ (k # 4 => e[k+1] < Len(P))
                       /\ \A j \in 1..Len(q[k+1]) : P[e[k] + j] = q[k+1][j]
                       /\ P[e[k+1]] = IF k = 4 THEN Newline ELSE Comma

LEMMA LineBounds ==
    ASSUME NEW P, NEW q, NEW e, LineOf(P, q, e)
    PROVE  LineParts(P, q, e)
<1> DEFINE n == Len(P)
           l(k) == Len(q[k+1])
<1>1. /\ n \in Nat /\ e[0] = 0 /\ e[5] = n /\ (\A k \in 0..5 : e[k] \in Nat)
      /\ \A k \in 1..5 : q[k] \in Seq(Nat)
  BY DEF LineOf
<1>2. ASSUME NEW k \in 0..4
      PROVE  /\ e[k] \in Nat /\ e[k+1] \in Nat /\ q[k+1] \in Seq(Nat) /\ l(k) \in Nat
             /\ e[k+1] = e[k] + l(k) + 1
             /\ \A j \in 1..l(k) : P[e[k] + j] = q[k+1][j]
             /\ P[e[k+1]] = IF k = 4 THEN Newline ELSE Comma
  <2> DEFINE i == k + 1
  <2>1. i \in 1..5 /\ i \in 0..5 /\ k \in 0..5 /\ i - 1 = k /\ (i = 5 <=> k = 4)
    OBVIOUS
  <2> HIDE DEF i
  <2>2. q[i] \in Seq(Nat) /\ e[i] \in Nat /\ e[k] \in Nat
    BY <1>1, <2>1
  <2>3. Len(q[i]) \in Nat
    BY <2>2
  <2>4. Piece(P, q[i], IF i = 5 THEN Newline ELSE Comma, e[i-1], e[i])
    BY <2>1, Zenon DEF LineOf
  <2>5. /\ e[i] = e[k] + Len(q[i]) + 1 /\ (\A j \in 1..Len(q[i]) : P[e[k] + j] = q[i][j])
        /\ P[e[i]] = IF k = 4 THEN Newline ELSE Comma
    BY <2>1, <2>4, Zenon DEF Piece
  <2> QED BY <2>2, <2>3, <2>5, Zenon DEF i
<1>3. \A k \in 0..4 : e[k+1] = e[k] + l(k) + 1 /\ l(k) \in Nat /\ e[k] \in Nat
  BY <1>2
<1>4. \A k \in 0..4 : e[k+1] <= n /\ (k # 4 => e[k+1] < n)
  <2> HIDE DEF l, n
  <2>4. /\ e[0] \in Nat /\ e[1] \in Nat /\ e[2] \in Nat /\ e[3] \in Nat /\ e[4] \in Nat /\ e[5] \in Nat
        /\ e[5] = n /\ n \in Nat
    BY <1>1
  <2>5. e[4] < n
    <3>1. e[4+1] = e[4] + l(4) + 1 /\ l(4) \in Nat /\ 4 + 1 = 5
      BY <1>3
    <3> QED BY <2>4, <3>1
  <2>6. e[3] < n
    <3>1. e[3+1] = e[3] + l(3) + 1 /\ l(3) \in Nat /\ 3 + 1 = 4
      BY <1>3
    <3> QED BY <2>4, <2>5, <3>1
  <2>7. e[2] < n
    <3>1. e[2+1] = e[2] + l(2) + 1 /\ l(2) \in Nat /\ 2 + 1 = 3
      BY <1>3
    <3> QED BY <2>4, <2>6, <3>1
  <2>8. e[1] < n
    <3>1. e[1+1] = e[1] + l(1) + 1 /\ l(1) \in Nat /\ 1 + 1 = 2
      BY <1>3
    <3> QED BY <2>4, <2>7, <3>1
  <2> SUFFICES ASSUME NEW k \in 0..4 PROVE e[k+1] <= n /\ (k # 4 => e[k+1] < n)
    OBVIOUS
  <2>9. /\ k + 1 = 1 \/ k + 1 = 2 \/ k + 1 = 3 \/ k + 1 = 4 \/ k + 1 = 5
        /\ k # 4 => k + 1 # 5
    OBVIOUS
  <2> QED BY <2>4, <2>5, <2>6, <2>7, <2>8, <2>9
<1>5. ASSUME NEW k \in 0..4
      PROVE  /\ e[k] \in Nat /\ e[k+1] \in Nat /\ q[k+1] \in Seq(Nat) /\ Len(q[k+1]) \in Nat
             /\ e[k+1] = e[k] + Len(q[k+1]) + 1
             /\ e[k+1] <= n /\ (k # 4 => e[k+1] < n)
             /\ \A j \in 1..Len(q[k+1]) : P[e[k] + j] = q[k+1][j]
             /\ P[e[k+1]] = IF k = 4 THEN Newline ELSE Comma
  BY <1>2, <1>4, Zenon
<1> QED BY <1>1, <1>5, Zenon DEF LineParts

(* A line ends with its newline, and has no other. *)
LEMMA PrintedShape ==
    ASSUME NEW s \in Lines
    PROVE  /\ Printed(s) \in Seq(Int) /\ Len(Printed(s)) \in Nat \ {0}
           /\ Printed(s)[Len(Printed(s))] = Newline
           /\ \A i \in 1..Len(Printed(s)) - 1 : Printed(s)[i] # Newline
<1> DEFINE P == Printed(s)
           q == Numbers(s)
           n == Len(P)
<1>1. PICK e : LineOf(P, q, e)
  BY PrintedIs
<1>2. /\ n \in Nat
      /\ \A k \in 0..4 : /\ e[k] \in Nat /\ e[k+1] \in Nat /\ q[k+1] \in Seq(Nat) /\ Len(q[k+1]) \in Nat
                         /\ e[k+1] = e[k] + Len(q[k+1]) + 1
                         /\ e[k+1] <= n /\ (k # 4 => e[k+1] < n)
                         /\ \A j \in 1..Len(q[k+1]) : P[e[k] + j] = q[k+1][j]
                         /\ P[e[k+1]] = IF k = 4 THEN Newline ELSE Comma
  <2> HIDE DEF P, q
  <2>1. LineParts(P, q, e)
    BY <1>1, LineBounds, Zenon
  <2> QED BY <2>1 DEF LineParts
<1>3. P \in Seq(Int) /\ e[0] = 0 /\ e[5] = n
  BY <1>1 DEF LineOf
<1> HIDE DEF P, q, n
<1>4. n # 0 /\ P[n] = Newline
  <2>1. 4 \in 0..4 /\ 4 + 1 = 5
    OBVIOUS
  <2>2. e[4] \in Nat /\ Len(q[5]) \in Nat /\ e[5] = e[4] + Len(q[5]) + 1 /\ P[e[5]] = Newline
    BY <1>2, <2>1
  <2> QED BY <1>2, <1>3, <2>2
<1>5. ASSUME NEW i \in 1..n-1 PROVE P[i] # Newline
  <2>1. \E k \in 0..4 : e[k] < i /\ i <= e[k+1]
    <3>1. /\ e[0] \in Nat /\ e[1] \in Nat /\ e[2] \in Nat /\ e[3] \in Nat /\ e[4] \in Nat
          /\ 0 + 1 = 1 /\ 1 + 1 = 2 /\ 2 + 1 = 3 /\ 3 + 1 = 4 /\ 4 + 1 = 5
      BY <1>2
    <3>2. i \in Nat /\ e[0] < i /\ i <= e[5]
      BY <1>2, <1>3
    <3>3. CASE i <= e[1]
      BY <3>1, <3>2, <3>3
    <3>4. CASE e[1] < i /\ i <= e[2]
      BY <3>1, <3>2, <3>4
    <3>5. CASE e[2] < i /\ i <= e[3]
      BY <3>1, <3>2, <3>5
    <3>6. CASE e[3] < i /\ i <= e[4]
      BY <3>1, <3>2, <3>6
    <3>7. CASE e[4] < i
      BY <3>1, <3>2, <3>7
    <3> QED BY <3>1, <3>2, <3>3, <3>4, <3>5, <3>6, <3>7
  <2>2. PICK k \in 0..4 : e[k] < i /\ i <= e[k+1]
    BY <2>1
  <2> DEFINE a == e[k]
             b == e[k+1]
             l == Len(q[k+1])
             j == i - a
  <2>3. /\ a \in Nat /\ b \in Nat /\ l \in Nat /\ b = a + l + 1 /\ a < i /\ i <= b /\ b <= n
        /\ P[b] = IF k = 4 THEN Newline ELSE Comma
        /\ (k # 4 => b < n) /\ q[k+1] \in Seq(Nat)
        /\ \A y \in 1..l : P[a + y] = q[k+1][y]
    BY <1>2, <2>2
  <2>4. CASE i = b
    <3>1. k # 4
      <4>1. k = 4 => b = n
        BY <1>3
      <4> HIDE DEF b
      <4> QED BY <1>2, <2>3, <2>4, <4>1
    <3> QED BY <2>3, <2>4, <3>1 DEF Comma, Newline
  <2>5. CASE i # b
    <3>1. j \in 1..l /\ a + j = i
      <4> HIDE DEF a, b, l
      <4> QED BY <1>2, <2>3, <2>5
    <3> HIDE DEF a, b, j
    <3>2. q[k+1][j] \in Nat
      BY <2>3, <3>1, SMTT(30)
    <3>3. P[i] \in Nat
      BY <2>3, <3>1, <3>2
    <3> QED BY <3>3 DEF Newline
  <2> QED BY <2>4, <2>5
<1> QED BY <1>2, <1>3, <1>4, <1>5 DEF P, n

(* What the client makes of the line, all of which it has. *)
LEMMA LineReadBack ==
    ASSUME NEW s \in Lines, NEW l \in Seq(Int), Len(l) = Len(Printed(s)) - 1,
           \A i \in 1..Len(l) : l[i] = Printed(s)[i]
    PROVE  Readable(Fields(l)) /\ process_data(Fields(l)) = s
<1> DEFINE P == Printed(s)
           q == Numbers(s)
           n == Len(l)
<1>1. PICK e : LineOf(P, q, e)
  BY PrintedIs
<1>2. /\ Len(P) \in Nat
      /\ \A k \in 0..4 : /\ e[k] \in Nat /\ e[k+1] \in Nat /\ q[k+1] \in Seq(Nat) /\ Len(q[k+1]) \in Nat
                         /\ e[k+1] = e[k] + Len(q[k+1]) + 1
                         /\ e[k+1] <= Len(P) /\ (k # 4 => e[k+1] < Len(P))
                         /\ \A j \in 1..Len(q[k+1]) : P[e[k] + j] = q[k+1][j]
                         /\ P[e[k+1]] = IF k = 4 THEN Newline ELSE Comma
  <2> HIDE DEF P, q
  <2>1. LineParts(P, q, e)
    BY <1>1, LineBounds, Zenon
  <2> QED BY <2>1 DEF LineParts
<1>3. q \in [1..5 -> Seq(Nat)] /\ e \in [0..5 -> Nat] /\ e[0] = 0 /\ e[5] = Len(P)
  BY <1>1 DEF LineOf
<1>4. n \in Nat /\ Len(P) = n + 1 /\ \A i \in 1..n : l[i] = P[i]
  <2>1. n \in Nat
    OBVIOUS
  <2>2. n = Len(P) - 1 /\ \A i \in 1..n : l[i] = P[i]
    BY Zenon
  <2> HIDE DEF P, n
  <2> QED BY <1>2, <2>1, <2>2
<1> HIDE DEF P, q, n
<1>5. ASSUME NEW k \in 1..5
      PROVE  e[k] = e[k-1] + Len(q[k]) + 1 /\ \A j \in 1..Len(q[k]) : l[e[k-1] + j] = q[k][j]
  <2> DEFINE i == k - 1
             a == e[i]
             b == e[k]
             m == Len(q[k])
  <2>1. i \in 0..4 /\ i + 1 = k
    OBVIOUS
  <2> HIDE DEF i
  <2>2. a \in Nat /\ m \in Nat /\ b = a + m + 1 /\ b <= n + 1 /\ \A j \in 1..m : P[a + j] = q[k][j]
    BY <1>2, <1>4, <2>1
  <2> HIDE DEF a, b, m
  <2>3. \A j \in 1..m : a + j \in 1..n
    BY <1>4, <2>2
  <2>4. \A j \in 1..m : l[a + j] = q[k][j]
    BY <1>4, <2>2, <2>3
  <2> QED BY <2>2, <2>4 DEF a, b, m, i
<1>6. ASSUME NEW k \in 1..4 PROVE l[e[k]] = Comma
  <2> DEFINE i == k - 1
             b == e[k]
  <2>1. i \in 0..4 /\ i + 1 = k /\ i # 4
    OBVIOUS
  <2> HIDE DEF i
  <2>2. e[i] \in Nat /\ Len(q[k]) \in Nat /\ b = e[i] + Len(q[k]) + 1 /\ b < n + 1 /\ P[b] = Comma
    BY <1>2, <1>4, <2>1
  <2> HIDE DEF b
  <2>3. b \in 1..n
    BY <1>4, <2>2
  <2> QED BY <1>4, <2>2, <2>3 DEF b
<1>7. FiveFields(l, q, e, Len(l))
  BY <1>3, <1>4, <1>5, <1>6 DEF FiveFields, n
<1>8. Fields(l) = q
  BY <1>7, FieldsAreFive
<1>9. /\ s = [k \in 1..5 |-> s[k]]
      /\ \A k \in 1..5 : q[k] # <<>> /\ Int16(q[k]) = s[k] % 2^LongBits
      /\ \A k \in 1..3 : twos_comp(s[k] % 2^LongBits) = s[k]
      /\ \A k \in 4..5 : s[k] % 2^LongBits = s[k]
  BY NumbersType, Zenon DEF q
<1>10. Readable(q)
  <2>1. Len(q) = 5
    BY <1>3
  <2> QED BY <1>9, <2>1 DEF Readable
<1>11. process_data(q) = s
  <2>1. ASSUME NEW k \in 1..5 PROVE (IF k <= 3 THEN twos_comp(Int16(q[k])) ELSE Int16(q[k])) = s[k]
    <3>1. (k \in 1..3 /\ k <= 3) \/ (k \in 4..5 /\ ~(k <= 3))
      OBVIOUS
    <3> QED BY <1>9, <3>1
  <2>2. process_data(q) = [k \in 1..5 |-> s[k]]
    BY <2>1 DEF process_data
  <2> QED BY <1>9, <2>2
<1> QED BY <1>8, <1>10, <1>11


(* The channel: the lines stand one after the other. *)
LEMMA TailEntries ==
    ASSUME NEW S, NEW s \in Seq(S), s # <<>>
    PROVE  /\ Tail(s) \in Seq(S) /\ Len(s) \in Nat \ {0} /\ Len(Tail(s)) = Len(s) - 1
           /\ \A i \in 1..Len(s) - 1 : Tail(s)[i] = s[i+1]
           /\ Head(s) = s[1] /\ s[1] \in S
OBVIOUS

LEMMA StandsTail ==
    ASSUME NEW chars \in Seq(Int), chars # <<>>, NEW text \in Seq(Int), NEW from \in Int, NEW to \in Int,
           Stands(text, chars, from, to)
    PROVE  Stands(text, Tail(chars), from - 1, to - 1)
<1> DEFINE n == Len(chars)
           m == Len(text)
           T == Tail(chars)
<1>1. n \in Nat \ {0} /\ Len(T) = n - 1 /\ \A i \in 1..n-1 : T[i] = chars[i+1]
  BY TailEntries
<1>2. m \in Nat /\ to = from + m /\ to <= n /\ \A i \in 1..m : from + i > 0 => chars[from + i] = text[i]
  BY DEF Stands
<1> HIDE DEF n, m, T
<1>3. to - 1 = (from - 1) + m /\ to - 1 <= n - 1
  BY <1>1, <1>2
<1>4. ASSUME NEW i \in 1..m, (from - 1) + i > 0 PROVE T[(from - 1) + i] = text[i]
  <2> DEFINE j == (from - 1) + i
  <2>1. j \in 1..n-1 /\ j + 1 = from + i /\ from + i > 0
    BY <1>1, <1>2, <1>4
  <2> HIDE DEF j
  <2>2. T[j] = chars[from + i]
    BY <1>1, <2>1
  <2>3. T[j] = text[i]
    BY <1>2, <2>1, <2>2
  <2> QED BY <2>3 DEF j
<1> QED BY <1>1, <1>3, <1>4 DEF Stands, m, T

LEMMA StandsOn ==
    ASSUME NEW chars \in Seq(Int), NEW more \in Seq(Int)
    PROVE  /\ Stands(more, chars \o more, Len(chars), Len(chars) + Len(more))
           /\ \A text \in Seq(Int), from \in Int, to \in Int :
                  Stands(text, chars, from, to) => Stands(text, chars \o more, from, to)
<1> DEFINE n == Len(chars)
           m == Len(more)
           T == chars \o more
<1>1. /\ n \in Nat /\ m \in Nat /\ Len(T) = n + m
      /\ \A i \in 1..n : T[i] = chars[i]
      /\ \A i \in 1..m : T[n + i] = more[i]
  BY ConcatEntries
<1> HIDE DEF n, m, T
<1>2. Stands(more, T, n, n + m)
  BY <1>1 DEF Stands, m
<1>3. ASSUME NEW text \in Seq(Int), NEW from \in Int, NEW to \in Int, Stands(text, chars, from, to)
      PROVE  Stands(text, T, from, to)
  <2> DEFINE l == Len(text)
  <2>1. l \in Nat /\ to = from + l /\ to <= n /\ \A i \in 1..l : from + i > 0 => chars[from + i] = text[i]
    BY <1>3 DEF Stands, n
  <2> HIDE DEF l
  <2>2. ASSUME NEW i \in 1..l, from + i > 0 PROVE T[from + i] = text[i]
    <3>1. from + i \in 1..n
      BY <1>1, <2>1, <2>2
    <3> QED BY <1>1, <2>1, <2>2, <3>1
  <2>3. to <= n + m
    BY <1>1, <2>1
  <2> QED BY <1>1, <2>1, <2>2, <2>3 DEF Stands, l
<1> QED BY <1>2, <1>3 DEF n, m, T

Place(ends, chars, samples) == chars \in Seq(Int) /\ samples \in Seq(Lines) /\ Placed(ends, chars, samples)

(* The next character is one of the first line: the one after its head. *)
LEMMA NextChar ==
    ASSUME NEW ends, NEW chars, NEW samples, Place(ends, chars, samples), chars # <<>>
    PROVE  /\ samples # <<>> /\ samples[1] \in Lines /\ ends[0] \in Int /\ ends[0] <= 0
           /\ Printed(samples[1]) \in Seq(Int)
           /\ ends[1] = ends[0] + Len(Printed(samples[1])) /\ ends[1] > 0
           /\ Head(chars) \in Int /\ Head(chars) = Printed(samples[1])[1 - ends[0]]
           /\ Head(chars) = Newline <=> ends[1] = 1
<1> DEFINE n == Len(samples)
           P == Printed(samples[1])
           p == Len(P)
           a == ends[0]
           b == ends[1]
<1>1. /\ chars \in Seq(Int) /\ samples \in Seq(Lines) /\ n \in Nat
      /\ ends \in [0..n -> Int] /\ ends[0] <= 0 /\ ends[n] = Len(chars)
      /\ samples # <<>> => ends[1] > 0
      /\ \A k \in 1..n : Stands(Printed(samples[k]), chars, ends[k-1], ends[k])
  BY DEF Place, Placed
<1>2. Len(chars) \in Nat \ {0} /\ Head(chars) = chars[1] /\ chars[1] \in Int
  BY <1>1, TailEntries
<1>3. n # 0 /\ samples # <<>>
  <2>1. n = 0 => ends[0] = Len(chars)
    BY <1>1
  <2>2. n # 0
    BY <1>1, <1>2, <2>1
  <2>3. samples = <<>> => n = 0
    OBVIOUS
  <2> QED BY <2>2, <2>3
<1>4. 1 \in 1..n /\ 1 \in 0..n /\ 0 \in 0..n /\ samples[1] \in Lines /\ 1 - 1 = 0
  BY <1>1, <1>3
<1>5. a \in Int /\ b \in Int /\ a <= 0 /\ b > 0
  BY <1>1, <1>3, <1>4
<1>6. Stands(P, chars, a, b)
  <2> HIDE DEF n
  <2>1. Stands(Printed(samples[1]), chars, ends[1-1], ends[1])
    BY <1>1, <1>4
  <2> QED BY <1>4, <2>1
<1>7. /\ P \in Seq(Int) /\ p \in Nat \ {0} /\ P[p] = Newline
      /\ \A i \in 1..p-1 : P[i] # Newline
  BY <1>4, PrintedShape
<1> HIDE DEF P, p, a, b
<1>8. b = a + p /\ \A i \in 1..p : a + i > 0 => chars[a + i] = P[i]
  BY <1>6 DEF Stands, p
<1>9. 1 - a \in 1..p /\ a + (1 - a) = 1 /\ (b = 1 <=> 1 - a = p)
  BY <1>5, <1>7, <1>8
<1>10. chars[1] = P[1 - a]
  BY <1>8, <1>9
<1>11. P[1 - a] = Newline <=> b = 1
  <2>1. CASE 1 - a = p
    BY <1>7, <1>9, <2>1
  <2>2. CASE 1 - a # p
    <3>1. 1 - a \in 1..p-1
      BY <1>7, <1>9, <2>2
    <3> QED BY <1>7, <1>9, <2>2, <3>1
  <2> QED BY <2>1, <2>2
<1> QED BY <1>2, <1>3, <1>4, <1>5, <1>7, <1>8, <1>10, <1>11 DEF P, p, a, b

LEMMA CharTaken ==
    ASSUME NEW ends, NEW chars, NEW samples, Place(ends, chars, samples), chars # <<>>, Head(chars) # Newline
    PROVE  Place([k \in 0..Len(samples) |-> ends[k] - 1], Tail(chars), samples)
<1> DEFINE n == Len(samples)
           T == Tail(chars)
           f == [k \in 0..n |-> ends[k] - 1]
<1>1. /\ chars \in Seq(Int) /\ samples \in Seq(Lines) /\ n \in Nat
      /\ ends \in [0..n -> Int] /\ ends[n] = Len(chars)
      /\ \A k \in 1..n : Stands(Printed(samples[k]), chars, ends[k-1], ends[k])
  BY DEF Place, Placed
<1>2. ends[0] \in Int /\ ends[0] <= 0 /\ ends[1] > 0 /\ ends[1] # 1 /\ samples # <<>>
  BY NextChar
<1>3. Len(chars) \in Nat \ {0} /\ T \in Seq(Int) /\ Len(T) = Len(chars) - 1
  BY <1>1, TailEntries
<1>4. n # 0
  BY <1>1, <1>2
<1> HIDE DEF n, T
<1>5. /\ \A k \in 0..n : f[k] = ends[k] - 1 /\ ends[k] \in Int
      /\ f \in [0..n -> Int] /\ 0 \in 0..n /\ 1 \in 0..n /\ n \in 0..n
  BY <1>1, <1>4
<1> HIDE DEF f
<1>6. f[0] <= 0 /\ f[n] = Len(T) /\ f[1] > 0
  <2>1. f[0] = ends[0] - 1 /\ f[1] = ends[1] - 1 /\ ends[1] \in Int /\ f[n] = ends[n] - 1
    BY <1>5
  <2>2. f[n] = Len(T)
    BY <1>1, <1>3, <2>1
  <2>3. f[0] <= 0 /\ f[1] > 0
    BY <1>2, <2>1
  <2> QED BY <2>2, <2>3
<1>7. ASSUME NEW k \in 1..n PROVE Stands(Printed(samples[k]), T, f[k-1], f[k])
  <2>1. k \in 0..n /\ k - 1 \in 0..n
    BY <1>1
  <2>2. f[k] = ends[k] - 1 /\ f[k-1] = ends[k-1] - 1 /\ ends[k] \in Int /\ ends[k-1] \in Int
    BY <1>5, <2>1
  <2>3. samples[k] \in Lines
    BY <1>1 DEF n
  <2>4. Printed(samples[k]) \in Seq(Int)
    BY <2>3, PrintedShape
  <2>5. Stands(Printed(samples[k]), T, ends[k-1] - 1, ends[k] - 1)
    BY <1>1, <2>2, <2>4, StandsTail DEF T
  <2> QED BY <2>2, <2>5
<1> QED BY <1>1, <1>3, <1>5, <1>6, <1>7 DEF Place, Placed, n, T, f

LEMMA LineTaken ==
    ASSUME NEW ends, NEW chars, NEW samples, Place(ends, chars, samples), chars # <<>>, Head(chars) = Newline
    PROVE  Place([k \in 0..Len(samples) - 1 |-> ends[k + 1] - 1], Tail(chars), Tail(samples))
<1> DEFINE n == Len(samples)
           m == n - 1
           T == Tail(chars)
           r == Tail(samples)
           f == [k \in 0..m |-> ends[k + 1] - 1]
<1>1. /\ chars \in Seq(Int) /\ samples \in Seq(Lines) /\ n \in Nat
      /\ ends \in [0..n -> Int] /\ ends[n] = Len(chars)
      /\ \A k \in 1..n : Stands(Printed(samples[k]), chars, ends[k-1], ends[k])
  BY DEF Place, Placed
<1>2. ends[1] = 1 /\ samples # <<>>
  BY NextChar
<1>3. Len(chars) \in Nat \ {0} /\ T \in Seq(Int) /\ Len(T) = Len(chars) - 1
  BY <1>1, TailEntries
<1>4. /\ n \in Nat \ {0} /\ r \in Seq(Lines) /\ Len(r) = m
      /\ \A i \in 1..m : r[i] = samples[i+1]
  BY <1>1, <1>2, TailEntries
<1> HIDE DEF n, T, r
<1>5. m \in Nat /\ m + 1 = n /\ \A k \in 0..m : k + 1 \in 0..n /\ k + 1 \in 1..n
  BY <1>4
<1> HIDE DEF m
<1>6. /\ \A k \in 0..m : f[k] = ends[k+1] - 1 /\ ends[k+1] \in Int
      /\ f \in [0..m -> Int] /\ 0 \in 0..m /\ m \in 0..m
  BY <1>1, <1>5
<1> HIDE DEF f
<1>7. f[0] = 0 /\ f[m] = Len(T)
  <2>1. f[0] = ends[0+1] - 1 /\ 0 + 1 = 1
    BY <1>6
  <2>2. f[m] = ends[m+1] - 1
    BY <1>6
  <2>3. f[0] = 0
    BY <1>2, <2>1
  <2>4. ends[m+1] = Len(chars) /\ Len(chars) \in Nat
    BY <1>1, <1>3, <1>5
  <2>5. f[m] = Len(T)
    BY <1>3, <2>2, <2>4
  <2> QED BY <2>3, <2>5
<1>8. ASSUME NEW k \in 1..m
      PROVE  Stands(Printed(r[k]), T, f[k-1], f[k]) /\ Len(Printed(r[k])) \in Nat \ {0} /\ f[k-1] \in Int
  <2> DEFINE j == k + 1
  <2>1. j \in 1..n /\ j \in 0..n /\ j - 1 = k /\ k \in 0..m /\ k - 1 \in 0..m /\ (k - 1) + 1 = k /\ k \in 0..n
    BY <1>5
  <2>2. f[k] = ends[j] - 1 /\ f[k-1] = ends[k] - 1 /\ ends[j] \in Int /\ ends[k] \in Int
    BY <1>1, <1>6, <2>1
  <2>3. r[k] = samples[j]
    BY <1>4
  <2> HIDE DEF j
  <2>4. samples[j] \in Lines
    BY <1>1, <2>1 DEF n
  <2>5. Printed(samples[j]) \in Seq(Int) /\ Len(Printed(samples[j])) \in Nat \ {0}
    BY <2>4, PrintedShape
  <2>6. Stands(Printed(samples[j]), chars, ends[k], ends[j])
    BY <1>1, <2>1
  <2>7. Stands(Printed(samples[j]), T, ends[k] - 1, ends[j] - 1)
    BY <1>1, <2>2, <2>5, <2>6, StandsTail DEF T
  <2> QED BY <2>2, <2>3, <2>5, <2>7
<1>9. r # <<>> => f[1] > 0
  <2> SUFFICES ASSUME r # <<>> PROVE f[1] > 0
    OBVIOUS
  <2>1. m # 0
    BY <1>4
  <2>2. 1 \in 1..m /\ 1 - 1 = 0
    BY <1>5, <2>1
  <2> DEFINE l == Len(Printed(r[1]))
  <2>3. l \in Nat \ {0} /\ Stands(Printed(r[1]), T, f[0], f[1])
    BY <1>8, <2>2
  <2>4. f[1] = f[0] + l
    BY <2>3 DEF Stands
  <2> HIDE DEF l
  <2> QED BY <1>7, <2>3, <2>4
<1>10. Place(f, T, r)
  <2>1. \A k \in 1..m : Stands(Printed(r[k]), T, f[k-1], f[k])
    BY <1>8
  <2>2. f[0] <= 0
    BY <1>7
  <2> QED BY <1>3, <1>4, <1>6, <1>7, <1>9, <2>1, <2>2 DEF Place, Placed
<1> QED BY <1>10 DEF n, T, m, r, f

LEMMA LinePrinted ==
    ASSUME NEW ends, NEW chars, NEW samples, Place(ends, chars, samples), NEW s \in Lines
    PROVE  \E f : Place(f, chars \o Printed(s), Append(samples, s)) /\ f[0] = ends[0]
<1> DEFINE n == Len(samples)
           P == Printed(s)
           c == Len(chars)
           z == c + Len(P)
           T == chars \o P
           r == Append(samples, s)
           f == [k \in 0..n + 1 |-> IF k = n + 1 THEN z ELSE ends[k]]
<1>1. /\ chars \in Seq(Int) /\ samples \in Seq(Lines) /\ n \in Nat
      /\ ends \in [0..n -> Int] /\ ends[0] <= 0 /\ ends[n] = c
      /\ samples # <<>> => ends[1] > 0
      /\ \A k \in 1..n : Stands(Printed(samples[k]), chars, ends[k-1], ends[k])
  BY DEF Place, Placed
<1>2. P \in Seq(Int) /\ Len(P) \in Nat \ {0}
  BY PrintedShape
<1> HIDE DEF P
<1>3. /\ T \in Seq(Int) /\ Len(T) = z /\ c \in Nat /\ z \in Int /\ z > 0
  <2>1. T \in Seq(Int) /\ c \in Nat /\ Len(T) = z
    BY <1>1, <1>2, ConcatEntries
  <2> QED BY <1>2, <2>1
<1>4. /\ r \in Seq(Lines) /\ Len(r) = n + 1 /\ r[n + 1] = s
      /\ \A y \in 1..n : r[y] = samples[y]
  <2>1. Grown(r, samples, s, Lines)
    BY <1>1, AppendEntries, Zenon
  <2> QED BY <2>1, Zenon DEF Grown
<1> HIDE DEF T, r, z, c
<1>5. samples # <<>> <=> n # 0
  BY <1>1
<1> HIDE DEF n
<1>6. /\ f \in [0..n + 1 -> Int] /\ f[n + 1] = z
      /\ \A k \in 0..n : f[k] = ends[k] /\ ends[k] \in Int
  <2>1. \A k \in 0..n + 1 : k = n + 1 \/ k \in 0..n
    BY <1>1
  <2>2. \A k \in 0..n : k \in 0..n + 1 /\ k # n + 1 /\ ends[k] \in Int
    BY <1>1
  <2>3. n + 1 \in 0..n + 1
    BY <1>1
  <2> QED BY <1>3, <2>1, <2>2, <2>3
<1> HIDE DEF f
<1>7. 0 \in 0..n /\ n \in 0..n
  BY <1>1
<1>8. f[0] = ends[0] /\ f[0] <= 0 /\ f[n] = c
  BY <1>1, <1>6, <1>7
<1>9. f[1] > 0
  <2>1. CASE n = 0
    BY <1>3, <1>6, <2>1
  <2>2. CASE n # 0
    <3>1. 1 \in 0..n
      BY <1>1, <2>2
    <3> QED BY <1>1, <1>5, <1>6, <2>2, <3>1
  <2> QED BY <2>1, <2>2
<1>10. ASSUME NEW k \in 1..n + 1 PROVE Stands(Printed(r[k]), T, f[k-1], f[k])
  <2>1. CASE k = n + 1
    <3>1. k - 1 = n
      BY <1>1, <2>1
    <3>2. Stands(P, T, c, z)
      BY <1>1, <1>2, StandsOn DEF T, c, z
    <3> QED BY <1>4, <1>6, <1>8, <2>1, <3>1, <3>2 DEF P
  <2>2. CASE k # n + 1
    <3>1. k \in 1..n /\ k \in 0..n /\ k - 1 \in 0..n
      BY <1>1, <2>2
    <3>2. samples[k] \in Lines /\ r[k] = samples[k]
      BY <1>1, <1>4, <3>1 DEF n
    <3>3. Printed(samples[k]) \in Seq(Int)
      BY <3>2, PrintedShape
    <3>4. Stands(Printed(samples[k]), chars, ends[k-1], ends[k]) /\ ends[k-1] \in Int /\ ends[k] \in Int
      BY <1>1, <1>6, <3>1
    <3>5. Stands(Printed(samples[k]), T, ends[k-1], ends[k])
      BY <1>1, <1>2, <3>3, <3>4, StandsOn DEF T
    <3> QED BY <1>6, <3>1, <3>2, <3>5
  <2> QED BY <2>1, <2>2
<1>11. Place(f, T, r)
  BY <1>3, <1>4, <1>6, <1>8, <1>9, <1>10 DEF Place, Placed
<1> QED BY <1>8, <1>11 DEF T, r, P


(* The inductive invariant: some places of the lines satisfy it.              *)
LineInv == \E ends : LineIInv(ends)

(* LineIsSample, from the beginning of a line to its end, whatever the client  *)
(* is and was doing (alt_printf.c:83-107, test.py:8-23).                       *)
LEMMA LineInvInit == LineInit => LineInv
<1> SUFFICES ASSUME LineInit PROVE LineInv
  OBVIOUS
<1> DEFINE f == [k \in 0..0 |-> 0]
<1>1. stream = <<>> /\ printed = <<>> /\ client = "away" /\ line = <<>> /\ cut = FALSE /\ got = NoLine
  BY DEF LineInit
<1>2. /\ stream \in Seq(Int) /\ printed \in Seq(Lines) /\ line \in Seq(Int)
      /\ Len(stream) = 0 /\ Len(printed) = 0 /\ Len(line) = 0
  BY <1>1
<1>3. f \in [0..0 -> Int] /\ f[0] = 0
  OBVIOUS
<1> HIDE DEF f
<1>4. Placed(f, stream, printed)
  BY <1>1, <1>2, <1>3 DEF Placed
<1>5. HeadRead(f)
  BY <1>2, <1>3 DEF HeadRead
<1>6. LineIsSample
  BY <1>1 DEF LineIsSample, NoLine
<1>7. LineTypeOK
  BY <1>1, <1>2 DEF LineTypeOK
<1> QED BY <1>1, <1>4, <1>5, <1>6, <1>7, Zenon DEF LineInv, LineIInv

LEMMA LineInvStep == LineInv /\ [LineNext]_lineVars => LineInv'
<1> SUFFICES ASSUME LineInv, [LineNext]_lineVars PROVE LineInv'
  OBVIOUS
<1>1. PICK ends : LineIInv(ends)
  BY DEF LineInv
<1>2. /\ line \in Seq(Int) /\ client \in {"away", "reading", "stopped"} /\ cut \in BOOLEAN
      /\ Place(ends, stream, printed) /\ stream \in Seq(Int) /\ printed \in Seq(Lines)
      /\ client = "away" => line = <<>>
      /\ ~cut => Len(line) = -ends[0] /\ \A i \in 1..Len(line) : line[i] = Printed(printed[1])[i]
  BY <1>1 DEF LineIInv, LineTypeOK, HeadRead, Place
<1>3. got.cut \/ got.data = got.of
  BY <1>1, Zenon DEF LineIInv, LineIsSample
<1>4. ASSUME NEW f, Place(f, stream', printed'), line' \in Seq(Int),
             client' \in {"away", "reading", "stopped"}, cut' \in BOOLEAN,
             client' = "away" => line' = <<>>,
             ~cut' => Len(line') = -f[0] /\ \A i \in 1..Len(line') : line'[i] = Printed(printed'[1])[i],
             got'.cut \/ got'.data = got'.of
      PROVE  LineInv'
  <2>1. LineTypeOK' /\ Placed(f, stream, printed)'
    BY <1>4, Zenon DEF LineTypeOK, Place
  <2>2. HeadRead(f)'
    BY <1>4, Zenon DEF HeadRead
  <2>3. LineIsSample'
    BY <1>4, Zenon DEF LineIsSample
  <2> QED BY <1>4, <2>1, <2>2, <2>3, Zenon DEF LineInv, LineIInv
<1>5. ASSUME cut' = TRUE PROVE
        ~cut' => Len(line') = -ends[0] /\ \A i \in 1..Len(line') : line'[i] = Printed(printed'[1])[i]
  BY <1>5
<1>6. ASSUME NEW s \in Lines, alt_printf(s) PROVE LineInv'
  <2>1. /\ stream' = stream \o Printed(s) /\ printed' = Append(printed, s)
        /\ client' = client /\ line' = line /\ cut' = cut /\ got' = got
    BY <1>6 DEF alt_printf
  <2>2. PICK f : Place(f, stream \o Printed(s), Append(printed, s)) /\ f[0] = ends[0]
    BY <1>2, LinePrinted
  <2>3. ASSUME ~cut, NEW i \in 1..Len(line) PROVE line[i] = Printed(printed'[1])[i]
    <3>1. line[i] = Printed(printed[1])[i] /\ Len(line) = -ends[0]
      BY <1>2, <2>3
    <3>2. printed # <<>>
      <4> SUFFICES ASSUME printed = <<>> PROVE FALSE
        OBVIOUS
      <4>1. Len(printed) = 0 /\ Len(stream) \in Nat /\ Len(line) \in Nat
        BY <1>2
      <4>2. ends[0] = Len(stream)
        BY <1>2, <4>1 DEF Place, Placed
      <4> QED BY <2>3, <3>1, <4>1, <4>2
    <3>3. Append(printed, s)[1] = printed[1]
      BY <1>2, <3>2
    <3> QED BY <2>1, <3>1, <3>3
  <2>4. ~cut' => Len(line') = -f[0] /\ \A i \in 1..Len(line') : line'[i] = Printed(printed'[1])[i]
    BY <1>2, <2>1, <2>2, <2>3
  <2>5. Place(f, stream', printed')
    BY <2>1, <2>2
  <2> QED BY <1>2, <1>3, <1>4, <2>1, <2>4, <2>5
<1>7. ASSUME Lost PROVE LineInv'
  <2>1. /\ client = "away" /\ stream # <<>> /\ stream' = Tail(stream)
        /\ client' = client /\ line' = line /\ got' = got
    BY <1>7 DEF Lost
  <2>2. line' = <<>> /\ Len(line') = 0
    BY <1>2, <2>1
  <2>3. CASE Head(stream) = Newline
    <3>1. printed' = Tail(printed) /\ cut' = FALSE
      BY <1>7, <2>3 DEF Lost
    <3>2. PICK f : f = [k \in 0..Len(printed) - 1 |-> ends[k + 1] - 1]
      OBVIOUS
    <3>3. Place(f, stream', printed')
      BY <1>2, <2>1, <2>3, <3>1, <3>2, LineTaken
    <3>4. f[0] = 0
      <4>1. ends[1] = 1 /\ printed # <<>>
        BY <1>2, <2>1, <2>3, NextChar
      <4>2. 0 \in 0..Len(printed) - 1 /\ ends[0+1] = ends[1]
        BY <1>2, <4>1
      <4> QED BY <3>2, <4>1, <4>2
    <3>5. ~cut' => Len(line') = -f[0] /\ \A i \in 1..Len(line') : line'[i] = Printed(printed'[1])[i]
      <4>1. \A i \in 1..Len(line') : FALSE
        BY <2>2, <3>4
      <4>2. Len(line') = -f[0]
        <5>1. \A x \in Int : -x = 0 - x
          OBVIOUS
        <5>2. -f[0] = 0 - f[0]
          <6>1. f[0] \in Int
            BY <3>4
          <6> QED BY <6>1, <5>1, Zenon
        <5>3. 0 - f[0] = 0
          BY <3>4
        <5> QED BY <2>2, <3>4, <5>2, <5>3, Zenon
      <4> QED BY <4>1, <4>2
    <3> QED BY <1>2, <1>3, <1>4, <2>1, <2>2, <3>1, <3>3, <3>5
  <2>4. CASE Head(stream) # Newline
    <3>1. printed' = printed /\ cut' = TRUE
      BY <1>7, <2>4 DEF Lost
    <3>2. PICK f : f = [k \in 0..Len(printed) |-> ends[k] - 1]
      OBVIOUS
    <3>3. Place(f, stream', printed')
      BY <1>2, <2>1, <2>4, <3>1, <3>2, CharTaken
    <3> QED BY <1>2, <1>3, <1>4, <2>1, <2>2, <3>1, <3>3
  <2> QED BY <2>3, <2>4
<1>8. ASSUME Start PROVE LineInv'
  <2>1. /\ client' = "reading" /\ stream' = stream /\ printed' = printed /\ line' = line /\ cut' = cut
        /\ got' = got
    BY <1>8 DEF Start
  <2> QED BY <1>2, <1>3, <1>4, <2>1
<1>9. ASSUME ReadChar PROVE LineInv'
  <2>1. /\ client = "reading" /\ stream # <<>> /\ Head(stream) # Newline
        /\ line' = Append(line, Head(stream)) /\ stream' = Tail(stream)
        /\ got' = NoLine /\ printed' = printed /\ client' = client /\ cut' = cut
    BY <1>9 DEF ReadChar
  <2>2. PICK f : f = [k \in 0..Len(printed) |-> ends[k] - 1]
    OBVIOUS
  <2>3. Place(f, stream', printed')
    BY <1>2, <2>1, <2>2, CharTaken
  <2>4. /\ ends[0] \in Int /\ Head(stream) \in Int /\ Head(stream) = Printed(printed[1])[1 - ends[0]]
    BY <1>2, <2>1, NextChar
  <2>5. f[0] = ends[0] - 1
    <3>1. 0 \in 0..Len(printed)
      BY <1>2
    <3> QED BY <2>2, <3>1
  <2>6. /\ line' \in Seq(Int) /\ Len(line) \in Nat /\ Len(line') = Len(line) + 1
        /\ line'[Len(line) + 1] = Head(stream) /\ \A y \in 1..Len(line) : line'[y] = line[y]
    <3>1. Grown(line', line, Head(stream), Int)
      BY <1>2, <2>1, <2>4, AppendEntries, Zenon
    <3> QED BY <3>1, Zenon DEF Grown
  <2>7. ~cut' => Len(line') = -f[0] /\ \A i \in 1..Len(line') : line'[i] = Printed(printed'[1])[i]
    <3> SUFFICES ASSUME ~cut'
                 PROVE  Len(line') = -f[0] /\ \A i \in 1..Len(line') : line'[i] = Printed(printed'[1])[i]
      OBVIOUS
    <3> DEFINE l == Len(line)
    <3>1. l = -ends[0] /\ \A i \in 1..l : line[i] = Printed(printed[1])[i]
      BY <1>2, <2>1
    <3> HIDE DEF l
    <3>2. l \in Nat /\ l + 1 = 1 - ends[0] /\ Len(line') = l + 1
      BY <2>4, <2>6, <3>1 DEF l
    <3>3. line'[l + 1] = Printed(printed[1])[l + 1] /\ \A i \in 1..l : line'[i] = line[i]
      BY <2>4, <2>6, <3>2 DEF l
    <3>4. \A i \in 1..l + 1 : i \in 1..l \/ i = l + 1
      BY <3>2
    <3>5. \A i \in 1..l + 1 : line'[i] = Printed(printed[1])[i]
      BY <3>1, <3>3, <3>4
    <3>6. Len(line') = -f[0]
      BY <2>4, <2>5, <3>2
    <3> QED BY <2>1, <3>2, <3>5, <3>6
  <2>8. got'.cut \/ got'.data = got'.of
    BY <2>1 DEF NoLine
  <2> QED BY <1>2, <1>4, <2>1, <2>3, <2>6, <2>7, <2>8
<1>10. ASSUME ReadLine PROVE LineInv'
  <2>1. /\ client = "reading" /\ stream # <<>> /\ Head(stream) = Newline
        /\ stream' = Tail(stream) /\ printed' = Tail(printed) /\ line' = <<>> /\ cut' = FALSE
    BY <1>10 DEF ReadLine
  <2>2. PICK f : f = [k \in 0..Len(printed) - 1 |-> ends[k + 1] - 1]
    OBVIOUS
  <2>3. Place(f, stream', printed')
    BY <1>2, <2>1, <2>2, LineTaken
  <2>4. /\ ends[1] = 1 /\ printed # <<>> /\ printed[1] \in Lines /\ ends[0] \in Int
        /\ ends[1] = ends[0] + Len(Printed(printed[1])) /\ Printed(printed[1]) \in Seq(Int)
    BY <1>2, <2>1, NextChar
  <2>5. f[0] = 0
    <3>1. 0 \in 0..Len(printed) - 1 /\ ends[0+1] = ends[1]
      BY <1>2, <2>4
    <3> QED BY <2>2, <2>4, <3>1
  <2>6. line' \in Seq(Int) /\ Len(line') = 0
    BY <2>1
  <2>7. ~cut' => Len(line') = -f[0] /\ \A i \in 1..Len(line') : line'[i] = Printed(printed'[1])[i]
    <3>1. \A i \in 1..Len(line') : FALSE
      BY <2>5, <2>6
    <3>2. Len(line') = -f[0]
      <4>1. \A x \in Int : -x = 0 - x
        OBVIOUS
      <4>2. -f[0] = 0 - f[0]
        <5>1. f[0] \in Int
          BY <2>5
        <5> QED BY <5>1, <4>1, Zenon
      <4>3. 0 - f[0] = 0
        BY <2>5
      <4> QED BY <2>5, <2>6, <4>2, <4>3, Zenon
    <3> QED BY <3>1, <3>2
  <2>8. client' \in {"reading", "stopped"}
    BY <1>10, <2>1 DEF ReadLine
  <2>9. got'.cut \/ got'.data = got'.of
    <3>1. CASE line = <<>>
      <4>1. got' = got
        BY <1>10, <3>1 DEF ReadLine
      <4> QED BY <1>3, <4>1
    <3>2. CASE line # <<>> /\ cut
      <4>1. \E d : got' = [cut |-> cut, of |-> Head(printed), data |-> d]
        <5>1. CASE Readable(Fields(line))
          BY <1>10, <3>2, <5>1, Zenon DEF ReadLine
        <5>2. CASE ~Readable(Fields(line))
          BY <1>10, <3>2, <5>2, Zenon DEF ReadLine
        <5> QED BY <5>1, <5>2
      <4> QED BY <3>2, <4>1
    <3>3. CASE line # <<>> /\ ~cut
      <4> DEFINE s == printed[1]
                 p == Len(Printed(s))
      <4>1. Len(line) = -ends[0] /\ \A i \in 1..Len(line) : line[i] = Printed(s)[i]
        BY <1>2, <3>3
      <4>2. Len(line) = p - 1
        <5>1. p \in Nat
          BY <2>4
        <5> HIDE DEF p
        <5>2. 1 = ends[0] + p
          BY <2>4 DEF p
        <5> QED BY <2>4, <4>1, <5>1, <5>2
      <4> HIDE DEF s
      <4>3. s \in Lines
        BY <2>4 DEF s
      <4>4. Readable(Fields(line)) /\ process_data(Fields(line)) = s
        BY <1>2, <4>1, <4>2, <4>3, LineReadBack
      <4>5. Head(printed) = s
        BY <1>2, <2>4 DEF s
      <4>6. got' = [cut |-> cut, of |-> Head(printed), data |-> process_data(Fields(line))]
        BY <1>10, <3>3, <4>4, Zenon DEF ReadLine
      <4> QED BY <4>4, <4>5, <4>6
    <3> QED BY <1>2, <3>1, <3>2, <3>3
  <2> QED BY <1>2, <1>4, <2>1, <2>3, <2>6, <2>7, <2>8, <2>9
<1>11. ASSUME Stop PROVE LineInv'
  <2>1. /\ client' = "away" /\ line' = <<>> /\ cut' = (cut \/ line # <<>>)
        /\ stream' = stream /\ printed' = printed /\ got' = got
    BY <1>11 DEF Stop
  <2>2. line' \in Seq(Int) /\ cut' \in BOOLEAN
    BY <1>2, <2>1
  <2>3. ~cut' => Len(line') = -ends[0] /\ \A i \in 1..Len(line') : line'[i] = Printed(printed'[1])[i]
    <3>1. ~cut' => ~cut /\ line' = line
      BY <2>1
    <3> QED BY <1>2, <2>1, <3>1
  <2> QED BY <1>2, <1>3, <1>4, <2>1, <2>2, <2>3
<1>12. ASSUME UNCHANGED lineVars PROVE LineInv'
  <2>1. /\ client' = client /\ stream' = stream /\ printed' = printed /\ line' = line /\ cut' = cut
        /\ got' = got
    BY <1>12 DEF lineVars
  <2> QED BY <1>2, <1>3, <1>4, <2>1
<1> QED BY <1>6, <1>7, <1>8, <1>9, <1>10, <1>11, <1>12 DEF LineNext

(* Every line the client has read from its beginning gave it the sample that   *)
(* main printed, for every width of the numbers, every sample and any number   *)
(* of clients, one after the other (alt_printf.c:83-107, test.py:8-23).        *)
THEOREM LinesReadBack == LineSpec => []LineIsSample
<1>1. LineInv => LineIsSample
  BY Zenon DEF LineInv, LineIInv
<1>2. LineSpec => []LineInv
  BY LineInvInit, LineInvStep, PTL DEF LineSpec
<1> QED BY <1>1, <1>2, PTL
=============================================================================
