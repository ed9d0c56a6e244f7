----------------------- MODULE MetricsAggregator_proofs -----------------------
(***************************************************************************)
(* Proofs about MetricsAggregator: what get_historical_trend returns, for  *)
(* every history of integers and every window.                             *)
(***************************************************************************)
EXTENDS MetricsAggregator, Induction, TLAPS

-----------------------------------------------------------------------------
(* The recursion of PartialSums has a solution, so it is one.              *)
IsSums(f, s, n) == f = [k \in 0 .. n |-> IF k = 0 THEN 0 ELSE f[k - 1] + s[k]]

LEMMA SumsExist ==
  ASSUME NEW s, NEW n \in Nat
  PROVE  \E f : IsSums(f, s, n)
<1>. DEFINE S == {m \in Nat : \E f : IsSums(f, s, m)}
<1>1. 0 \in S
  <2>. DEFINE f == [k \in 0 .. 0 |-> 0]
  <2>1. f = [k \in 0 .. 0 |-> IF k = 0 THEN 0 ELSE f[k - 1] + s[k]]
    OBVIOUS
  <2>. HIDE DEF f
  <2>. QED
    BY <2>1 DEF IsSums
<1>2. ASSUME NEW m \in S PROVE m + 1 \in S
  <2>1. PICK f : IsSums(f, s, m)
    OBVIOUS
  <2>. DEFINE g == [k \in 0 .. m + 1 |-> IF k = 0 THEN 0 ELSE f[k - 1] + s[k]]
  <2>2. \A k \in 0 .. m : g[k] = f[k]
    BY <2>1 DEF IsSums
  <2>3. \A k \in 0 .. m + 1 : k # 0 => k - 1 \in 0 .. m
    OBVIOUS
  <2>4. g = [k \in 0 .. m + 1 |-> IF k = 0 THEN 0 ELSE g[k - 1] + s[k]]
    BY <2>2, <2>3
  <2>. HIDE DEF g
  <2>. QED
    BY <2>4 DEF IsSums
<1>. HIDE DEF S
<1>3. S \in SUBSET Nat
  BY DEF S
<1>4. n \in S
  BY <1>1, <1>2, <1>3, SetInduction
<1>. QED
  BY <1>4 DEF S

(* What PartialSums computes, for a sequence of integers.                  *)
LEMMA PartialSumsDef ==
  ASSUME NEW s \in Seq(Int)
  PROVE  /\ PartialSums(s) \in [0 .. Len(s) -> Int]
         /\ PartialSums(s)[0] = 0
         /\ \A k \in 1 .. Len(s) : PartialSums(s)[k] = PartialSums(s)[k - 1] + s[k]
<1>. DEFINE P == PartialSums(s)
            n == Len(s)
<1>0. n \in Nat /\ s \in [1 .. n -> Int]
  OBVIOUS
<1>1. IsSums(P, s, n)
  <2>1. P = CHOOSE f : IsSums(f, s, n)
    BY DEF PartialSums, IsSums
  <2>. HIDE DEF P
  <2>. QED
    BY <2>1, <1>0, SumsExist
<1>. HIDE DEF P, n
<1>2. P = [k \in 0 .. n |-> IF k = 0 THEN 0 ELSE P[k - 1] + s[k]]
  BY <1>1 DEF IsSums
<1>3. P[0] = 0
  BY <1>0, <1>2
<1>4. \A k \in 1 .. n : P[k] = P[k - 1] + s[k]
  BY <1>0, <1>2
<1>. DEFINE S == {k \in Nat : k <= n => P[k] \in Int}
<1>5. 0 \in S
  BY <1>3
<1>6. ASSUME NEW k \in S PROVE k + 1 \in S
  BY <1>0, <1>4
<1>. HIDE DEF S
<1>7. S \in SUBSET Nat
  BY DEF S
<1>8. Nat \subseteq S
  BY <1>5, <1>6, <1>7, SetInduction
<1>9. \A k \in 0 .. n : P[k] \in Int
  BY <1>0, <1>8 DEF S
<1>10. P \in [0 .. n -> Int]
  BY <1>2, <1>9
<1>. QED
  BY <1>3, <1>4, <1>10 DEF P, n

(* The sums of two sequences, term by term a linear combination of them.   *)
Combines(u, a, s, b, t) ==
  /\ Len(s) = Len(u) /\ Len(t) = Len(u)
  /\ \A i \in 1 .. Len(u) : u[i] = a * s[i] + b * t[i]

LEMMA PartialSumsLinear ==
  ASSUME NEW s \in Seq(Int), NEW t \in Seq(Int), NEW u \in Seq(Int),
         NEW a \in Int, NEW b \in Int, Combines(u, a, s, b, t)
  PROVE  \A k \in 0 .. Len(u) :
           PartialSums(u)[k] = a * PartialSums(s)[k] + b * PartialSums(t)[k]
<1>. DEFINE n == Len(u)
            PS == PartialSums(s)
            PT == PartialSums(t)
            PU == PartialSums(u)
            S  == {k \in 0 .. n : PU[k] = a * PS[k] + b * PT[k]}
<1>1. /\ n \in Nat
      /\ PS \in [0 .. n -> Int] /\ PT \in [0 .. n -> Int] /\ PU \in [0 .. n -> Int]
      /\ PS[0] = 0 /\ PT[0] = 0 /\ PU[0] = 0
      /\ \A k \in 1 .. n : /\ PS[k] = PS[k - 1] + s[k]
                           /\ PT[k] = PT[k - 1] + t[k]
                           /\ PU[k] = PU[k - 1] + u[k]
  BY PartialSumsDef DEF Combines
<1>2. \A k \in 1 .. n : s[k] \in Int /\ t[k] \in Int /\ u[k] = a * s[k] + b * t[k]
  BY DEF Combines
<1>. HIDE DEF n, PS, PT, PU
<1>3. 0 \in S
  BY <1>1
<1>4. ASSUME NEW k \in 0 .. n - 1, k \in S PROVE k + 1 \in S
  <2>1. k + 1 \in 1 .. n /\ k \in 0 .. n /\ (k + 1) - 1 = k
    BY <1>1
  <2>2. PICK x, y, z, w \in Int : /\ x = PS[k] /\ y = PT[k]
                                  /\ z = s[k + 1] /\ w = t[k + 1]
    BY <1>1, <1>2, <2>1
  <2>3. PS[k + 1] = x + z /\ PT[k + 1] = y + w
    BY <1>1, <2>1, <2>2
  <2>4. PU[k + 1] = (a * x + b * y) + (a * z + b * w)
    BY <1>1, <1>2, <1>4, <2>1, <2>2
  <2>5. (a * x + b * y) + (a * z + b * w) = a * (x + z) + b * (y + w)
    OBVIOUS
  <2>6. PU[k + 1] = a * PS[k + 1] + b * PT[k + 1]
    BY <2>3, <2>4, <2>5
  <2>. QED
    BY <1>1, <2>1, <2>6
<1>. HIDE DEF S
<1>5. 0 .. n \subseteq S
  BY <1>1, <1>3, <1>4, UpTo
<1>. QED
  BY <1>5 DEF S, n, PS, PT, PU

(* The sums of 1, 2, 3, ... and of their squares.                          *)
LEMMA SumOfIndices ==
  ASSUME NEW n \in Nat
  PROVE  2 * Total([i \in 1 .. n |-> i]) = n * (n + 1)
<1>. DEFINE s == [i \in 1 .. n |-> i]
            P == PartialSums(s)
            S == {k \in 0 .. n : 2 * P[k] = k * (k + 1)}
<1>1. s \in Seq(Int) /\ Len(s) = n
  OBVIOUS
<1>2. \A k \in 1 .. n : s[k] = k
  OBVIOUS
<1>. HIDE DEF s
<1>3. P \in [0 .. n -> Int] /\ P[0] = 0 /\ \A k \in 1 .. n : P[k] = P[k - 1] + k
  BY <1>1, <1>2, PartialSumsDef
<1>. HIDE DEF P
<1>4. 0 \in S
  BY <1>3
<1>5. ASSUME NEW k \in 0 .. n - 1, k \in S PROVE k + 1 \in S
  <2>1. P[k + 1] = P[k] + (k + 1) /\ P[k] \in Int /\ 2 * P[k] = k * (k + 1)
    BY <1>3, <1>5
  <2>2. 2 * P[k + 1] = (k + 1) * ((k + 1) + 1)
    BY <2>1
  <2>. QED
    BY <2>2
<1>. HIDE DEF S
<1>6. 0 .. n \subseteq S
  BY <1>4, <1>5, UpTo
<1>7. 2 * P[n] = n * (n + 1)
  BY <1>6 DEF S
<1>. QED
  BY <1>1, <1>7 DEF P, s, Total

LEMMA SumOfSquares ==
  ASSUME NEW n \in Nat
  PROVE  6 * Total([i \in 1 .. n |-> i * i]) = n * (n + 1) * (2 * n + 1)
<1>. DEFINE s == [i \in 1 .. n |-> i * i]
            P == PartialSums(s)
            S == {k \in 0 .. n : 6 * P[k] = k * (k + 1) * (2 * k + 1)}
<1>1. s \in Seq(Int) /\ Len(s) = n
  OBVIOUS
<1>2. \A k \in 1 .. n : s[k] = k * k
  OBVIOUS
<1>. HIDE DEF s
<1>3. P \in [0 .. n -> Int] /\ P[0] = 0 /\ \A k \in 1 .. n : P[k] = P[k - 1] + k * k
  BY <1>1, <1>2, PartialSumsDef
<1>. HIDE DEF P
<1>4. 0 \in S
  BY <1>3
<1>5. ASSUME NEW k \in 0 .. n - 1, k \in S PROVE k + 1 \in S
  <2>1. /\ P[k + 1] = P[k] + (k + 1) * (k + 1) /\ P[k] \in Int
        /\ 6 * P[k] = k * (k + 1) * (2 * k + 1)
    BY <1>3, <1>5
  <2>2. PICK p \in Int : p = P[k]
    BY <2>1
  <2>3. k * (k + 1) * (2 * k + 1) + 6 * ((k + 1) * (k + 1))
          = (k + 1) * ((k + 1) + 1) * (2 * (k + 1) + 1)
    OBVIOUS
  <2>4. 6 * (p + (k + 1) * (k + 1)) = 6 * p + 6 * ((k + 1) * (k + 1))
    OBVIOUS
  <2>5. 6 * P[k + 1] = (k + 1) * ((k + 1) + 1) * (2 * (k + 1) + 1)
    BY <2>1, <2>2, <2>3, <2>4
  <2>. QED
    BY <2>5
<1>. HIDE DEF S
<1>6. 0 .. n \subseteq S
  BY <1>4, <1>5, UpTo
<1>7. 6 * P[n] = n * (n + 1) * (2 * n + 1)
  BY <1>6 DEF S
<1>. QED
  BY <1>1, <1>7 DEF P, s, Total

-----------------------------------------------------------------------------
(* The largest and the smallest value are values, so the range is the      *)
(* largest difference of two.                                              *)
LEMMA MaxMin ==
  ASSUME NEW v \in Seq(Int), Len(v) >= 1
  PROVE  LET V == {v[i] : i \in DOMAIN v}
         IN  /\ Max(V) \in V /\ \A x \in V : x <= Max(V)
             /\ Min(V) \in V /\ \A x \in V : x >= Min(V)
<1>. DEFINE n == Len(v)
            V == {v[i] : i \in DOMAIN v}
            Extremes(i, j, k) == \A m \in 1 .. k : v[j] <= v[m] /\ v[m] <= v[i]
            S == {k \in 0 .. n : k = 0 \/ \E i, j \in 1 .. k : Extremes(i, j, k)}
<1>1. n \in Nat /\ n >= 1 /\ DOMAIN v = 1 .. n /\ \A i \in 1 .. n : v[i] \in Int
  OBVIOUS
<1>. HIDE DEF n
<1>2. 0 \in S
  BY <1>1
<1>3. ASSUME NEW k \in 0 .. n - 1, k \in S PROVE k + 1 \in S
  <2>1. CASE k = 0
    <3>1. \A m \in 1 .. k + 1 : m = 1
      BY <2>1
    <3>2. 1 \in 1 .. k + 1 /\ Extremes(1, 1, k + 1)
      BY <1>1, <2>1, <3>1
    <3>. HIDE DEF Extremes
    <3>. QED
      BY <1>1, <3>2
  <2>2. CASE k # 0
    <3>1. PICK i, j \in 1 .. k : Extremes(i, j, k)
      BY <1>3, <2>2
    <3>. DEFINE hi == IF v[i] >= v[k + 1] THEN i ELSE k + 1
                lo == IF v[j] <= v[k + 1] THEN j ELSE k + 1
    <3>2. hi \in 1 .. k + 1 /\ lo \in 1 .. k + 1
      BY <2>2
    <3>3. \A m \in 1 .. k + 1 : m = k + 1 \/ m \in 1 .. k
      OBVIOUS
    <3>4. Extremes(hi, lo, k + 1)
      BY <1>1, <3>1, <3>3
    <3>. HIDE DEF hi, lo, Extremes
    <3>. QED
      BY <1>1, <3>2, <3>4
  <2>. QED
    BY <2>1, <2>2
<1>. HIDE DEF S
<1>4. 0 .. n \subseteq S
  BY <1>1, <1>2, <1>3, UpTo
<1>5. PICK i, j \in 1 .. n : Extremes(i, j, n)
  <2>. HIDE DEF Extremes
  <2>. QED
    BY <1>1, <1>4 DEF S
<1>6. v[i] \in V /\ \A x \in V : v[i] >= x
  BY <1>1, <1>5
<1>7. v[j] \in V /\ \A x \in V : v[j] <= x
  BY <1>1, <1>5
<1>8. V \subseteq Int
  BY <1>1
<1>. HIDE DEF V
<1>9. Max(V) \in V /\ \A x \in V : x <= Max(V)
  <2>1. Max(V) \in V /\ \A x \in V : Max(V) >= x
    BY <1>6 DEF Max
  <2>. QED
    BY <1>8, <2>1
<1>10. Min(V) \in V /\ \A x \in V : x >= Min(V)
  <2>1. Min(V) \in V /\ \A x \in V : Min(V) <= x
    BY <1>7 DEF Min
  <2>. QED
    BY <1>8, <2>1
<1>. QED
  BY <1>9, <1>10 DEF V

LEMMA RangeBounds ==
  ASSUME NEW v \in Seq(Int), Len(v) >= 1
  PROVE  /\ RangeOf(v) \in Nat
         /\ \A i, j \in 1 .. Len(v) : v[i] - v[j] <= RangeOf(v)
<1>. DEFINE V == {v[i] : i \in DOMAIN v}
<1>1. DOMAIN v = 1 .. Len(v) /\ \A i \in 1 .. Len(v) : v[i] \in Int
  OBVIOUS
<1>2. V \subseteq Int /\ \A i \in 1 .. Len(v) : v[i] \in V
  BY <1>1
<1>3. /\ Max(V) \in V /\ \A x \in V : x <= Max(V)
      /\ Min(V) \in V /\ \A x \in V : x >= Min(V)
  BY MaxMin
<1>. HIDE DEF V
<1>4. PICK hi, lo \in Int : hi = Max(V) /\ lo = Min(V)
  BY <1>2, <1>3
<1>5. \A x \in V : x \in Int /\ lo <= x /\ x <= hi
  BY <1>2, <1>3, <1>4
<1>6. hi - lo \in Nat
  BY <1>3, <1>4, <1>5
<1>7. \A i, j \in 1 .. Len(v) : v[i] - v[j] <= hi - lo
  BY <1>2, <1>5
<1>8. RangeOf(v) = hi - lo
  BY <1>4 DEF RangeOf, V
<1>. QED
  BY <1>6, <1>7, <1>8

-----------------------------------------------------------------------------
(* Spread by the sums of the values and of the values weighted by position. *)
Weighted(v) == [i \in 1 .. Len(v) |-> i * v[i]]

LEMMA SpreadSums ==
  ASSUME NEW v \in Seq(Int)
  PROVE  /\ Weighted(v) \in Seq(Int) /\ Len(Weighted(v)) = Len(v)
         /\ Total(v) \in Int /\ Total(Weighted(v)) \in Int
         /\ Spread(v) = 2 * Total(Weighted(v)) - (Len(v) + 1) * Total(v)
<1>. DEFINE n == Len(v)
            u == [i \in DOMAIN v |-> (2 * i - n - 1) * v[i]]
            w == Weighted(v)
<1>1. n \in Nat /\ DOMAIN v = 1 .. n /\ \A i \in 1 .. n : v[i] \in Int
  OBVIOUS
<1>2. w \in Seq(Int) /\ Len(w) = n /\ \A i \in 1 .. n : w[i] = i * v[i]
  BY <1>1 DEF Weighted
<1>3. u \in Seq(Int) /\ Len(u) = n /\ \A i \in 1 .. n : u[i] = (2 * i - n - 1) * v[i]
  BY <1>1
<1>4. \A i \in 1 .. n : u[i] = 2 * w[i] + (-(n + 1)) * v[i]
  <2>1. \A i, x \in Int : (2 * i - n - 1) * x = 2 * (i * x) + (-(n + 1)) * x
    BY <1>1
  <2>. QED
    BY <1>1, <1>2, <1>3, <2>1
<1>5. n \in 0 .. n /\ 2 \in Int /\ -(n + 1) \in Int
  BY <1>1
<1>6. Total(u) = PartialSums(u)[n] /\ Total(w) = PartialSums(w)[n] /\ Total(v) = PartialSums(v)[n]
  BY <1>2, <1>3 DEF Total
<1>7. Spread(v) = Total(u)
  BY DEF Spread
<1>. HIDE DEF u, w
<1>. DEFINE c == -(n + 1)
<1>8. PartialSums(u)[n] = 2 * PartialSums(w)[n] + c * PartialSums(v)[n]
  <2>. DEFINE d == 2
  <2>1. Combines(u, d, w, c, v)
    BY <1>2, <1>3, <1>4 DEF Combines
  <2>2. n \in 0 .. Len(u) /\ d \in Int /\ c \in Int
    BY <1>3, <1>5
  <2>3. w \in Seq(Int) /\ u \in Seq(Int)
    BY <1>2, <1>3
  <2>. HIDE DEF c, d, n
  <2>4. \A k \in 0 .. Len(u) : PartialSums(u)[k] = d * PartialSums(w)[k] + c * PartialSums(v)[k]
    BY <2>1, <2>2, <2>3, PartialSumsLinear
  <2>5. PartialSums(u)[n] = d * PartialSums(w)[n] + c * PartialSums(v)[n]
    BY <2>2, <2>4
  <2>. QED
    BY <2>5 DEF d
<1>9. Total(v) \in Int /\ Total(w) \in Int
  BY <1>1, <1>2, <1>5, <1>6, PartialSumsDef
<1>10. Spread(v) = 2 * Total(w) - (n + 1) * Total(v)
  <2>1. PICK x, y \in Int : x = Total(w) /\ y = Total(v)
    BY <1>9
  <2>2. Spread(v) = 2 * x + c * y
    <3>. HIDE DEF c, n
    <3>. QED
      BY <1>6, <1>7, <1>8, <2>1
  <2>3. 2 * x + c * y = 2 * x - (n + 1) * y
    BY <1>1
  <2>. QED
    BY <2>1, <2>2, <2>3
<1>. QED
  BY <1>2, <1>9, <1>10 DEF n, w

(* Spread, value by value: the k + 1st adds what it exceeds the first k by. *)
Excess(v, k) == k * v[k + 1] - PartialSums(v)[k]

LEMMA SpreadByExcess ==
  ASSUME NEW v \in Seq(Int)
  PROVE  \E d \in [0 .. Len(v) -> Int] :
           /\ d[0] = 0 /\ d[Len(v)] = Spread(v)
           /\ \A k \in 0 .. Len(v) - 1 : Excess(v, k) \in Int /\ d[k + 1] = d[k] + Excess(v, k)
<1>. DEFINE n == Len(v)
            w == Weighted(v)
            V == PartialSums(v)
            W == PartialSums(w)
            d == [k \in 0 .. n |-> 2 * W[k] - (k + 1) * V[k]]
<1>1. n \in Nat /\ v \in [1 .. n -> Int]
  OBVIOUS
<1>2. w \in Seq(Int) /\ Len(w) = n /\ \A i \in 1 .. n : w[i] = i * v[i]
  BY SpreadSums DEF Weighted
<1>3. Spread(v) = 2 * W[n] - (n + 1) * V[n]
  BY <1>2, SpreadSums DEF Total
<1>. HIDE DEF w
<1>4. /\ V \in [0 .. n -> Int] /\ W \in [0 .. n -> Int] /\ V[0] = 0 /\ W[0] = 0
      /\ \A k \in 1 .. n : V[k] = V[k - 1] + v[k] /\ W[k] = W[k - 1] + k * v[k]
  BY <1>2, PartialSumsDef
<1>. HIDE DEF n, V, W
<1>5. d \in [0 .. n -> Int] /\ d[0] = 0 /\ d[n] = Spread(v)
  BY <1>1, <1>3, <1>4
<1>6. ASSUME NEW k \in 0 .. n - 1
      PROVE  Excess(v, k) \in Int /\ d[k + 1] = d[k] + Excess(v, k)
  <2>1. k + 1 \in 1 .. n /\ k \in 0 .. n /\ k + 1 \in 0 .. n /\ (k + 1) - 1 = k
    BY <1>1
  <2>2. PICK x, y, z \in Int : x = V[k] /\ y = W[k] /\ z = v[k + 1]
    BY <1>1, <1>4, <2>1
  <2>3. V[k + 1] = x + z /\ W[k + 1] = y + (k + 1) * z
    BY <1>4, <2>1, <2>2
  <2>4. Excess(v, k) = k * z - x
    BY <2>2 DEF Excess, V
  <2>5. d[k] = 2 * y - (k + 1) * x
    BY <2>1, <2>2
  <2>6. d[k + 1] = 2 * (y + (k + 1) * z) - ((k + 1) + 1) * (x + z)
    BY <2>1, <2>3
  <2>7. 2 * (y + (k + 1) * z) - ((k + 1) + 1) * (x + z) = (2 * y - (k + 1) * x) + (k * z - x)
    OBVIOUS
  <2>8. k * z - x \in Int
    OBVIOUS
  <2>. QED
    BY <2>4, <2>5, <2>6, <2>7, <2>8
<1>. HIDE DEF d
<1>. QED
  BY <1>5, <1>6 DEF n

(* Values within a range r of each other: an excess is at most k times r.  *)
LEMMA ExcessBound ==
  ASSUME NEW v \in Seq(Int), NEW r \in Nat,
         \A i, j \in 1 .. Len(v) : v[i] - v[j] <= r,
         NEW k \in 0 .. Len(v) - 1
  PROVE  -(k * r) <= Excess(v, k) /\ Excess(v, k) <= k * r
<1>. DEFINE n == Len(v)
            P == PartialSums(v)
            S == {m \in 0 .. k : -(m * r) <= m * v[k + 1] - P[m] /\ m * v[k + 1] - P[m] <= m * r}
<1>1. n \in Nat /\ v \in [1 .. n -> Int] /\ k \in Nat /\ k + 1 \in 1 .. n
  OBVIOUS
<1>2. P \in [0 .. n -> Int] /\ P[0] = 0 /\ \A m \in 1 .. n : P[m] = P[m - 1] + v[m]
  BY PartialSumsDef
<1>3. PICK z \in Int : z = v[k + 1]
  BY <1>1
<1>4. \A i \in 1 .. n : v[i] - z <= r /\ z - v[i] <= r
  BY <1>1, <1>3
<1>. HIDE DEF n, P
<1>5. 0 \in S
  <2>1. -(0 * r) <= 0 * z - 0 /\ 0 * z - 0 <= 0 * r
    OBVIOUS
  <2>. QED
    BY <1>1, <1>2, <1>3, <2>1
<1>6. ASSUME NEW m \in 0 .. k - 1, m \in S PROVE m + 1 \in S
  <2>1. m + 1 \in 1 .. n /\ m \in 0 .. n /\ (m + 1) - 1 = m
    BY <1>1
  <2>2. PICK x, y \in Int : x = P[m] /\ y = v[m + 1]
    BY <1>1, <1>2, <2>1
  <2>3. P[m + 1] = x + y
    BY <1>2, <2>1, <2>2
  <2>4. -(m * r) <= m * z - x /\ m * z - x <= m * r
    BY <1>3, <1>6, <2>2
  <2>5. y - z <= r /\ z - y <= r
    BY <1>4, <2>1, <2>2
  <2>6. (m + 1) * z - (x + y) = (m * z - x) + (z - y) /\ (m + 1) * r = m * r + r
    OBVIOUS
  <2>7. -((m + 1) * r) <= (m + 1) * z - (x + y) /\ (m + 1) * z - (x + y) <= (m + 1) * r
    <3>1. PICK e, f \in Int : e = m * z - x /\ f = m * r
      OBVIOUS
    <3>. QED
      BY <2>4, <2>5, <2>6, <3>1
  <2>. QED
    BY <1>1, <1>3, <2>3, <2>7
<1>. HIDE DEF S
<1>7. 0 .. k \subseteq S
  BY <1>1, <1>5, <1>6, UpTo
<1>8. k \in S
  BY <1>1, <1>7
<1>. QED
  BY <1>8 DEF S, P, Excess

(* Spread is at most the range times n * (n - 1) / 2.                      *)
LEMMA SpreadBound ==
  ASSUME NEW v \in Seq(Int), NEW r \in Nat,
         \A i, j \in 1 .. Len(v) : v[i] - v[j] <= r
  PROVE  /\ Spread(v) \in Int
         /\ 2 * Spread(v) <= Len(v) * (Len(v) - 1) * r
         /\ -(Len(v) * (Len(v) - 1) * r) <= 2 * Spread(v)
<1>. DEFINE n == Len(v)
<1>1. n \in Nat
  OBVIOUS
<1>2. PICK d \in [0 .. n -> Int] :
        /\ d[0] = 0 /\ d[n] = Spread(v)
        /\ \A k \in 0 .. n - 1 : Excess(v, k) \in Int /\ d[k + 1] = d[k] + Excess(v, k)
  BY SpreadByExcess
<1>. DEFINE S == {k \in 0 .. n : 2 * d[k] <= k * (k - 1) * r /\ -(k * (k - 1) * r) <= 2 * d[k]}
<1>3. 0 \in S
  BY <1>1, <1>2
<1>4. ASSUME NEW k \in 0 .. n - 1, k \in S PROVE k + 1 \in S
  <2>1. k + 1 \in 0 .. n /\ k \in 0 .. n
    BY <1>1
  <2>. DEFINE x == d[k]
              e == Excess(v, k)
              f == k * r
  <2>2. x \in Int /\ e \in Int /\ f \in Int
    BY <1>2, <2>1
  <2>3. -f <= e /\ e <= f
    BY ExcessBound
  <2>4. d[k + 1] = x + e
    BY <1>2
  <2>5. PICK g \in Int : g = k * (k - 1) * r
    OBVIOUS
  <2>6. 2 * x <= g /\ -g <= 2 * x
    BY <1>4, <2>5
  <2>7. (k + 1) * ((k + 1) - 1) * r = k * (k - 1) * r + 2 * (k * r)
    OBVIOUS
  <2>8. (k + 1) * ((k + 1) - 1) * r = g + 2 * f
    BY <2>5, <2>7
  <2>. HIDE DEF x, e, f
  <2>9. 2 * (x + e) <= g + 2 * f /\ -(g + 2 * f) <= 2 * (x + e)
    BY <2>2, <2>3, <2>6
  <2>. HIDE DEF n
  <2>. QED
    BY <2>1, <2>4, <2>8, <2>9
<1>. HIDE DEF S
<1>5. 0 .. n \subseteq S
  BY <1>1, <1>3, <1>4, UpTo
<1>6. n \in S /\ d[n] \in Int
  BY <1>1, <1>2, <1>5
<1>. QED
  BY <1>2, <1>6 DEF S

(* Values that never fall (e = 1) or never rise (e = -1) have no spread    *)
(* against them.                                                           *)
LEMMA SpreadSign ==
  ASSUME NEW v \in Seq(Int), NEW e \in {1, -1},
         \A i \in 2 .. Len(v) : e * v[i] >= e * v[i - 1]
  PROVE  e * Spread(v) >= 0
<1>. DEFINE n == Len(v)
            P == PartialSums(v)
            T == {k \in 0 .. n : k > 0 => e * (k * v[k]) >= e * P[k]}
<1>1. n \in Nat /\ v \in [1 .. n -> Int] /\ e \in Int
  OBVIOUS
<1>2. P \in [0 .. n -> Int] /\ P[0] = 0 /\ \A m \in 1 .. n : P[m] = P[m - 1] + v[m]
  BY PartialSumsDef
<1>3. PICK d \in [0 .. n -> Int] :
        /\ d[0] = 0 /\ d[n] = Spread(v)
        /\ \A k \in 0 .. n - 1 : Excess(v, k) \in Int /\ d[k + 1] = d[k] + Excess(v, k)
  BY SpreadByExcess
<1>4. \A k \in 1 .. n - 1 : e * v[k + 1] >= e * v[k]
  <2>1. \A k \in 1 .. n - 1 : k + 1 \in 2 .. Len(v) /\ (k + 1) - 1 = k
    OBVIOUS
  <2>. QED
    BY <2>1
<1>. HIDE DEF n, P
<1>5. 0 \in T
  BY <1>1
<1>6. ASSUME NEW k \in 0 .. n - 1
      PROVE  /\ k \in T => e * Excess(v, k) >= 0
             /\ k \in T => k + 1 \in T
  <2>0. SUFFICES ASSUME k \in T
                 PROVE  e * Excess(v, k) >= 0 /\ k + 1 \in T
    OBVIOUS
  <2>1. k + 1 \in 1 .. n /\ k \in 0 .. n /\ k + 1 \in 0 .. n /\ (k + 1) - 1 = k
    BY <1>1
  <2>2. PICK x, z \in Int : x = P[k] /\ z = v[k + 1]
    BY <1>1, <1>2, <2>1
  <2>3. P[k + 1] = x + z /\ Excess(v, k) = k * z - x
    BY <1>2, <2>1, <2>2 DEF Excess, P
  <2>4. e * (k * z - x) >= 0
    <3>1. CASE k = 0
      BY <1>2, <2>2, <3>1
    <3>2. CASE k > 0
      <4>1. PICK y \in Int : y = v[k]
        BY <1>1, <2>1, <3>2
      <4>2. e * (k * y) >= e * x /\ e * z >= e * y
        BY <1>4, <2>0, <2>2, <3>2, <4>1
      <4>3. CASE e = 1
        <5>1. k * y >= x /\ z >= y
          BY <4>2, <4>3
        <5>2. k * z - x = (k * y - x) + k * (z - y) /\ k * (z - y) >= 0
          BY <5>1
        <5>. QED
          BY <4>3, <5>1, <5>2
      <4>4. CASE e = -1
        <5>1. k * y <= x /\ z <= y
          BY <4>2, <4>4
        <5>2. k * z - x = (k * y - x) - k * (y - z) /\ k * (y - z) >= 0
          BY <5>1
        <5>3. PICK q \in Int : q = k * z - x
          OBVIOUS
        <5>4. q <= 0
          BY <5>1, <5>2, <5>3
        <5>. QED
          BY <4>4, <5>3, <5>4
      <4>. QED
        BY <4>3, <4>4
    <3>. QED
      BY <3>1, <3>2
  <2>5. e * ((k + 1) * z) >= e * (x + z)
    <3>1. e * ((k + 1) * z) - e * (x + z) = e * (k * z - x)
      BY <1>1
    <3>. QED
      BY <1>1, <2>4, <3>1
  <2>. QED
    BY <2>1, <2>2, <2>3, <2>4, <2>5
<1>7. 0 .. n \subseteq T
  <2>. HIDE DEF T
  <2>. QED
    BY <1>1, <1>5, <1>6, UpTo
<1>. DEFINE S == {k \in 0 .. n : e * d[k] >= 0}
<1>8. 0 \in S
  BY <1>1, <1>3
<1>9. ASSUME NEW k \in 0 .. n - 1, k \in S PROVE k + 1 \in S
  <2>1. k + 1 \in 0 .. n /\ k \in 0 .. n
    BY <1>1
  <2>2. e * Excess(v, k) >= 0
    BY <1>6, <1>7, <2>1
  <2>3. PICK x, y \in Int : x = d[k] /\ y = Excess(v, k)
    BY <1>3, <2>1
  <2>4. e * x >= 0 /\ e * y >= 0
    BY <1>9, <2>2, <2>3
  <2>5. e * (x + y) >= 0
    BY <1>1, <2>4
  <2>. QED
    BY <1>3, <2>1, <2>3, <2>5
<1>. HIDE DEF S
<1>10. 0 .. n \subseteq S
  BY <1>1, <1>8, <1>9, UpTo
<1>. QED
  BY <1>1, <1>3, <1>10 DEF S

-----------------------------------------------------------------------------
(* The clamp never cuts a slope: 6 * Spread is at most n * (n^2 - 1) times *)
(* the range.                                                              *)
LEMMA SlopeNotClamped ==
  ASSUME NEW v \in Seq(Int), Len(v) >= 2
  PROVE  Clamped(Slope(v)) = Slope(v) /\ Slope(v).den > 0
<1>. DEFINE n == Len(v)
            range == IF RangeOf(v) = 0 THEN 1 ELSE RangeOf(v)
            sp == Spread(v)
            den == n * (n * n - 1) * range
<1>1. n \in Nat /\ n >= 2
  OBVIOUS
<1>2. range \in Nat /\ range > 0 /\ \A i, j \in 1 .. Len(v) : v[i] - v[j] <= range
  BY RangeBounds
<1>3. Slope(v) = [num |-> 6 * sp, den |-> den]
  BY DEF Slope
<1>. HIDE DEF range
<1>4. sp \in Int /\ 2 * sp <= n * (n - 1) * range /\ -(n * (n - 1) * range) <= 2 * sp
  BY <1>2, SpreadBound
<1>. HIDE DEF n, sp
<1>5. PICK g \in Nat : g = n * (n - 1) * range /\ g > 0
  <2>1. n * (n - 1) \in Nat /\ n * (n - 1) > 0
    BY <1>1
  <2>. QED
    BY <1>2, <2>1
<1>6. den = (n + 1) * g
  BY <1>1, <1>2, <1>5
<1>7. (n + 1) * g = 3 * g + (n - 2) * g /\ (n - 2) * g >= 0
  BY <1>1
<1>8. den \in Int /\ den >= 3 * g
  BY <1>1, <1>6, <1>7
<1>. HIDE DEF den
<1>9. 6 * sp <= 3 * g /\ -(3 * g) <= 6 * sp
  BY <1>4, <1>5
<1>10. ~ (6 * sp > den) /\ ~ (6 * sp < -den)
  BY <1>4, <1>8, <1>9
<1>. QED
  BY <1>3, <1>5, <1>8, <1>10 DEF Clamped

(* What is returned satisfies the normal equations.                        *)
LEMMA SlopeIsRegression ==
  ASSUME NEW v \in Seq(Int), Len(v) >= 2
  PROVE  IsRegression(v, Slope(v))
<1>. DEFINE n == Len(v)
            X  == Total([i \in DOMAIN v |-> i])
            XX == Total([i \in DOMAIN v |-> i * i])
            Y  == Total(v)
            XY == Total([i \in DOMAIN v |-> i * v[i]])
            r  == RangeOf(v)
            sp == Spread(v)
<1>1. n \in Nat /\ DOMAIN v = 1 .. n
  OBVIOUS
<1>2. r \in Nat
  BY RangeBounds
<1>3. 2 * X = n * (n + 1) /\ 6 * XX = n * (n + 1) * (2 * n + 1)
  BY <1>1, SumOfIndices, SumOfSquares
<1>4. X \in Int /\ XX \in Int
  <2>. DEFINE s == [i \in 1 .. n |-> i]
              t == [i \in 1 .. n |-> i * i]
  <2>1. s \in Seq(Int) /\ t \in Seq(Int)
    BY <1>1
  <2>2. X = Total(s) /\ XX = Total(t)
    BY <1>1
  <2>. HIDE DEF s, t
  <2>3. Len(s) \in 0 .. Len(s) /\ Len(t) \in 0 .. Len(t)
    BY <2>1
  <2>. QED
    BY <2>1, <2>2, <2>3, PartialSumsDef DEF Total
<1>5. XY \in Int /\ Y \in Int /\ sp = 2 * XY - (n + 1) * Y
  BY <1>1, SpreadSums DEF Weighted
<1>6. SUFFICES ASSUME r > 0
               PROVE  Slope(v).num * r * (n * XX - X * X) = Slope(v).den * (n * XY - X * Y)
  BY SlopeNotClamped DEF IsRegression
<1>7. Slope(v).num = 6 * sp /\ Slope(v).den = n * (n * n - 1) * r
  BY <1>2, <1>6 DEF Slope
<1>. HIDE DEF n, X, XX, Y, XY, r, sp
<1>8. 12 * (n * XX - X * X) = n * n * (n * n - 1)
  <2>1. 12 * (n * XX) = 2 * (n * (6 * XX)) /\ 12 * (X * X) = 3 * ((2 * X) * (2 * X))
    BY <1>1, <1>4
  <2>2. 2 * (n * (n * (n + 1) * (2 * n + 1))) - 3 * ((n * (n + 1)) * (n * (n + 1)))
          = n * n * (n * n - 1)
    BY <1>1
  <2>3. 12 * (n * XX - X * X) = 12 * (n * XX) - 12 * (X * X)
    BY <1>1, <1>4
  <2>. QED
    BY <1>3, <2>1, <2>2, <2>3
<1>9. 2 * (n * XY - X * Y) = n * sp
  <2>1. 2 * (n * XY - X * Y) = 2 * (n * XY) - (2 * X) * Y
    BY <1>1, <1>4, <1>5
  <2>2. 2 * (n * XY) - (n * (n + 1)) * Y = n * (2 * XY - (n + 1) * Y)
    BY <1>1, <1>5
  <2>. QED
    BY <1>3, <1>5, <2>1, <2>2
<1>10. PICK a, b \in Int : a = n * XX - X * X /\ b = n * XY - X * Y
  BY <1>1, <1>4, <1>5
<1>11. sp \in Int
  BY <1>1, <1>5
<1>12. 12 * a = n * n * (n * n - 1) /\ 2 * b = n * sp
  BY <1>8, <1>9, <1>10
<1>13. 2 * ((6 * sp) * r * a) = 2 * ((n * (n * n - 1) * r) * b)
  <2>1. 2 * ((6 * sp) * r * a) = sp * r * (12 * a)
    BY <1>2, <1>10, <1>11
  <2>2. 2 * ((n * (n * n - 1) * r) * b) = (n * (n * n - 1) * r) * (2 * b)
    <3>1. PICK q \in Int : q = n * (n * n - 1) * r
      BY <1>1, <1>2
    <3>. QED
      BY <3>1
  <2>3. sp * r * (n * n * (n * n - 1)) = (n * (n * n - 1) * r) * (n * sp)
    BY <1>1, <1>2, <1>11
  <2>. QED
    BY <1>12, <2>1, <2>2, <2>3
<1>14. (6 * sp) * r * a = (n * (n * n - 1) * r) * b
  <2>1. PICK x, y \in Int : x = (6 * sp) * r * a /\ y = (n * (n * n - 1) * r) * b
    BY <1>1, <1>2, <1>10, <1>11
  <2>. QED
    BY <1>13, <2>1
<1>. QED
  BY <1>7, <1>10, <1>14

-----------------------------------------------------------------------------
(* The window: the last w values, or all when there are not that many or w *)
(* asks for none.                                                          *)
LEMMA LastOfType ==
  ASSUME NEW S, NEW v \in Seq(S), NEW n \in 0 .. Len(v)
  PROVE  /\ LastOf(v, n) \in Seq(S)
         /\ n > 0 => Len(LastOf(v, n)) = n
         /\ n \in {0, Len(v)} => LastOf(v, n) = v
<1>1. CASE n = 0
  BY <1>1 DEF LastOf
<1>2. CASE n > 0
  <2>1. LastOf(v, n) = [i \in 1 .. n |-> v[Len(v) - n + i]]
    BY <1>2 DEF LastOf
  <2>2. \A i \in 1 .. n : v[Len(v) - n + i] \in S
    BY <1>2
  <2>3. LastOf(v, n) \in Seq(S) /\ Len(LastOf(v, n)) = n
    BY <2>1, <2>2
  <2>4. ASSUME n = Len(v) PROVE LastOf(v, n) = v
    BY <2>1, <2>3, <2>4
  <2>. QED
    BY <1>2, <2>3, <2>4
<1>. QED
  BY <1>1, <1>2

LEMMA TrendIsOfLast ==
  ASSUME NEW v \in Seq(Int), NEW w \in Int
  PROVE  /\ TrendOfLast(v, w) \in Seq(Int)
         /\ Trend(v, w) = IF Len(TrendOfLast(v, w)) < 2 THEN Flat
                          ELSE Clamped(Slope(TrendOfLast(v, w)))
<1>. DEFINE n == Len(v)
            recent == TrendOfLast(v, w)
<1>1. n \in Nat
  OBVIOUS
<1>2. CASE w \in 1 .. n - 1
  <2>1. recent = LastOf(v, w) /\ recent \in Seq(Int) /\ Len(recent) = w
    BY <1>2, LastOfType DEF TrendOfLast
  <2>. QED
    BY <1>1, <1>2, <2>1 DEF Trend
<1>3. CASE w \notin 1 .. n - 1
  <2>1. recent = v
    BY <1>1, <1>3, LastOfType DEF TrendOfLast
  <2>2. ~ (w > 0 /\ w < n)
    BY <1>1, <1>3
  <2>. QED
    BY <1>1, <2>1, <2>2 DEF Trend
<1>. QED
  BY <1>2, <1>3

(* get_historical_trend, for every history of integers and every window:   *)
(* what it returns is the slope of the least-squares line through the      *)
(* window over the range of its values, never cut by the clamp to [-1, 1], *)
(* and never against values that only rise or only fall                    *)
(* (aggregation.py:221-245).                                               *)
THEOREM TrendIsRegression ==
  ASSUME NEW histories \in SUBSET Seq(Int), NEW windows \in SUBSET Int
  PROVE  TrendAgrees(histories, windows)
<1>. SUFFICES ASSUME NEW v \in histories, NEW w \in windows
              PROVE  LET t == Trend(v, w)
                         recent == TrendOfLast(v, w)
                     IN  /\ Len(recent) >= 2 => IsRegression(recent, t)
                         /\ (\A i \in 2 .. Len(recent) : recent[i] >= recent[i - 1]) => t.num >= 0
                         /\ (\A i \in 2 .. Len(recent) : recent[i] <= recent[i - 1]) => t.num <= 0
  BY DEF TrendAgrees
<1>. DEFINE t == Trend(v, w)
            recent == TrendOfLast(v, w)
<1>1. recent \in Seq(Int) /\ t = IF Len(recent) < 2 THEN Flat ELSE Clamped(Slope(recent))
  BY TrendIsOfLast
<1>. HIDE DEF t, recent
<1>2. CASE Len(recent) < 2
  BY <1>1, <1>2 DEF Flat, t, recent
<1>3. CASE Len(recent) >= 2
  <2>1. t = Slope(recent)
    BY <1>1, <1>3, SlopeNotClamped
  <2>2. IsRegression(recent, t)
    BY <1>1, <1>3, <2>1, SlopeIsRegression
  <2>3. t.num = 6 * Spread(recent) /\ Spread(recent) \in Int
    <3>1. t.num = 6 * Spread(recent)
      BY <2>1 DEF Slope
    <3>2. Spread(recent) \in Int
      BY <1>1, SpreadSums
    <3>. QED
      BY <3>1, <3>2
  <2>4. \A i \in 2 .. Len(recent) : recent[i] \in Int /\ recent[i - 1] \in Int
    BY <1>1
  <2>5. ASSUME \A i \in 2 .. Len(recent) : recent[i] >= recent[i - 1]
        PROVE  t.num >= 0
    <3>1. \A i \in 2 .. Len(recent) : 1 * recent[i] >= 1 * recent[i - 1]
      BY <2>4, <2>5
    <3>2. 1 * Spread(recent) >= 0
      BY <1>1, <3>1, SpreadSign
    <3>. QED
      BY <2>3, <3>2
  <2>6. ASSUME \A i \in 2 .. Len(recent) : recent[i] <= recent[i - 1]
        PROVE  t.num <= 0
    <3>1. \A i \in 2 .. Len(recent) : (-1) * recent[i] >= (-1) * recent[i - 1]
      BY <2>4, <2>6
    <3>2. (-1) * Spread(recent) >= 0
      BY <1>1, <3>1, SpreadSign
    <3>. QED
      BY <2>3, <3>2
  <2>. QED
    BY <2>2, <2>5, <2>6 DEF t, recent
<1>. QED
  BY <1>1, <1>2, <1>3
=============================================================================
