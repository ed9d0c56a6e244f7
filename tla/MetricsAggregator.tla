-------------------------- MODULE MetricsAggregator --------------------------
(***************************************************************************)
(* MetricsAggregator (slurmheartbeat/federation/aggregation.py): the       *)
(* aggregate over the healthy peers, the history it is appended to, and    *)
(* the trend read from that history.                                       *)
(*                                                                         *)
(* Of an aggregate the number of healthy peers and the health are kept;    *)
(* the totals of nodes and jobs are sums over the same peers.  A trend is  *)
(* a fraction, kept as numerator and positive denominator.                 *)
(***************************************************************************)
EXTENDS Integers, FiniteSets, FiniteSetsExt, Sequences

CONSTANT MaxHistory   \* max_history_size

ASSUME HistoryAssumption == MaxHistory \in Nat

(***************************************************************************)
(* compute_federation_health: h of n peers are healthy.                    *)
(***************************************************************************)
HealthLevels == {"no_peers", "unhealthy", "healthy", "degraded", "critical"}

Health(h, n) == IF n = 0 THEN "no_peers"
                ELSE IF h = 0 THEN "unhealthy"
                ELSE IF 10 * h >= 8 * n THEN "healthy"
                ELSE IF 2 * h >= n THEN "degraded"
                ELSE "critical"

AggregateOf(healthy, peers) ==
  [healthy |-> Cardinality(healthy),
   health  |-> Health(Cardinality(healthy), Cardinality(peers))]

(***************************************************************************)
(* The history, cut to its last entries; [-0:] cuts nothing.               *)
(***************************************************************************)
LastOf(s, n) == IF n = 0 THEN s ELSE SubSeq(s, Len(s) - n + 1, Len(s))

(* Mutant of Recorded: cut before the new entry is there. *)
Recorded_CutFirst(history, m) ==
  Append(IF Len(history) > MaxHistory THEN LastOf(history, MaxHistory) ELSE history, m)

Recorded(history, m) ==
  LET longer == Append(history, m)
  IN  IF Len(longer) > MaxHistory THEN LastOf(longer, MaxHistory) ELSE longer

(***************************************************************************)
(* get_historical_trend: the slope of the regression line through the      *)
(* values at 0, 1, 2, ..., over their range.  With the means multiplied    *)
(* out and n * (n^2 - 1) / 12 for the sum of the squared distances, it is  *)
(* 6 * Spread over n * (n^2 - 1) * range.  A window of zero or less is the *)
(* whole history.                                                          *)
(***************************************************************************)
(* The sums of the first 0, 1, ..., Len(s) values of s. *)
PartialSums(s) == LET sum[k \in 0 .. Len(s)] == IF k = 0 THEN 0 ELSE sum[k - 1] + s[k]
                  IN  sum

Total(s) == PartialSums(s)[Len(s)]

(* Mutant of Spread: positions counted from the first value, not the mean. *)
Spread_Uncentred(v) == Total([i \in DOMAIN v |-> (2 * (i - 1)) * v[i]])

Spread(v) == Total([i \in DOMAIN v |-> (2 * i - Len(v) - 1) * v[i]])

RangeOf(v) == Max({v[i] : i \in DOMAIN v}) - Min({v[i] : i \in DOMAIN v})

Flat == [num |-> 0, den |-> 1]

Slope(v) == LET n == Len(v)
                range == IF RangeOf(v) = 0 THEN 1 ELSE RangeOf(v)
            IN  [num |-> 6 * Spread(v), den |-> n * (n * n - 1) * range]

Clamped(t) == IF t.num > t.den THEN [num |-> 1, den |-> 1]
              ELSE IF t.num < -t.den THEN [num |-> -1, den |-> 1]
              ELSE t

Trend(v, window) ==
  LET recent == IF window > 0 /\ window < Len(v) THEN LastOf(v, window) ELSE v
  IN  IF Len(v) < 2 \/ Len(recent) < 2 THEN Flat ELSE Clamped(Slope(recent))

-----------------------------------------------------------------------------
(* get_historical_trend against its definition, for the given histories    *)
(* and windows: it is the slope of the least-squares line through the      *)
(* values of the window (the normal equations, multiplied out) over their  *)
(* range; the clamp to [-1, 1] never cuts, so nothing steeper is hidden;   *)
(* and values that never fall, or never rise, get no trend against them.   *)
IsRegression(v, t) ==
  LET n == Len(v)
      X  == Total([i \in DOMAIN v |-> i])
      XX == Total([i \in DOMAIN v |-> i * i])
      Y  == Total(v)
      XY == Total([i \in DOMAIN v |-> i * v[i]])
  IN  /\ t.den > 0
      /\ RangeOf(v) > 0 => t.num * RangeOf(v) * (n * XX - X * X) = t.den * (n * XY - X * Y)

TrendOfLast(v, w) == LastOf(v, IF w \in 1 .. Len(v) THEN w ELSE Len(v))

TrendAgrees(histories, windows) ==
  \A v \in histories, w \in windows :
    LET t == Trend(v, w)
        recent == TrendOfLast(v, w)
    IN  /\ Len(recent) >= 2 => IsRegression(recent, t)
        /\ (\A i \in 2 .. Len(recent) : recent[i] >= recent[i - 1]) => t.num >= 0
        /\ (\A i \in 2 .. Len(recent) : recent[i] <= recent[i - 1]) => t.num <= 0
=============================================================================
