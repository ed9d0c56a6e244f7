---------------------------- MODULE QueuePredictor ----------------------------
(***************************************************************************)
(* QueuePredictor (slurmheartbeat/federation/prediction.py): what a        *)
(* federation member makes of another site's capacity hint: the pressure   *)
(* it expects, the wait it estimates and how the load has changed.  With   *)
(* the default parameters, which is how the publisher makes one.           *)
(*                                                                         *)
(* Ratios are compared by cross multiplication.  A wait is a fraction of   *)
(* seconds, kept as numerator and positive denominator.                    *)
(***************************************************************************)
EXTENDS Integers

BaseWait == 3600

DayCap == 86400

Load(hint) == hint.pending + hint.running

(* max(idle_nodes, 1): no idle node predicts what one does. *)
AvailableNodes(hint) == IF hint.idle > 1 THEN hint.idle ELSE 1

PredictedPressure(hint) ==
  IF Load(hint) >= 9 * AvailableNodes(hint) THEN "critical"
  ELSE IF Load(hint) >= 7 * AvailableNodes(hint) THEN "high"
  ELSE IF 2 * Load(hint) >= AvailableNodes(hint) THEN "normal"
  ELSE "low"

(* Tenths, since low pressure halves the wait. *)
Multiplier(pressure) == CASE pressure = "low"      -> 5
                          [] pressure = "normal"   -> 10
                          [] pressure = "high"     -> 20
                          [] pressure = "critical" -> 50

(* Mutant of EstimatedWait: the multiplier divides. *)
EstimatedWait_Inverse(hint, pressure) ==
  [num |-> hint.pending * BaseWait,
   den |-> AvailableNodes(hint) * Multiplier(pressure)]

EstimatedWait(hint, pressure) ==
  LET num == hint.pending * BaseWait * Multiplier(pressure)
      den == 10 * AvailableNodes(hint)
  IN  IF num > DayCap * den THEN [num |-> DayCap, den |-> 1]
                            ELSE [num |-> num, den |-> den]

(***************************************************************************)
(* calculate_trend: the newest load against the oldest.                    *)
(***************************************************************************)
LoadTrend(older, recent) ==
  LET change == Load(recent) - Load(older)
  IN  IF Load(older) = 0 THEN "stable"
      ELSE IF 5 * change > Load(older) THEN "increasing"
      ELSE IF 5 * change < -Load(older) THEN "decreasing"
      ELSE "stable"

(***************************************************************************)
(* predict, for a history with the given number of entries, oldest first.  *)
(***************************************************************************)
Confidence(hint, entries) ==
  5 + (IF entries >= 5 THEN 3 ELSE 0) + (IF hint.idle > 0 THEN 1 ELSE 0)

Predict(hint, entries, older, recent) ==
  [pressure   |-> PredictedPressure(hint),
   wait       |-> EstimatedWait(hint, PredictedPressure(hint)),
   trend      |-> IF entries >= 2 THEN LoadTrend(older, recent) ELSE "stable",
   confidence |-> Confidence(hint, entries)]

NoLonger(v, w) == v.num * w.den <= w.num * v.den
=============================================================================
