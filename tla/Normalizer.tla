----------------------------- MODULE Normalizer -----------------------------
(***************************************************************************)
(* ReadinessNormalizer (slurmheartbeat/client/normalizer.py): the pure     *)
(* part of the daemon.  It turns the counts one collection gathered into   *)
(* the readiness status, the signals and the queue pressure of the         *)
(* document the site publishes.                                            *)
(*                                                                         *)
(* Counts are naturals.  A ratio compared with a literal (0.2, 0.5, 0.7,   *)
(* 0.9) is compared by cross multiplication, which is what the float       *)
(* comparison computes for every count a cluster can have.  The list of    *)
(* partitions is a set, since the code only asks any() of it.  The reason  *)
(* strings, site_id, cluster_name and observed_at are left out; the age of *)
(* a document is kept by ReadinessPublisher.                               *)
(***************************************************************************)
EXTENDS Integers

CONSTANT FedState   \* fed_state given to the constructor, never changed

FedStates == {"UNKNOWN", "ACTIVE", "INACTIVE"}

ASSUME FedStateAssumption == FedState \in FedStates

Statuses == {"ready", "limited", "draining", "unavailable", "unknown"}

Pressures == {"low", "normal", "high", "critical"}

(***************************************************************************)
(* What the collector hands over: node counts, partitions, job counts.     *)
(* total counts every node the API lists, also those in a state the        *)
(* collector does not name, hence the inequality.                          *)
(***************************************************************************)
NodeCounts == { n \in [total : Nat, idle : Nat, drained : Nat, down : Nat] :
                  n.idle + n.drained + n.down <= n.total }

JobCounts == [pending : Nat, running : Nat]

Partitions == [total : Nat, idle : Nat]

Metrics == [nodes : NodeCounts, parts : SUBSET Partitions, jobs : JobCounts]

(* Mutant of Unhealthy: drained nodes forgotten. *)
Unhealthy_DownOnly(nodes) == nodes.down

Unhealthy(nodes) == nodes.down + nodes.drained

(***************************************************************************)
(* _determine_queue_pressure                                               *)
(***************************************************************************)
(* Mutant of Exceeds: the ratio of running jobs instead of pending ones. *)
Exceeds_Running(jobs, count, tenths) ==
  \/ jobs.pending > count
  \/ 10 * jobs.running > tenths * (jobs.pending + jobs.running)

Exceeds(jobs, count, tenths) ==
  \/ jobs.pending > count
  \/ 10 * jobs.pending > tenths * (jobs.pending + jobs.running)

QueuePressure(m) ==
  IF m.nodes.total = 0 \/ m.jobs.pending + m.jobs.running = 0 THEN "low"
  ELSE IF Exceeds(m.jobs, 1000, 9) THEN "critical"
  ELSE IF Exceeds(m.jobs, 500, 7) THEN "high"
  ELSE IF Exceeds(m.jobs, 100, 5) THEN "normal"
  ELSE "low"

(***************************************************************************)
(* _determine_status: the first rule that applies decides.                 *)
(***************************************************************************)
NoPartition(m) == m.parts # {} /\ \A p \in m.parts : p.total = 0

NoIdleNode(m) == /\ m.parts # {}
                 /\ \A p \in m.parts : p.idle = 0
                 /\ m.nodes.idle = 0

(* Mutant of Status: the idle-node rule before the rules on node health. *)
Status_IdleFirst(m, reachable, maintenance) ==
  IF ~reachable THEN "unavailable"
  ELSE IF maintenance \/ NoIdleNode(m) THEN "limited"
  ELSE IF m.nodes.total = 0 THEN "unknown"
  ELSE IF 2 * Unhealthy(m.nodes) > m.nodes.total THEN "unavailable"
  ELSE IF 5 * Unhealthy(m.nodes) > m.nodes.total THEN "limited"
  ELSE "ready"

Status(m, reachable, maintenance) ==
  IF ~reachable THEN "unavailable"
  ELSE IF maintenance THEN "limited"
  ELSE IF m.nodes.total = 0 THEN "unknown"
  ELSE IF 2 * Unhealthy(m.nodes) > m.nodes.total THEN "unavailable"
  ELSE IF 5 * Unhealthy(m.nodes) > m.nodes.total THEN "limited"
  ELSE IF NoPartition(m) THEN "unavailable"
  ELSE IF NoIdleNode(m) \/ QueuePressure(m) = "critical" THEN "limited"
  ELSE IF FedState = "INACTIVE" THEN "draining"
  ELSE "ready"

(***************************************************************************)
(* _check_critical_partitions and _build_signals                           *)
(***************************************************************************)
CriticalPartitions(m) == \E p \in m.parts : p.total > 0 /\ p.idle > 0

Signals(m, reachable, maintenance) ==
  [reachable   |-> reachable,
   fedVisible  |-> FedState = "ACTIVE",
   maintenance |-> maintenance,
   accepting   |-> ~maintenance /\ reachable,
   pressure    |-> QueuePressure(m),
   critical    |-> CriticalPartitions(m)]

(***************************************************************************)
(* Ranks used by the properties: a ready site is better than one that      *)
(* takes little or no new work, which is better than one that serves none. *)
(***************************************************************************)
Rank(s) == CASE s = "ready"                     -> 2
             [] s \in {"limited", "draining"}    -> 1
             [] s \in {"unknown", "unavailable"} -> 0

PressureRank(q) == CASE q = "low"      -> 0
                     [] q = "normal"   -> 1
                     [] q = "high"     -> 2
                     [] q = "critical" -> 3
=============================================================================
