------------------------ MODULE SiteEvolution_proofs ------------------------
(***************************************************************************)
(* Proofs about SiteEvolution, for any number of nodes, any numbers of     *)
(* jobs and any partition lists: a ready site is justified, the verdict of *)
(* the normalizer is monotone in the health of the nodes and in the        *)
(* demand, and the wait another member predicts is monotone in the load.   *)
(***************************************************************************)
EXTENDS SiteEvolution, TLAPS

(***************************************************************************)
(* Types.  Every node is in one pool; the allocated ones are the rest.     *)
(***************************************************************************)
SiteType ==
  /\ nodes \in [total : Nat, idle : Nat, drained : Nat, down : Nat]
  /\ nodes.idle + nodes.drained + nodes.down <= nodes.total
  /\ parts \in PartitionTables
  /\ jobs \in [pending : JobLevels, running : JobLevels]
  /\ maintenance \in BOOLEAN

LEMMA SiteInit == Init => SiteType
<1>. SUFFICES ASSUME Init PROVE SiteType
  OBVIOUS
<1>1. nodes = [total |-> TotalNodes, idle |-> TotalNodes, drained |-> 0, down |-> 0] /\ TotalNodes \in Nat
  BY SiteAssumption DEF Init
<1>2. /\ nodes \in [total : Nat, idle : Nat, drained : Nat, down : Nat]
      /\ nodes.idle + nodes.drained + nodes.down <= nodes.total
  BY <1>1
<1>. QED
  BY <1>2 DEF Init, SiteType

LEMMA Pools ==
  ASSUME SiteType
  PROVE  /\ nodes.total \in Nat /\ nodes.idle \in Nat /\ nodes.drained \in Nat /\ nodes.down \in Nat
         /\ nodes = [total |-> nodes.total, idle |-> nodes.idle,
                     drained |-> nodes.drained, down |-> nodes.down]
         /\ nodes.idle + nodes.drained + nodes.down <= nodes.total
BY DEF SiteType

(* A node lost adds to the unhealthy ones and not to the idle ones. *)
LEMMA NodeLostEffect ==
  ASSUME SiteType, NodeLost
  PROVE  /\ nodes' \in [total : Nat, idle : Nat, drained : Nat, down : Nat]
         /\ nodes'.idle + nodes'.drained + nodes'.down <= nodes'.total
         /\ nodes'.total = nodes.total /\ nodes'.idle <= nodes.idle
         /\ nodes'.down + nodes'.drained = nodes.down + nodes.drained + 1
<1>1. PICK why \in {"down", "drained"} :
        \/ nodes.idle > 0 /\ nodes' = [nodes EXCEPT !.idle = @ - 1, ![why] = @ + 1]
        \/ Allocated > 0 /\ nodes' = [nodes EXCEPT ![why] = @ + 1]
  BY DEF NodeLost
<1>. DEFINE After(idle) ==
       [total   |-> nodes.total, idle |-> idle,
        drained |-> IF why = "drained" THEN nodes.drained + 1 ELSE nodes.drained,
        down    |-> IF why = "down" THEN nodes.down + 1 ELSE nodes.down]
<1>2. CASE nodes.idle > 0 /\ nodes' = [nodes EXCEPT !.idle = @ - 1, ![why] = @ + 1]
  <2>1. nodes' = After(nodes.idle - 1)
    BY <1>1, <1>2, Pools
  <2>2. CASE why = "down"
    BY <1>2, <2>1, <2>2, Pools
  <2>3. CASE why = "drained"
    BY <1>2, <2>1, <2>3, Pools
  <2>. QED
    BY <1>1, <2>2, <2>3
<1>3. CASE Allocated > 0 /\ nodes' = [nodes EXCEPT ![why] = @ + 1]
  <2>1. nodes' = After(nodes.idle)
    BY <1>1, <1>3, Pools
  <2>2. CASE why = "down"
    BY <1>3, <2>1, <2>2, Pools DEF Allocated
  <2>3. CASE why = "drained"
    BY <1>3, <2>1, <2>3, Pools DEF Allocated
  <2>. QED
    BY <1>1, <2>2, <2>3
<1>. QED
  BY <1>1, <1>2, <1>3

LEMMA NodesStep ==
  ASSUME SiteType, NodeLost \/ NodeReturns \/ NodeAllocated \/ NodeReleased
  PROVE  /\ nodes' \in [total : Nat, idle : Nat, drained : Nat, down : Nat]
         /\ nodes'.idle + nodes'.drained + nodes'.down <= nodes'.total
<1>1. CASE NodeLost
  BY <1>1, NodeLostEffect
<1>2. CASE NodeReturns
  <2>1. PICK why \in {"down", "drained"} :
          nodes[why] > 0 /\ nodes' = [nodes EXCEPT ![why] = @ - 1, !.idle = @ + 1]
    BY <1>2 DEF NodeReturns
  <2>2. CASE why = "down"
    <3>1. nodes' = [total |-> nodes.total, idle |-> nodes.idle + 1,
                    drained |-> nodes.drained, down |-> nodes.down - 1] /\ nodes.down > 0
      BY <2>1, <2>2, Pools
    <3>. QED
      BY <3>1, Pools
  <2>3. CASE why = "drained"
    <3>1. nodes' = [total |-> nodes.total, idle |-> nodes.idle + 1,
                    drained |-> nodes.drained - 1, down |-> nodes.down] /\ nodes.drained > 0
      BY <2>1, <2>3, Pools
    <3>. QED
      BY <3>1, Pools
  <2>. QED
    BY <2>2, <2>3
<1>3. CASE NodeAllocated
  <2>1. nodes' = [total |-> nodes.total, idle |-> nodes.idle - 1,
                  drained |-> nodes.drained, down |-> nodes.down] /\ nodes.idle > 0
    BY <1>3, Pools DEF NodeAllocated
  <2>. QED
    BY <2>1, Pools
<1>4. CASE NodeReleased
  <2>1. nodes' = [total |-> nodes.total, idle |-> nodes.idle + 1,
                  drained |-> nodes.drained, down |-> nodes.down] /\ Allocated > 0
    BY <1>4, Pools DEF NodeReleased
  <2>. QED
    BY <2>1, Pools DEF Allocated
<1>. QED
  BY <1>1, <1>2, <1>3, <1>4

LEMMA SiteStep == SiteType /\ [Next]_site => SiteType'
<1>. SUFFICES ASSUME SiteType, [Next]_site PROVE SiteType'
  OBVIOUS
<1>1. CASE NodeLost \/ NodeReturns \/ NodeAllocated \/ NodeReleased
  <2>1. UNCHANGED <<parts, jobs, maintenance>>
    BY <1>1 DEF NodeLost, NodeReturns, NodeAllocated, NodeReleased
  <2>. QED
    BY <1>1, <2>1, NodesStep DEF SiteType
<1>2. CASE DemandGrows \/ DemandFalls
  BY <1>2 DEF DemandGrows, DemandFalls, SiteType
<1>3. CASE PartitionsChange
  BY <1>3 DEF PartitionsChange, SiteType
<1>4. CASE OperatorTouchesFile
  BY <1>4 DEF OperatorTouchesFile, SiteType
<1>5. CASE UNCHANGED site
  BY <1>5 DEF site, SiteType
<1>. QED
  BY <1>1, <1>2, <1>3, <1>4, <1>5 DEF Next

-----------------------------------------------------------------------------
(***************************************************************************)
(* The verdict as a number, from what it depends on.                       *)
(***************************************************************************)
LEMMA Ranks ==
  /\ Rank("ready") = 2 /\ Rank("limited") = 1 /\ Rank("draining") = 1
  /\ Rank("unknown") = 0 /\ Rank("unavailable") = 0
  /\ PressureRank("low") = 0 /\ PressureRank("normal") = 1
  /\ PressureRank("high") = 2 /\ PressureRank("critical") = 3
BY DEF Rank, PressureRank

Verdict(b, total, unhealthy, empty, noIdle, critical) ==
  IF b THEN 1
  ELSE IF total = 0 \/ 2 * unhealthy > total THEN 0
  ELSE IF 5 * unhealthy > total THEN 1
  ELSE IF empty THEN 0
  ELSE IF noIdle \/ critical \/ FedState = "INACTIVE" THEN 1
  ELSE 2

LEMMA StatusRank ==
  ASSUME NEW m, NEW b \in BOOLEAN
  PROVE  Rank(Status(m, TRUE, b)) =
           Verdict(b, m.nodes.total, Unhealthy(m.nodes), NoPartition(m), NoIdleNode(m),
                   QueuePressure(m) = "critical")
BY Ranks, Zenon DEF Status, Verdict

-----------------------------------------------------------------------------
(***************************************************************************)
(* The pressure of the queue.                                              *)
(***************************************************************************)
LEMMA PressureMonotone ==
  ASSUME NEW m, NEW n, m.nodes.total = n.nodes.total, m.nodes.total \in Nat,
         m.jobs.pending \in Nat, m.jobs.running \in Nat,
         n.jobs.pending \in Nat, n.jobs.running \in Nat,
         n.jobs.pending >= m.jobs.pending, n.jobs.running <= m.jobs.running,
         n.jobs.pending > 0
  PROVE  /\ PressureRank(QueuePressure(m)) <= PressureRank(QueuePressure(n))
         /\ QueuePressure(m) = "critical" => QueuePressure(n) = "critical"
<1>1. /\ Exceeds(m.jobs, 1000, 9) => Exceeds(n.jobs, 1000, 9)
      /\ Exceeds(m.jobs, 500, 7) => Exceeds(n.jobs, 500, 7)
      /\ Exceeds(m.jobs, 100, 5) => Exceeds(n.jobs, 100, 5)
  BY DEF Exceeds
<1>2. n.nodes.total = 0 \/ n.jobs.pending + n.jobs.running = 0 => m.nodes.total = 0
  OBVIOUS
<1>3. /\ PressureRank(QueuePressure(m)) \in {0, 1, 2, 3}
      /\ PressureRank(QueuePressure(n)) \in {0, 1, 2, 3}
  BY Ranks DEF QueuePressure
<1>4. CASE m.nodes.total = 0 \/ m.jobs.pending + m.jobs.running = 0
  <2>1. QueuePressure(m) = "low"
    BY <1>4 DEF QueuePressure
  <2>. QED
    BY <1>3, <2>1, Ranks
<1>5. CASE ~(m.nodes.total = 0 \/ m.jobs.pending + m.jobs.running = 0)
  <2>0. ~(n.nodes.total = 0 \/ n.jobs.pending + n.jobs.running = 0)
    BY <1>2, <1>5
  <2>1. CASE Exceeds(n.jobs, 1000, 9)
    <3>1. QueuePressure(n) = "critical"
      BY <2>0, <2>1 DEF QueuePressure
    <3>. QED
      BY <1>3, <3>1, Ranks
  <2>2. CASE ~Exceeds(n.jobs, 1000, 9) /\ Exceeds(n.jobs, 500, 7)
    <3>1. QueuePressure(n) = "high" /\ QueuePressure(m) \in {"high", "normal", "low"}
      BY <1>1, <1>5, <2>0, <2>2 DEF QueuePressure
    <3>. QED
      BY <3>1, Ranks
  <2>3. CASE ~Exceeds(n.jobs, 1000, 9) /\ ~Exceeds(n.jobs, 500, 7) /\ Exceeds(n.jobs, 100, 5)
    <3>1. QueuePressure(n) = "normal" /\ QueuePressure(m) \in {"normal", "low"}
      BY <1>1, <1>5, <2>0, <2>3 DEF QueuePressure
    <3>. QED
      BY <3>1, Ranks
  <2>4. CASE ~Exceeds(n.jobs, 1000, 9) /\ ~Exceeds(n.jobs, 500, 7) /\ ~Exceeds(n.jobs, 100, 5)
    <3>1. QueuePressure(n) = "low" /\ QueuePressure(m) = "low"
      BY <1>1, <1>5, <2>0, <2>4 DEF QueuePressure
    <3>. QED
      BY <3>1, Ranks
  <2>. QED
    BY <2>1, <2>2, <2>3, <2>4
<1>. QED
  BY <1>4, <1>5

-----------------------------------------------------------------------------
(***************************************************************************)
(* The theorems on the published verdict.                                  *)
(***************************************************************************)
LEMMA ReadyMeans == SiteType => ReadyIsJustified
<1>. SUFFICES ASSUME SiteType, status = "ready"
              PROVE  /\ signals.accepting /\ signals.pressure # "critical"
                     /\ nodes.total > 0 /\ 5 * (nodes.down + nodes.drained) <= nodes.total
                     /\ parts = {} \/ \E p \in parts : p.total > 0
                     /\ parts = {} \/ nodes.idle > 0 \/ \E p \in parts : p.idle > 0
  BY DEF ReadyIsJustified
<1>1. /\ ~maintenance /\ nodes.total # 0 /\ ~(5 * Unhealthy(nodes) > nodes.total)
      /\ ~NoPartition(metrics) /\ ~NoIdleNode(metrics) /\ QueuePressure(metrics) # "critical"
  BY DEF status, Status, metrics
<1>2. \A p \in parts : p.total \in Nat /\ p.idle \in Nat
  BY SiteAssumption DEF SiteType, Partitions
<1>3. nodes.total > 0 /\ 5 * (nodes.down + nodes.drained) <= nodes.total
  BY <1>1, Pools DEF Unhealthy
<1>4. parts = {} \/ \E p \in parts : p.total > 0
  BY <1>1, <1>2 DEF NoPartition, metrics
<1>5. parts = {} \/ nodes.idle > 0 \/ \E p \in parts : p.idle > 0
  BY <1>1, <1>2, Pools DEF NoIdleNode, metrics
<1>. QED
  BY <1>1, <1>3, <1>4, <1>5 DEF signals, Signals

(* A site is published as ready only with at most a fifth of its nodes     *)
(* unhealthy, usable partitions, no critical queue and an idle node.       *)
THEOREM ReadySites == Spec => []ReadyIsJustified
BY SiteInit, SiteStep, ReadyMeans, PTL DEF Spec

LEMMA LossStep ==
  ASSUME SiteType, NodeLost, ~NoPartition(metrics)
  PROVE  Rank(status') <= Rank(status)
<1>. DEFINE m == metrics
            n == [nodes |-> nodes', parts |-> parts, jobs |-> jobs]
<1>1. metrics' = n /\ maintenance' = maintenance /\ maintenance \in BOOLEAN
  BY DEF NodeLost, metrics, SiteType
<1>2. /\ status = Status(m, TRUE, maintenance) /\ status' = Status(n, TRUE, maintenance)
  BY <1>1 DEF status
<1>3. /\ m.nodes = nodes /\ m.parts = parts /\ m.jobs = jobs
      /\ n.nodes = nodes' /\ n.parts = parts /\ n.jobs = jobs
  BY DEF metrics
<1>4. /\ n.nodes.total = m.nodes.total /\ m.nodes.total \in Nat
      /\ Unhealthy(m.nodes) \in Nat /\ Unhealthy(n.nodes) \in Nat
      /\ Unhealthy(m.nodes) <= Unhealthy(n.nodes)
  BY <1>3, Pools, NodeLostEffect DEF Unhealthy
<1>5. NoIdleNode(m) => NoIdleNode(n)
  BY <1>3, Pools, NodeLostEffect DEF NoIdleNode
<1>6. (NoPartition(n) <=> NoPartition(m)) /\ ~NoPartition(m)
  BY <1>3 DEF NoPartition
<1>7. QueuePressure(n) = QueuePressure(m)
  BY <1>3, <1>4 DEF QueuePressure
<1>. DEFINE R(x) == Verdict(maintenance, x.nodes.total, Unhealthy(x.nodes), FALSE,
                            NoIdleNode(x), QueuePressure(x) = "critical")
<1>8. Rank(status) = R(m) /\ Rank(status') = R(n)
  <2>1. NoPartition(m) = FALSE /\ NoPartition(n) = FALSE
    BY <1>6 DEF NoPartition
  <2>2. /\ Rank(Status(m, TRUE, maintenance))
             = Verdict(maintenance, m.nodes.total, Unhealthy(m.nodes), NoPartition(m), NoIdleNode(m),
                       QueuePressure(m) = "critical")
        /\ Rank(Status(n, TRUE, maintenance))
             = Verdict(maintenance, n.nodes.total, Unhealthy(n.nodes), NoPartition(n), NoIdleNode(n),
                       QueuePressure(n) = "critical")
    BY <1>1, StatusRank
  <2>. QED
    BY <1>2, <2>1, <2>2
<1>9. NoIdleNode(m) \in BOOLEAN /\ NoIdleNode(n) \in BOOLEAN
  BY DEF NoIdleNode
<1>10. R(n) <= R(m)
  BY <1>1, <1>4, <1>5, <1>7, <1>9 DEF Verdict
<1>. QED
  BY <1>8, <1>10

(* Losing a node never improves the published status of a site with a      *)
(* usable partition list.                                                  *)
THEOREM LossNeverHelps == Spec => NodeLossNeverHelps
<1>1. SiteType /\ [Next]_site => [NodeLost /\ ~NoPartition(metrics) => Rank(status') <= Rank(status)]_site
  BY LossStep
<1>. QED
  BY <1>1, SiteInit, SiteStep, PTL DEF Spec, NodeLossNeverHelps

LEMMA DemandStep ==
  ASSUME SiteType, SiteType', DemandGrows, jobs'.pending > 0
  PROVE  /\ PressureRank(signals.pressure) <= PressureRank(signals'.pressure)
         /\ Rank(status') <= Rank(status)
<1>. DEFINE m == metrics
            n == [nodes |-> nodes, parts |-> parts, jobs |-> jobs']
<1>1. metrics' = n /\ maintenance' = maintenance /\ maintenance \in BOOLEAN
  BY DEF DemandGrows, metrics, SiteType
<1>2. /\ status = Status(m, TRUE, maintenance) /\ status' = Status(n, TRUE, maintenance)
      /\ signals.pressure = QueuePressure(m) /\ signals'.pressure = QueuePressure(n)
  BY <1>1 DEF status, signals, Signals
<1>3. /\ m.nodes = nodes /\ m.parts = parts /\ m.jobs = jobs
      /\ n.nodes = nodes /\ n.parts = parts /\ n.jobs = jobs'
  BY DEF metrics
<1>4. /\ m.jobs.pending \in Nat /\ m.jobs.running \in Nat
      /\ n.jobs.pending \in Nat /\ n.jobs.running \in Nat
      /\ m.nodes.total \in Nat /\ Unhealthy(nodes) \in Nat
  <2>1. jobs \in [pending : Nat, running : Nat] /\ jobs' \in [pending : Nat, running : Nat]
    BY SiteAssumption DEF SiteType
  <2>. QED
    BY <1>3, <2>1, Pools DEF Unhealthy
<1>5. /\ PressureRank(QueuePressure(m)) <= PressureRank(QueuePressure(n))
      /\ QueuePressure(m) = "critical" => QueuePressure(n) = "critical"
  BY <1>3, <1>4, PressureMonotone DEF DemandGrows
<1>6. NoIdleNode(n) = NoIdleNode(m) /\ NoPartition(n) = NoPartition(m)
  BY <1>3 DEF NoIdleNode, NoPartition
<1>7. /\ Rank(Status(m, TRUE, maintenance))
           = Verdict(maintenance, m.nodes.total, Unhealthy(m.nodes), NoPartition(m), NoIdleNode(m),
                     QueuePressure(m) = "critical")
      /\ Rank(Status(n, TRUE, maintenance))
           = Verdict(maintenance, n.nodes.total, Unhealthy(n.nodes), NoPartition(n), NoIdleNode(n),
                     QueuePressure(n) = "critical")
  BY <1>1, StatusRank
<1>. DEFINE R(critical) == Verdict(maintenance, nodes.total, Unhealthy(nodes), NoPartition(m),
                                  NoIdleNode(m), critical)
<1>8. Rank(status) = R(QueuePressure(m) = "critical") /\ Rank(status') = R(QueuePressure(n) = "critical")
  BY <1>2, <1>3, <1>6, <1>7
<1>9. R(QueuePressure(n) = "critical") <= R(QueuePressure(m) = "critical")
  <2>1. NoPartition(m) \in BOOLEAN /\ NoIdleNode(m) \in BOOLEAN
    BY DEF NoPartition, NoIdleNode
  <2>2. nodes.total \in Nat
    BY Pools
  <2>. QED
    BY <1>1, <1>4, <1>5, <2>1, <2>2 DEF Verdict
<1>. QED
  BY <1>2, <1>5, <1>8, <1>9

(* More waiting and fewer running jobs never lower the queue pressure nor  *)
(* improve the status, unless no job waits any more.                       *)
THEOREM DemandIsHeard == Spec => DemandNeverRelieves
<1>1. SiteType /\ SiteType' /\ [Next]_site =>
        [DemandGrows /\ jobs'.pending > 0 =>
           /\ PressureRank(signals.pressure) <= PressureRank(signals'.pressure)
           /\ Rank(status') <= Rank(status)]_site
  BY DemandStep
<1>. QED
  BY <1>1, SiteInit, SiteStep, PTL DEF Spec, DemandNeverRelieves

-----------------------------------------------------------------------------
(***************************************************************************)
(* The prediction.  A wait is a product over the pressure and the jobs     *)
(* waiting, divided by the nodes.                                          *)
(***************************************************************************)
LEMMA ProductMonotone ==
  ASSUME NEW a \in Nat, NEW b \in Nat, NEW c \in Nat, NEW d \in Nat, a <= b, c <= d
  PROVE  a * c <= b * d
<1>1. PICK x \in Nat : b = a + x
  <2>1. b - a \in Nat /\ b = a + (b - a)
    OBVIOUS
  <2>. QED
    BY <2>1
<1>2. PICK y \in Nat : d = c + y
  <2>1. d - c \in Nat /\ d = c + (d - c)
    OBVIOUS
  <2>. QED
    BY <2>1
<1>3. a * y \in Nat /\ x * c \in Nat /\ x * y \in Nat /\ a * c \in Nat
  OBVIOUS
<1>4. b * d = a * c + a * y + x * c + x * y
  BY <1>1, <1>2
<1>. QED
  BY <1>3, <1>4

Hints == [idle : Nat, pending : Nat, running : Nat]

LEMMA NodesAvailable ==
  ASSUME NEW h \in Hints, NEW g \in Hints, g.idle <= h.idle
  PROVE  /\ AvailableNodes(h) \in Nat /\ AvailableNodes(g) \in Nat
         /\ AvailableNodes(g) > 0 /\ AvailableNodes(g) <= AvailableNodes(h)
BY DEF Hints, AvailableNodes

LEMMA Multipliers ==
  /\ Multiplier("low") = 5 /\ Multiplier("normal") = 10
  /\ Multiplier("high") = 20 /\ Multiplier("critical") = 50
BY DEF Multiplier

LEMMA MultiplierMonotone ==
  ASSUME NEW h \in Hints, NEW g \in Hints, g.idle <= h.idle, Load(g) >= Load(h)
  PROVE  /\ Multiplier(PredictedPressure(h)) \in Nat
         /\ Multiplier(PredictedPressure(g)) \in Nat
         /\ Multiplier(PredictedPressure(h)) <= Multiplier(PredictedPressure(g))
<1>1. Load(h) \in Nat /\ Load(g) \in Nat
  BY DEF Hints, Load
<1>2. /\ Load(h) >= 9 * AvailableNodes(h) => Load(g) >= 9 * AvailableNodes(g)
      /\ Load(h) >= 7 * AvailableNodes(h) => Load(g) >= 7 * AvailableNodes(g)
      /\ 2 * Load(h) >= AvailableNodes(h) => 2 * Load(g) >= AvailableNodes(g)
  BY <1>1, NodesAvailable
<1>3. CASE Load(g) >= 9 * AvailableNodes(g)
  <2>1. PredictedPressure(g) = "critical"
    BY <1>3 DEF PredictedPressure
  <2>2. PredictedPressure(h) \in {"low", "normal", "high", "critical"}
    BY DEF PredictedPressure
  <2>. QED
    BY <2>1, <2>2, Multipliers
<1>4. CASE ~(Load(g) >= 9 * AvailableNodes(g)) /\ Load(g) >= 7 * AvailableNodes(g)
  <2>1. PredictedPressure(g) = "high" /\ PredictedPressure(h) \in {"low", "normal", "high"}
    BY <1>2, <1>4 DEF PredictedPressure
  <2>. QED
    BY <2>1, Multipliers
<1>5. CASE ~(Load(g) >= 9 * AvailableNodes(g)) /\ ~(Load(g) >= 7 * AvailableNodes(g))
           /\ 2 * Load(g) >= AvailableNodes(g)
  <2>1. PredictedPressure(g) = "normal" /\ PredictedPressure(h) \in {"low", "normal"}
    BY <1>2, <1>5 DEF PredictedPressure
  <2>. QED
    BY <2>1, Multipliers
<1>6. CASE ~(Load(g) >= 9 * AvailableNodes(g)) /\ ~(Load(g) >= 7 * AvailableNodes(g))
           /\ ~(2 * Load(g) >= AvailableNodes(g))
  <2>1. PredictedPressure(g) = "low" /\ PredictedPressure(h) = "low"
    BY <1>2, <1>6 DEF PredictedPressure
  <2>. QED
    BY <2>1, Multipliers
<1>. QED
  BY <1>3, <1>4, <1>5, <1>6

(* What a load that grew and nodes that shrank do to the wait.             *)
LEMMA WaitMonotone ==
  ASSUME NEW h \in Hints, NEW g \in Hints, g.idle <= h.idle,
         g.pending >= h.pending, Load(g) >= Load(h)
  PROVE  NoLonger(EstimatedWait(h, PredictedPressure(h)), EstimatedWait(g, PredictedPressure(g)))
<1>. DEFINE M == Multiplier(PredictedPressure(h))
            N == Multiplier(PredictedPressure(g))
            num  == h.pending * BaseWait * M
            den  == 10 * AvailableNodes(h)
            num2 == g.pending * BaseWait * N
            den2 == 10 * AvailableNodes(g)
<1>1. /\ h.pending \in Nat /\ g.pending \in Nat /\ M \in Nat /\ N \in Nat /\ M <= N
      /\ BaseWait = 3600
  BY MultiplierMonotone DEF Hints, BaseWait
<1>2. num \in Nat /\ num2 \in Nat /\ num <= num2
  <2>1. /\ h.pending * 3600 \in Nat /\ g.pending * 3600 \in Nat
        /\ h.pending * 3600 <= g.pending * 3600
    BY <1>1
  <2>2. (h.pending * 3600) * M <= (g.pending * 3600) * N
    BY <1>1, <2>1, ProductMonotone
  <2>. QED
    BY <1>1, <2>1, <2>2
<1>3. den \in Nat /\ den2 \in Nat /\ den2 <= den /\ den2 > 0
  BY NodesAvailable
<1>4. /\ EstimatedWait(h, PredictedPressure(h))
           = IF num > DayCap * den THEN [num |-> DayCap, den |-> 1] ELSE [num |-> num, den |-> den]
      /\ EstimatedWait(g, PredictedPressure(g))
           = IF num2 > DayCap * den2 THEN [num |-> DayCap, den |-> 1] ELSE [num |-> num2, den |-> den2]
  BY DEF EstimatedWait
<1>. HIDE DEF M, N, num, den, num2, den2
<1>5. CASE num2 > DayCap * den2
  BY <1>2, <1>3, <1>4, <1>5 DEF NoLonger, DayCap
<1>6. CASE ~(num2 > DayCap * den2)
  <2>1. ~(num > DayCap * den)
    BY <1>2, <1>3, <1>6 DEF DayCap
  <2>2. num * den2 <= num2 * den
    BY <1>2, <1>3, ProductMonotone
  <2>. QED
    BY <1>4, <1>6, <2>1, <2>2 DEF NoLonger
<1>. QED
  BY <1>5, <1>6

LEMMA HintType == SiteType => hint \in Hints
BY Pools, SiteAssumption DEF SiteType, hint, Hints

(* Whatever happens to the site's nodes and jobs, a hint with more load    *)
(* and no more idle nodes never shortens the wait predicted from it.       *)
THEOREM WaitIsMonotone == Spec => WaitFollowsLoad
<1>1. SiteType /\ SiteType' =>
        (/\ hint'.idle <= hint.idle
         /\ hint'.pending >= hint.pending /\ Load(hint') >= Load(hint)
         => NoLonger(prediction.wait, prediction.wait'))
  <2>. SUFFICES ASSUME SiteType, SiteType', hint'.idle <= hint.idle,
                       hint'.pending >= hint.pending, Load(hint') >= Load(hint)
                PROVE  NoLonger(prediction.wait, prediction.wait')
    OBVIOUS
  <2>0. (SiteType => hint \in Hints)'
    BY HintType, PTL
  <2>1. hint \in Hints /\ hint' \in Hints
    BY <2>0, HintType
  <2>2. /\ prediction.wait = EstimatedWait(hint, PredictedPressure(hint))
        /\ prediction.wait' = EstimatedWait(hint', PredictedPressure(hint'))
    BY DEF prediction, Predict
  <2>. QED
    BY <2>1, <2>2, WaitMonotone
<1>. QED
  BY <1>1, SiteInit, SiteStep, PTL DEF Spec, WaitFollowsLoad
=============================================================================
