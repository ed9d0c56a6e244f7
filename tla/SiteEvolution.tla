--------------------------- MODULE SiteEvolution ---------------------------
(***************************************************************************)
(* A site as Slurm reports it, changing by one event at a time, seen       *)
(* through the normalizer: what the published status and queue pressure    *)
(* may do when a node is lost, when demand grows, when an operator touches *)
(* the maintenance file; and what another member of the federation         *)
(* predicts from the capacity hint it published.  The site itself is       *)
(* external; what is checked is how Normalizer and QueuePredictor judge    *)
(* two successive states of it.                                            *)
(***************************************************************************)
EXTENDS Normalizer, QueuePredictor

CONSTANTS TotalNodes,      \* nodes Slurm lists
          JobLevels,       \* numbers of pending or running jobs considered
          PartitionTables  \* partition lists the site may report

ASSUME SiteAssumption == /\ TotalNodes \in Nat
                         /\ JobLevels \subseteq Nat
                         /\ \A t \in PartitionTables :
                              \A p \in t : p \in Partitions

VARIABLES nodes, parts, jobs, maintenance

site == <<nodes, parts, jobs, maintenance>>

metrics == [nodes |-> nodes, parts |-> parts, jobs |-> jobs]

status == Status(metrics, TRUE, maintenance)

signals == Signals(metrics, TRUE, maintenance)

(* The part of the hint a prediction uses, and the prediction for it. *)
hint == [idle |-> nodes.idle, pending |-> jobs.pending, running |-> jobs.running]

prediction == Predict(hint, 1, hint, hint)

Allocated == nodes.total - nodes.idle - nodes.drained - nodes.down

Init == /\ nodes = [total |-> TotalNodes, idle |-> TotalNodes,
                    drained |-> 0, down |-> 0]
        /\ parts \in PartitionTables
        /\ jobs \in [pending : JobLevels, running : JobLevels]
        /\ maintenance = FALSE

(***************************************************************************)
(* A node leaves service, from the idle pool or from under a job; it comes *)
(* back idle.                                                              *)
(***************************************************************************)
NodeLost ==
  /\ \E why \in {"down", "drained"} :
       \/ /\ nodes.idle > 0
          /\ nodes' = [nodes EXCEPT !.idle = @ - 1, ![why] = @ + 1]
       \/ /\ Allocated > 0
          /\ nodes' = [nodes EXCEPT ![why] = @ + 1]
  /\ UNCHANGED <<parts, jobs, maintenance>>

NodeReturns ==
  /\ \E why \in {"down", "drained"} :
       /\ nodes[why] > 0
       /\ nodes' = [nodes EXCEPT ![why] = @ - 1, !.idle = @ + 1]
  /\ UNCHANGED <<parts, jobs, maintenance>>

NodeAllocated == /\ nodes.idle > 0
                 /\ nodes' = [nodes EXCEPT !.idle = @ - 1]
                 /\ UNCHANGED <<parts, jobs, maintenance>>

NodeReleased == /\ Allocated > 0
                /\ nodes' = [nodes EXCEPT !.idle = @ + 1]
                /\ UNCHANGED <<parts, jobs, maintenance>>

(***************************************************************************)
(* More jobs wait and no more run than before, or the other way round.     *)
(***************************************************************************)
DemandGrows == /\ jobs' \in [pending : JobLevels, running : JobLevels]
               /\ jobs'.pending >= jobs.pending
               /\ jobs'.running <= jobs.running
               /\ UNCHANGED <<nodes, parts, maintenance>>

DemandFalls == /\ jobs' \in [pending : JobLevels, running : JobLevels]
               /\ jobs'.pending <= jobs.pending
               /\ jobs'.running >= jobs.running
               /\ UNCHANGED <<nodes, parts, maintenance>>

PartitionsChange == /\ parts' \in PartitionTables
                    /\ UNCHANGED <<nodes, jobs, maintenance>>

OperatorTouchesFile == /\ maintenance' = ~maintenance
                       /\ UNCHANGED <<nodes, parts, jobs>>

Next == \/ NodeLost \/ NodeReturns \/ NodeAllocated \/ NodeReleased
        \/ DemandGrows \/ DemandFalls \/ PartitionsChange
        \/ OperatorTouchesFile

Spec == Init /\ [][Next]_site

-----------------------------------------------------------------------------
(* Losing a node never makes the site look better, provided the partition  *)
(* list is usable: the thresholds on the unhealthy ratio and the idle-node *)
(* rule of _determine_status stand in an order that keeps the verdict      *)
(* monotone.  (With a list of empty partitions it is not: below the 20%    *)
(* threshold such a site is unavailable, above it limited.)                *)
NodeLossNeverHelps ==
  [][NodeLost /\ ~NoPartition(metrics) => Rank(status') <= Rank(status)]_site

(* More waiting and less running jobs never lower the queue pressure, and  *)
(* so never improve the status: the two criteria (absolute count, ratio)   *)
(* of _determine_queue_pressure do not work against each other, unless the *)
(* queue empties altogether.                                               *)
DemandNeverRelieves ==
  [][DemandGrows /\ jobs'.pending > 0 =>
       /\ PressureRank(signals.pressure) <= PressureRank(signals'.pressure)
       /\ Rank(status') <= Rank(status)]_site

(* A ready site has what its own signals and counts promise: at most a     *)
(* fifth of its nodes unhealthy, a usable partition list, no critical      *)
(* queue, and it accepts jobs.                                             *)
ReadyIsJustified ==
  status = "ready" =>
    /\ signals.accepting /\ signals.pressure # "critical"
    /\ nodes.total > 0 /\ 5 * (nodes.down + nodes.drained) <= nodes.total
    /\ parts = {} \/ \E p \in parts : p.total > 0
    /\ parts = {} \/ nodes.idle > 0 \/ \E p \in parts : p.idle > 0

(* Requeued or newly submitted jobs, lost or allocated nodes, in any       *)
(* combination, never shorten the wait predicted for the site: the jump of *)
(* the multiplier from one pressure level to the next and the cap at a day *)
(* do not undo what the ratio says.                                        *)
WaitFollowsLoad ==
  [][/\ hint'.idle <= hint.idle
     /\ hint'.pending >= hint.pending /\ Load(hint') >= Load(hint)
     => NoLonger(prediction.wait, prediction.wait')]_site
=============================================================================
