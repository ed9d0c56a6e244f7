--------------------------- MODULE SlurmCollector ---------------------------
(***************************************************************************)
(* SlurmCollector (slurmheartbeat/client/collector.py): one collection is  *)
(* four requests to slurmrestd, run concurrently; each writes its part of  *)
(* one ClusterMetrics object when its answer comes, and each swallows      *)
(* every exception, leaving its part at the default.                       *)
(*                                                                         *)
(* The cluster behind slurmrestd is external: it may change between two    *)
(* answers of the same collection.  An answer carries what the cluster was *)
(* when slurmrestd produced it; the moment the client reads it changes     *)
(* nothing, since nobody looks at the metrics before the gather returns.   *)
(***************************************************************************)
EXTENDS Normalizer, FiniteSets

CONSTANTS ClusterStates   \* the states Slurm may be in

(***************************************************************************)
(* A state of Slurm: slurmrestd answers (up); the nodes and jobs it lists; *)
(* the counts of each partition.  Of the text of a node's state, which may *)
(* name several, the code asks which of four words it contains; a job's    *)
(* state it compares as a whole.  In a partition list that is not sane a   *)
(* count the normalizer compares is null; the collector copies it as it is.*)
(***************************************************************************)
StateWords == {"idle", "allocated", "drained", "down"}

ASSUME ClusterStatesAssumption ==
  \A c \in ClusterStates :
    /\ c = [up |-> c.up, sane |-> c.sane, nodes |-> c.nodes,
            parts |-> c.parts, jobs |-> c.jobs]
    /\ c.up \in BOOLEAN /\ c.sane \in BOOLEAN
    /\ IsFiniteSet(DOMAIN c.nodes) /\ c.nodes \in [DOMAIN c.nodes -> SUBSET StateWords]
    /\ \A p \in c.parts : p \in Partitions
    /\ IsFiniteSet(DOMAIN c.jobs)

Requests == {"info", "nodes", "parts", "jobs"}

VARIABLES cluster,   \* external: what slurmrestd would answer now
          pending,   \* requests of the running collection without an outcome
          metrics    \* the ClusterMetrics object being filled

collectorVars == <<pending, metrics>>

NoNodes == [total |-> 0, idle |-> 0, drained |-> 0, down |-> 0]

NoJobs == [pending |-> 0, running |-> 0]

ClusterMetrics == [named : BOOLEAN, nodes : NodeCounts,
                   parts : SUBSET Partitions, sane : BOOLEAN, jobs : JobCounts]

(* A new ClusterMetrics(): the defaults of the dataclasses. *)
DefaultMetrics == [named |-> FALSE, nodes |-> NoNodes, parts |-> {},
                   sane |-> TRUE, jobs |-> NoJobs]

CollectorInit == /\ cluster \in ClusterStates
                 /\ pending = {}
                 /\ metrics = DefaultMetrics

(* Mutant of StartCollect: the metrics object kept from the last round. *)
StartCollect_Reuse == /\ pending' = Requests
                      /\ UNCHANGED metrics

StartCollect == /\ pending' = Requests
                /\ metrics' = DefaultMetrics

(***************************************************************************)
(* How nodes and jobs are counted.  The words are tried in turn and the    *)
(* first one found decides, so a node that is both idle and drained counts *)
(* as idle; one with none of them counts for the total only.               *)
(***************************************************************************)
CountedAs(nodes, word, before) ==
  Cardinality({n \in DOMAIN nodes : word \in nodes[n] /\ nodes[n] \cap before = {}})

NodeStats(nodes) ==
  [total   |-> Cardinality(DOMAIN nodes),
   idle    |-> CountedAs(nodes, "idle", {}),
   drained |-> CountedAs(nodes, "drained", {"idle", "allocated"}),
   down    |-> CountedAs(nodes, "down", {"idle", "allocated", "drained"})]

JobStats(jobs) == [pending |-> Cardinality({j \in DOMAIN jobs : jobs[j] = "PD"}),
                   running |-> Cardinality({j \in DOMAIN jobs : jobs[j] = "R"})]

(***************************************************************************)
(* The answer of request r arrives and is parsed.                          *)
(***************************************************************************)
Sampled(r) ==
  CASE r = "info"  -> [metrics EXCEPT !.named = TRUE]
    [] r = "nodes" -> [metrics EXCEPT !.nodes = NodeStats(cluster.nodes)]
    [] r = "parts" -> [metrics EXCEPT !.parts = cluster.parts,
                                      !.sane = cluster.sane]
    [] r = "jobs"  -> [metrics EXCEPT !.jobs = JobStats(cluster.jobs)]

Answer(r) == /\ r \in pending /\ cluster.up
             /\ metrics' = Sampled(r)
             /\ pending' = pending \ {r}

(***************************************************************************)
(* Timeout, refused connection, error status or unreadable body: logged    *)
(* and forgotten, the gather sees a normal return.                         *)
(***************************************************************************)
Fail(r) == /\ r \in pending
           /\ pending' = pending \ {r}
           /\ UNCHANGED metrics

Collected == pending = {}

(***************************************************************************)
(* collect_success.  The exceptions the gather returned: none, because     *)
(* every _collect_ coroutine catches its own.                              *)
(***************************************************************************)
Errors == {}

CollectSuccess == Errors = {} \/ (metrics.named /\ metrics.nodes.total > 0)
=============================================================================
