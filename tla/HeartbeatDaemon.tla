--------------------------- MODULE HeartbeatDaemon ---------------------------
(***************************************************************************)
(* HeartbeatDaemon (slurmheartbeat/main.py): the loop that collects,       *)
(* normalizes, publishes, sends heartbeats, sleeps and fetches the         *)
(* federation's capacities, one after the other in one task, together with *)
(* the publisher that answers GET /readiness meanwhile, the maintenance    *)
(* file an operator touches, Slurm, and the clock.  The daemon modelled is *)
(* one that publishes: mode publisher or both, server.enabled.  It begins  *)
(* where start() has brought the publisher up and created the loop's task. *)
(*                                                                         *)
(* Composition: the collector (SlurmCollector) and the publisher           *)
(* (ReadinessPublisher) are extended; sending and fetching are modelled in *)
(* HeartbeatSender and FederationDiscovery and are here the time they take *)
(* from the loop: up to SendMax and FetchMax ticks.                        *)
(*                                                                         *)
(* Time.  Tick lets one tick pass.  timer is what is left of the longest   *)
(* time the current await may take; a tick needs timer > 0, so an await    *)
(* ends at the latest when it is used up (the clients' timeouts), a sleep  *)
(* exactly then.                                                           *)
(***************************************************************************)
EXTENDS SlurmCollector, ReadinessPublisher

CONSTANTS Interval,    \* client.interval_seconds
          CollectMax,  \* longest collection: four requests at once
          SendMax,     \* longest send_to_all; see RoundBound of HeartbeatSender
          FetchMax,    \* longest fetch_all_peers
          Sending,     \* is there a sender?  mode both, client.enabled
          Federated    \* are the federation components there?

ASSUME DaemonAssumption ==
  /\ Interval \in Nat \ {0}
  /\ CollectMax \in Nat /\ SendMax \in Nat /\ FetchMax \in Nat
  /\ Sending \in BOOLEAN /\ Federated \in BOOLEAN
  /\ TTL + CollectMax < AgeCap

VARIABLES pc,           \* where the loop awaits
          timer,        \* ticks the await may still take
          running,      \* self._running
          maintenance,  \* the maintenance file exists
          maintAge,     \* history: ticks since the file last changed
          clusterAge    \* history: ticks since Slurm last changed

loopVars == <<pc, timer>>
worldVars == <<maintenance, maintAge, clusterAge>>
vars == <<cluster, pending, metrics, doc, serving, reply,
          pc, timer, running, maintenance, maintAge, clusterAge>>

PCs == {"start", "collect", "send", "sleep", "fetch", "recover", "stopped"}

Await(where, ticks) == /\ pc' = where
                       /\ timer' = ticks

Init == /\ CollectorInit /\ PublisherInit
        /\ pc = "start" /\ timer = 0 /\ running = TRUE
        /\ maintenance \in BOOLEAN
        /\ maintAge = AgeCap /\ clusterAge = AgeCap

(***************************************************************************)
(* Top of the loop: while self._running.                                   *)
(***************************************************************************)
NextRound == IF running
             THEN StartCollect /\ Await("collect", CollectMax)
             ELSE Await("stopped", 0) /\ UNCHANGED collectorVars

(***************************************************************************)
(* One request of the collection gets its outcome.                         *)
(***************************************************************************)
CollectAnswer(r) == /\ pc = "collect"
                    /\ Answer(r)
                    /\ reply' = NoReply
                    /\ UNCHANGED <<cluster, doc, serving, loopVars, running, worldVars>>

CollectFail(r) == /\ pc = "collect"
                  /\ Fail(r)
                  /\ reply' = NoReply
                  /\ UNCHANGED <<cluster, doc, serving, loopVars, running, worldVars>>

(***************************************************************************)
(* collect() returns: the maintenance file is read, the document built and *)
(* published, and the loop goes on to send or to sleep, all without        *)
(* suspending.  The document carries the status, the signals and the       *)
(* capacity hint; the reason texts are left out.                           *)
(***************************************************************************)
Readiness == [status  |-> Status(metrics, CollectSuccess, maintenance),
              signals |-> Signals(metrics, CollectSuccess, maintenance),
              hint    |-> [nodes |-> metrics.nodes, jobs |-> metrics.jobs],
              sig     |-> "none",
              age     |-> 0]

Publish == /\ pc = "collect" /\ Collected
           /\ metrics.sane
           /\ UpdateReadiness(Readiness)
           /\ IF Sending THEN Await("send", SendMax)
                         ELSE Await("sleep", Interval)
           /\ reply' = NoReply
           /\ UNCHANGED <<cluster, collectorVars, serving, running, worldVars>>

(***************************************************************************)
(* A null count in the partition list makes the normalizer raise: nothing  *)
(* is published, the exception is logged, and the loop sleeps.             *)
(***************************************************************************)
(* Mutant of NormalizeRaises: the exception ends the loop's task. *)
NormalizeRaises_Ends == /\ pc = "collect" /\ Collected
                        /\ ~metrics.sane
                        /\ Await("stopped", 0)
                        /\ reply' = NoReply
                        /\ UNCHANGED <<cluster, collectorVars, doc, serving, running, worldVars>>

NormalizeRaises == /\ pc = "collect" /\ Collected
                   /\ ~metrics.sane
                   /\ Await("recover", Interval)
                   /\ reply' = NoReply
                   /\ UNCHANGED <<cluster, collectorVars, doc, serving, running, worldVars>>

SendReturns == /\ pc = "send"
               /\ Await("sleep", Interval)
               /\ reply' = NoReply
               /\ UNCHANGED <<cluster, collectorVars, doc, serving, running, worldVars>>

(***************************************************************************)
(* The sleep is over: the federation's capacities are fetched, if it is    *)
(* enabled, and the next round starts.  What fetch_all_peers raises is     *)
(* caught and logged, so it always ends the same way for the loop.         *)
(* RoundBegins is the task's first step and the end of the sleep after an  *)
(* error: both go straight to the top of the loop.                         *)
(***************************************************************************)
WakeUp == /\ pc = "sleep" /\ timer = 0
          /\ IF Federated
             THEN Await("fetch", FetchMax) /\ UNCHANGED collectorVars
             ELSE NextRound
          /\ reply' = NoReply
          /\ UNCHANGED <<cluster, doc, serving, running, worldVars>>

FetchReturns == /\ pc = "fetch"
                /\ NextRound
                /\ reply' = NoReply
                /\ UNCHANGED <<cluster, doc, serving, running, worldVars>>

RoundBegins == /\ pc \in {"start", "recover"} /\ timer = 0
               /\ NextRound
               /\ reply' = NoReply
               /\ UNCHANGED <<cluster, doc, serving, running, worldVars>>

(***************************************************************************)
(* stop(): the loop's task is cancelled at the await it is in, with the    *)
(* requests it has under way; the publisher is stopped after that.         *)
(***************************************************************************)
(* Mutant of Stop: the flag is cleared but the task is not cancelled. *)
Stop_NoCancel == /\ running
                 /\ running' = FALSE
                 /\ reply' = NoReply
                 /\ UNCHANGED <<cluster, collectorVars, loopVars, doc, serving, worldVars>>

(* Mutant of Stop: the requests of the running collection are left alone. *)
Stop_Orphans == /\ running
                /\ running' = FALSE
                /\ Await("stopped", 0)
                /\ reply' = NoReply
                /\ UNCHANGED <<cluster, collectorVars, doc, serving, worldVars>>

Stop == /\ running
        /\ running' = FALSE
        /\ Await("stopped", 0)
        /\ pending' = {}
        /\ reply' = NoReply
        /\ UNCHANGED <<cluster, metrics, doc, serving, worldVars>>

StopSite == /\ ~running /\ pc = "stopped"
            /\ StopPublisher
            /\ reply' = NoReply
            /\ UNCHANGED <<cluster, collectorVars, loopVars, running, worldVars>>

Get(client) == /\ HandleReadiness(client)
               /\ UNCHANGED <<cluster, collectorVars, loopVars, running, worldVars>>

(***************************************************************************)
(* The world: Slurm changes, the operator creates or removes the file, a   *)
(* tick passes.                                                            *)
(***************************************************************************)
SlurmChanges == /\ cluster' \in ClusterStates \ {cluster}
                /\ clusterAge' = 0
                /\ reply' = NoReply
                /\ UNCHANGED <<collectorVars, doc, serving, loopVars, running,
                               maintenance, maintAge>>

OperatorTouchesFile == /\ maintenance' = ~maintenance
                       /\ maintAge' = 0
                       /\ reply' = NoReply
                       /\ UNCHANGED <<cluster, collectorVars, doc, serving, loopVars,
                                      running, clusterAge>>

Tick == /\ serving
        /\ pc # "stopped" => timer > 0
        /\ timer' = IF timer > 0 THEN timer - 1 ELSE 0
        /\ AgeDoc
        /\ maintAge' = Older(maintAge) /\ clusterAge' = Older(clusterAge)
        /\ reply' = NoReply
        /\ UNCHANGED <<cluster, collectorVars, serving, pc, running, maintenance>>

Collect == \E r \in Requests : CollectAnswer(r) \/ CollectFail(r)

Loop == \/ Collect \/ Publish \/ NormalizeRaises \/ SendReturns
        \/ WakeUp \/ FetchReturns \/ RoundBegins

World == SlurmChanges \/ OperatorTouchesFile \/ Tick

Next == \/ Loop \/ World
        \/ Stop \/ StopSite
        \/ \E client \in Clients \cup {NoCertificate} : Get(client)

Spec == Init /\ [][Next]_vars

(***************************************************************************)
(* The event loop runs whatever is ready and the clock does not stop.      *)
(***************************************************************************)
FairSpec == Spec /\ WF_vars(Loop) /\ WF_vars(Tick)

-----------------------------------------------------------------------------
Signal == [reachable : BOOLEAN, fedVisible : BOOLEAN, maintenance : BOOLEAN,
           accepting : BOOLEAN, pressure : Pressures, critical : BOOLEAN]

Document == [status : Statuses, signals : Signal,
             hint : [nodes : NodeCounts, jobs : JobCounts],
             sig : {"none", "valid", "broken"}, age : 0 .. AgeCap]

(* None is not a document. *)
ASSUME NoDocAssumption == NoDoc \notin Document

(* Every variable has the values the code can give it, and nothing is      *)
(* outstanding outside a collection.                                       *)
TypeOK ==
  /\ cluster \in ClusterStates
  /\ pending \subseteq Requests /\ (pc # "collect" => pending = {})
  /\ metrics \in ClusterMetrics
  /\ doc = NoDoc \/ doc \in Document
  /\ serving \in BOOLEAN /\ running \in BOOLEAN
  /\ reply \in [to : Clients \cup {NoCertificate}, code : {0, 200, 403, 503}]
  /\ pc \in PCs /\ timer \in Nat
  /\ maintenance \in BOOLEAN
  /\ maintAge \in 0 .. AgeCap /\ clusterAge \in 0 .. AgeCap

(* Degrade safely when data is stale (README.md:390): node counts in a     *)
(* document a client receives are those of the present cluster, or the     *)
(* cluster changed no longer ago than the time to live plus one            *)
(* collection, or the counts were not obtained and are all zero.           *)
NoStaleCapacity ==
  Served => \/ doc.hint.nodes \in {NoNodes, NodeStats(cluster.nodes)}
            \/ clusterAge <= TTL + CollectMax

(* Stay accurate during maintenance (README.md:388): once the file has     *)
(* been there for the time to live, no client is told that the site        *)
(* accepts jobs or is ready, whatever the loop is waiting for.             *)
MaintenanceIsHonoured ==
  Served /\ maintenance /\ maintAge > TTL =>
    /\ doc.signals.maintenance /\ ~doc.signals.accepting
    /\ doc.status # "ready"

(* A signature a client receives verifies, also when the key could not be  *)
(* loaded for an earlier request of the same document.                     *)
ServedSignatureVerifies == Served => doc.sig # "broken"

(* How old a document gets when no round fails: one whole cycle.           *)
CycleBound == (IF Sending THEN SendMax ELSE 0) + Interval
              + (IF Federated THEN FetchMax ELSE 0) + CollectMax

AllSane == \A c \in ClusterStates : c.sane

(* With well-formed answers the loop renews the document within a cycle,   *)
(* so a site whose CycleBound fits in the time to live never lets it       *)
(* expire.                                                                 *)
RenewedInTime ==
  AllSane /\ running /\ doc # NoDoc /\ CycleBound < AgeCap => doc.age <= CycleBound

(* After stop() nothing new is published: what the loop had under way is   *)
(* dropped with it.                                                        *)
NothingPublishedAfterStop ==
  [][~running /\ doc' # doc =>
        /\ doc # NoDoc
        /\ \/ doc'.age = Older(doc.age)
           \/ doc' = [doc EXCEPT !.sig = doc'.sig]]_vars

(* Whatever happens inside, the daemon is to its peers a site that hands   *)
(* out its document only within the time to live and makes new ones only   *)
(* until it is asked to stop: it implements PublishedSites for one site.   *)
Here == "here"

Site == INSTANCE PublishedSites
          WITH Sites <- {Here},
               running <- [s \in {Here} |-> running],
               serving <- [s \in {Here} |-> serving],
               docAge <- [s \in {Here} |-> IF doc = NoDoc THEN AgeCap ELSE doc.age],
               answered <- [s \in {Here} |-> Served]

ImplementsSite == Site!Spec

(* The loop never gets stuck: unless the daemon stops or Slurm keeps       *)
(* sending unreadable partition lists, it publishes again and again.       *)
KeepsPublishing ==
  []<>(doc # NoDoc /\ doc.age = 0) \/ <>(~running) \/ []<>(~cluster.sane)

(* main.py:180: client.enabled only controls outgoing heartbeat sending,   *)
(* not readiness generation; so a running site with a readiness document   *)
(* has one that can be served.                                             *)
SendingDoesNotDelayReadiness ==
  AllSane /\ running /\ doc # NoDoc => ~Expired(doc)

(* README.md:363 and collector.py:78: slurmctld down is reported, at the   *)
(* latest in documents built from collections that began after it went.    *)
OutageIsReported ==
  doc # NoDoc /\ ~cluster.up /\ clusterAge > doc.age + CollectMax =>
    ~doc.signals.reachable
=============================================================================
