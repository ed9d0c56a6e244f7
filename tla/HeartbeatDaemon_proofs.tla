----------------------- MODULE HeartbeatDaemon_proofs -----------------------
(***************************************************************************)
(* Proofs about HeartbeatDaemon, for every value of its constants: type    *)
(* correctness; maintenance is honoured within the time to live; stale     *)
(* capacity is not served; documents are renewed in time; served           *)
(* signatures verify; nothing is published after stop().                   *)
(***************************************************************************)
EXTENDS HeartbeatDaemon, FiniteSetTheorems, TLAPS

(***************************************************************************)
(* The operators the steps are built from return what they should.         *)
(***************************************************************************)
LEMMA OlderType ==
  ASSUME NEW a \in 0 .. AgeCap
  PROVE  Older(a) \in 0 .. AgeCap
BY PublisherAssumption DEF Older

(* Older keeps the order of ages. *)
LEMMA OlderMonotone ==
  ASSUME NEW a \in 0 .. AgeCap, NEW b \in 0 .. AgeCap, a <= b
  PROVE  Older(a) <= Older(b)
BY PublisherAssumption DEF Older

LEMMA StatusType ==
  ASSUME NEW m, NEW r, NEW x
  PROVE  Status(m, r, x) \in Statuses
BY DEF Status, Statuses

LEMMA PressureType ==
  ASSUME NEW m
  PROVE  QueuePressure(m) \in Pressures
BY DEF QueuePressure, Pressures

LEMMA SignalType ==
  ASSUME NEW m, NEW r \in BOOLEAN, NEW x \in BOOLEAN
  PROVE  Signals(m, r, x) \in Signal
<1>1. QueuePressure(m) \in Pressures
  BY PressureType
<1>2. CriticalPartitions(m) \in BOOLEAN
  BY DEF CriticalPartitions
<1>. QED
  BY <1>1, <1>2 DEF Signals, Signal

LEMMA DefaultType == DefaultMetrics \in ClusterMetrics
BY DEF DefaultMetrics, ClusterMetrics, NoNodes, NoJobs, NodeCounts, JobCounts

LEMMA DisjointCount ==
  ASSUME NEW S, NEW T, IsFiniteSet(S), IsFiniteSet(T), S \cap T = {}
  PROVE  /\ IsFiniteSet(S \cup T)
         /\ Cardinality(S \cup T) = Cardinality(S) + Cardinality(T)
<1>1. /\ IsFiniteSet(S \cup T)
      /\ Cardinality(S \cup T) = Cardinality(S) + Cardinality(T) - Cardinality(S \cap T)
  BY FS_Union
<1>2. Cardinality(S \cap T) = 0
  BY FS_EmptySet
<1>3. Cardinality(S) \in Nat /\ Cardinality(T) \in Nat
  BY FS_CardinalityType
<1>. QED
  BY <1>1, <1>2, <1>3

(* No node is counted under two states.                                    *)
LEMMA NodeStatsType ==
  ASSUME NEW nodes, IsFiniteSet(DOMAIN nodes)
  PROVE  NodeStats(nodes) \in NodeCounts
<1>. DEFINE Of(word, before) ==
              {n \in DOMAIN nodes : word \in nodes[n] /\ nodes[n] \cap before = {}}
            idle == Of("idle", {})
            drained == Of("drained", {"idle", "allocated"})
            down == Of("down", {"idle", "allocated", "drained"})
<1>1. /\ idle \subseteq DOMAIN nodes /\ drained \subseteq DOMAIN nodes
      /\ down \subseteq DOMAIN nodes
      /\ idle \cap drained = {} /\ (idle \cup drained) \cap down = {}
  OBVIOUS
<1>. HIDE DEF idle, drained, down
<1>2. /\ IsFiniteSet(idle) /\ IsFiniteSet(drained) /\ IsFiniteSet(down)
      /\ Cardinality(DOMAIN nodes) \in Nat
  BY <1>1, FS_Subset, FS_CardinalityType
<1>3. /\ Cardinality(idle) \in Nat /\ Cardinality(drained) \in Nat
      /\ Cardinality(down) \in Nat
  BY <1>2, FS_CardinalityType
<1>4. /\ IsFiniteSet(idle \cup drained)
      /\ Cardinality(idle \cup drained) = Cardinality(idle) + Cardinality(drained)
  BY <1>1, <1>2, <1>3, DisjointCount
<1>5. Cardinality((idle \cup drained) \cup down)
        = Cardinality(idle) + Cardinality(drained) + Cardinality(down)
  <2>1. Cardinality((idle \cup drained) \cup down) = Cardinality(idle \cup drained) + Cardinality(down)
    BY <1>1, <1>2, <1>4, DisjointCount
  <2>. QED
    BY <1>4, <2>1
<1>6. Cardinality((idle \cup drained) \cup down) <= Cardinality(DOMAIN nodes)
  BY <1>1, FS_Subset
<1>7. NodeStats(nodes) = [total |-> Cardinality(DOMAIN nodes), idle |-> Cardinality(idle),
                          drained |-> Cardinality(drained), down |-> Cardinality(down)]
  BY DEF NodeStats, CountedAs, idle, drained, down
<1>. QED
  BY <1>2, <1>3, <1>5, <1>6, <1>7 DEF NodeCounts

LEMMA JobStatsType ==
  ASSUME NEW jobs, IsFiniteSet(DOMAIN jobs)
  PROVE  JobStats(jobs) \in JobCounts
<1>1. ASSUME NEW state PROVE Cardinality({j \in DOMAIN jobs : jobs[j] = state}) \in Nat
  <2>1. {j \in DOMAIN jobs : jobs[j] = state} \subseteq DOMAIN jobs
    OBVIOUS
  <2>. QED
    BY <2>1, FS_Subset, FS_CardinalityType
<1>. QED
  BY <1>1 DEF JobStats, JobCounts

LEMMA SampledType ==
  ASSUME NEW r \in Requests, metrics \in ClusterMetrics, cluster \in ClusterStates
  PROVE  Sampled(r) \in ClusterMetrics
<1>1. /\ NodeStats(cluster.nodes) \in NodeCounts /\ JobStats(cluster.jobs) \in JobCounts
      /\ cluster.parts \in SUBSET Partitions /\ cluster.sane \in BOOLEAN
  BY ClusterStatesAssumption, NodeStatsType, JobStatsType
<1>. QED
  BY <1>1 DEF Sampled, Requests, ClusterMetrics

LEMMA ReadinessType ==
  ASSUME metrics \in ClusterMetrics, maintenance \in BOOLEAN
  PROVE  Readiness \in Document
<1>1. CollectSuccess \in BOOLEAN
  BY DEF CollectSuccess
<1>2. Signals(metrics, CollectSuccess, maintenance) \in Signal
  BY <1>1, SignalType
<1>3. Status(metrics, CollectSuccess, maintenance) \in Statuses
  BY StatusType
<1>4. 0 \in 0 .. AgeCap
  BY PublisherAssumption
<1>5. metrics.nodes \in NodeCounts /\ metrics.jobs \in JobCounts
  BY DEF ClusterMetrics
<1>. QED
  BY <1>2, <1>3, <1>4, <1>5 DEF Readiness, Document

(***************************************************************************)
(* Type correctness.                                                       *)
(***************************************************************************)
LEMMA TypeInit == Init => TypeOK
<1>. SUFFICES ASSUME Init
              PROVE  TypeOK
  OBVIOUS
<1>1. metrics \in ClusterMetrics
  BY DefaultType DEF Init, CollectorInit
<1>. QED
  BY <1>1, PublisherAssumption
  DEF Init, CollectorInit, PublisherInit, NoReply, TypeOK, PCs

(* The two outcomes of the top of the loop. *)
LEMMA NextRoundType ==
  ASSUME TypeOK, NextRound
  PROVE  /\ pending' \subseteq Requests /\ (pc' # "collect" => pending' = {} \/ pending' = pending)
         /\ metrics' \in ClusterMetrics
         /\ pc' \in {"collect", "stopped"} /\ timer' \in Nat
<1>1. CASE running
  BY <1>1, DefaultType, DaemonAssumption DEF NextRound, StartCollect, Await, TypeOK
<1>2. CASE ~running
  BY <1>2 DEF NextRound, collectorVars, Await, TypeOK
<1>. QED
  BY <1>1, <1>2

LEMMA TypeStep == TypeOK /\ [Next]_vars => TypeOK'
<1>. SUFFICES ASSUME TypeOK, [Next]_vars
              PROVE  TypeOK'
  OBVIOUS
<1>. USE DEF NoReply, loopVars, collectorVars, worldVars, Await, PCs
<1>1. ASSUME NEW r \in Requests, CollectAnswer(r) PROVE TypeOK'
  <2>1. metrics' \in ClusterMetrics
    BY <1>1, SampledType DEF CollectAnswer, Answer, TypeOK
  <2>. QED
    BY <1>1, <2>1 DEF CollectAnswer, Answer, TypeOK
<1>2. ASSUME NEW r \in Requests, CollectFail(r) PROVE TypeOK'
  BY <1>2 DEF CollectFail, Fail, TypeOK
<1>3. CASE Publish
  <2>1. doc' \in Document
    BY <1>3, ReadinessType DEF Publish, UpdateReadiness, TypeOK
  <2>2. pending' = {} /\ pc' \in PCs /\ timer' \in Nat
    BY <1>3, DaemonAssumption DEF Publish, Collected
  <2>. QED
    BY <1>3, <2>1, <2>2 DEF Publish, TypeOK
<1>4. CASE NormalizeRaises
  BY <1>4, DaemonAssumption DEF NormalizeRaises, Collected, TypeOK
<1>5. CASE SendReturns
  BY <1>5, DaemonAssumption DEF SendReturns, TypeOK
<1>6. CASE WakeUp
  <2>1. CASE Federated
    BY <1>6, <2>1, DaemonAssumption DEF WakeUp, TypeOK
  <2>2. CASE ~Federated
    BY <1>6, <2>2, NextRoundType DEF WakeUp, TypeOK
  <2>. QED
    BY <2>1, <2>2
<1>7. CASE FetchReturns
  BY <1>7, NextRoundType DEF FetchReturns, TypeOK
<1>8. CASE RoundBegins
  BY <1>8, NextRoundType DEF RoundBegins, TypeOK
<1>9. CASE Stop
  BY <1>9 DEF Stop, TypeOK
<1>10. CASE StopSite
  BY <1>10 DEF StopSite, StopPublisher, TypeOK
<1>11. ASSUME NEW client \in Clients \cup {NoCertificate}, Get(client) PROVE TypeOK'
  <2>1. reply' \in [to : Clients \cup {NoCertificate}, code : {0, 200, 403, 503}]
    BY <1>11 DEF Get, HandleReadiness, Refuse, Serve
  <2>2. doc' = NoDoc \/ doc' \in Document
    <3>1. CASE Available /\ Serve(client)
      BY <3>1 DEF Available, Serve, Signature, Document, TypeOK
    <3>2. CASE doc' = doc
      BY <3>2 DEF TypeOK
    <3>. QED
      BY <1>11, <3>1, <3>2 DEF Get, HandleReadiness, Refuse
  <2>. QED
    BY <1>11, <2>1, <2>2 DEF Get, HandleReadiness, TypeOK
<1>12. CASE SlurmChanges
  BY <1>12, PublisherAssumption DEF SlurmChanges, TypeOK
<1>13. CASE OperatorTouchesFile
  BY <1>13, PublisherAssumption DEF OperatorTouchesFile, TypeOK
<1>14. CASE Tick
  <2>1. doc' = NoDoc \/ doc' \in Document
    BY <1>14, OlderType DEF Tick, AgeDoc, Document, TypeOK
  <2>2. maintAge' \in 0 .. AgeCap /\ clusterAge' \in 0 .. AgeCap
    BY <1>14, OlderType DEF Tick, TypeOK
  <2>. QED
    BY <1>14, <2>1, <2>2 DEF Tick, TypeOK
<1>15. CASE UNCHANGED vars
  BY <1>15 DEF vars, TypeOK
<1>. QED
  BY <1>1, <1>2, <1>3, <1>4, <1>5, <1>6, <1>7, <1>8, <1>9, <1>10, <1>11, <1>12,
     <1>13, <1>14, <1>15 DEF Next, Loop, Collect, World

(* In every reachable state every variable has a value the code can give.  *)
THEOREM TypeCorrect == Spec => []TypeOK
<1>1. Init => TypeOK
  BY TypeInit
<1>2. TypeOK /\ [Next]_vars => TypeOK'
  BY TypeStep
<1>. QED
  BY <1>1, <1>2, PTL DEF Spec

(***************************************************************************)
(* Maintenance.  A document that disagrees with the maintenance file is    *)
(* older than the file's last change, because it agreed when it was built; *)
(* and a 200 carries a document within its time to live.                   *)
(***************************************************************************)
Disagrees == doc # NoDoc /\ doc.signals.maintenance # maintenance

Consistent == doc # NoDoc /\ doc.signals.maintenance =>
                ~doc.signals.accepting /\ doc.status # "ready"

DocumentTracksFile == /\ Disagrees => maintAge <= doc.age
                      /\ Consistent

ServedIsAvailable == Served => Available

MaintenanceInv == TypeOK /\ ServedIsAvailable /\ DocumentTracksFile

LEMMA MaintenanceStatus ==
  ASSUME NEW m, NEW r \in BOOLEAN
  PROVE  Status(m, r, TRUE) # "ready"
BY DEF Status

LEMMA ServedStep == TypeOK /\ ServedIsAvailable /\ [Next]_vars => ServedIsAvailable'
<1>. SUFFICES ASSUME TypeOK, ServedIsAvailable, [Next]_vars
              PROVE  ServedIsAvailable'
  OBVIOUS
<1>1. ASSUME reply' = NoReply PROVE ServedIsAvailable'
  BY <1>1 DEF NoReply, ServedIsAvailable, Served
<1>2. ASSUME NEW client \in Clients \cup {NoCertificate}, Get(client)
      PROVE  ServedIsAvailable'
  <2>1. CASE reply'.code # 200
    BY <2>1 DEF ServedIsAvailable, Served
  <2>2. CASE Available /\ Serve(client)
    <3>1. doc \in Document /\ doc.age <= TTL
      BY <2>2, PublisherAssumption DEF Available, Expired, TypeOK, Document
    <3>2. doc' \in Document /\ doc'.age = doc.age
      BY <2>2, <3>1 DEF Serve, Signature, Document
    <3>. QED
      BY <3>1, <3>2, NoDocAssumption, PublisherAssumption
      DEF ServedIsAvailable, Available, Expired, Document
  <2>. QED
    BY <1>2, <2>1, <2>2 DEF Get, HandleReadiness, Refuse
<1>3. CASE UNCHANGED vars
  BY <1>3 DEF vars, ServedIsAvailable, Served, Available, Expired
<1>. QED
  BY <1>1, <1>2, <1>3
  DEF Next, Loop, Collect, World, CollectAnswer, CollectFail, Publish, NormalizeRaises,
      SendReturns, WakeUp, FetchReturns, RoundBegins, Stop, StopSite, SlurmChanges,
      OperatorTouchesFile, Tick

(* What the steps that leave the file alone do to the document. *)
DocKept == doc' = doc
DocSigned == \E sg : doc # NoDoc /\ doc' = [doc EXCEPT !.sig = sg]

LEMMA TracksStep == MaintenanceInv /\ [Next]_vars => DocumentTracksFile'
<1>. SUFFICES ASSUME MaintenanceInv, [Next]_vars
              PROVE  DocumentTracksFile'
  OBVIOUS
<1>. USE DEF MaintenanceInv, DocumentTracksFile, Disagrees, Consistent
<1>1. ASSUME DocKept, maintenance' = maintenance, maintAge' = maintAge
      PROVE  DocumentTracksFile'
  BY <1>1 DEF DocKept
<1>2. CASE Publish
  <2>1. /\ doc'.signals.maintenance = maintenance
        /\ maintenance => ~doc'.signals.accepting /\ doc'.status # "ready"
    <3>1. maintenance => Status(metrics, CollectSuccess, maintenance) # "ready"
      BY MaintenanceStatus DEF TypeOK, CollectSuccess
    <3>. QED
      BY <1>2, <3>1 DEF Publish, UpdateReadiness, Readiness, Signals
  <2>2. maintenance' = maintenance
    BY <1>2 DEF Publish, worldVars
  <2>. QED
    BY <2>1, <2>2
<1>3. ASSUME NEW client \in Clients \cup {NoCertificate}, Get(client)
      PROVE  DocumentTracksFile'
  <2>1. maintenance' = maintenance /\ maintAge' = maintAge
    BY <1>3 DEF Get, worldVars
  <2>2. DocKept \/ DocSigned
    BY <1>3 DEF Get, HandleReadiness, Refuse, Serve, Available, DocKept, DocSigned
  <2>3. ASSUME DocSigned PROVE DocumentTracksFile'
    <3>1. /\ doc \in Document
          /\ doc'.signals = doc.signals /\ doc'.status = doc.status /\ doc'.age = doc.age
      BY <2>3 DEF DocSigned, TypeOK, Document
    <3>. QED
      BY <2>1, <3>1, NoDocAssumption
  <2>. QED
    BY <1>1, <2>1, <2>2, <2>3
<1>4. CASE OperatorTouchesFile
  <2>1. maintAge' = 0 /\ doc' = doc
    BY <1>4 DEF OperatorTouchesFile
  <2>2. doc # NoDoc => 0 <= doc.age
    BY DEF TypeOK, Document
  <2>. QED
    BY <2>1, <2>2
<1>5. CASE Tick
  <2>1. CASE doc = NoDoc
    BY <1>5, <2>1 DEF Tick, AgeDoc
  <2>2. CASE doc # NoDoc
    <3>1. doc \in Document
      BY <2>2 DEF TypeOK
    <3>2. /\ doc'.signals = doc.signals /\ doc'.status = doc.status
          /\ doc'.age = Older(doc.age) /\ maintAge' = Older(maintAge)
          /\ maintenance' = maintenance
      BY <1>5, <2>2, <3>1 DEF Tick, AgeDoc, Document
    <3>3. doc.age \in 0 .. AgeCap /\ maintAge \in 0 .. AgeCap
      BY <3>1 DEF Document, TypeOK
    <3>4. maintAge <= doc.age => maintAge' <= doc'.age
      BY <3>2, <3>3, OlderMonotone
    <3>. QED
      BY <2>2, <3>2, <3>4
  <2>. QED
    BY <2>1, <2>2
<1>6. CASE UNCHANGED vars
  BY <1>1, <1>6 DEF vars, DocKept
<1>. QED
  BY <1>1, <1>2, <1>3, <1>4, <1>5, <1>6
  DEF Next, Loop, Collect, World, CollectAnswer, CollectFail, NormalizeRaises,
      SendReturns, WakeUp, FetchReturns, RoundBegins, Stop, StopSite, StopPublisher,
      SlurmChanges, worldVars, DocKept

(* Whatever the loop is waiting for, a client that is served once the      *)
(* maintenance file has been there for the time to live is told so.        *)
THEOREM MaintenanceHonoured == Spec => []MaintenanceIsHonoured
<1>1. Init => MaintenanceInv
  BY TypeInit DEF Init, PublisherInit, NoReply, MaintenanceInv, ServedIsAvailable, Served,
     DocumentTracksFile, Disagrees, Consistent
<1>2. MaintenanceInv /\ [Next]_vars => MaintenanceInv'
  BY TypeStep, ServedStep, TracksStep DEF MaintenanceInv
<1>3. MaintenanceInv => MaintenanceIsHonoured
  <2>. SUFFICES ASSUME MaintenanceInv, Served, maintenance, maintAge > TTL
                PROVE  /\ doc.signals.maintenance /\ ~doc.signals.accepting
                       /\ doc.status # "ready"
    BY DEF MaintenanceIsHonoured
  <2>1. doc \in Document /\ doc.age <= TTL
    BY PublisherAssumption
    DEF MaintenanceInv, ServedIsAvailable, Available, Expired, TypeOK, Document
  <2>2. ~(maintAge <= doc.age)
    BY <2>1, PublisherAssumption DEF MaintenanceInv, TypeOK, Document
  <2>3. doc.signals.maintenance
    BY <2>1, <2>2, NoDocAssumption
    DEF MaintenanceInv, DocumentTracksFile, Disagrees, TypeOK, Document, Signal
  <2>. QED
    BY <2>1, <2>3, NoDocAssumption DEF MaintenanceInv, DocumentTracksFile, Consistent
<1>. QED
  BY <1>1, <1>2, <1>3, PTL DEF Spec


(***************************************************************************)
(* Who writes the document: the loop when it publishes, a request that     *)
(* signs it, the clock.                                                    *)
(***************************************************************************)
Signs == /\ doc \in Document /\ doc.sig = "none"
         /\ doc' = [doc EXCEPT !.sig = "valid"]
         /\ UNCHANGED <<cluster, collectorVars, loopVars, running, worldVars>>

LEMMA DocWriters ==
  ASSUME TypeOK, [Next]_vars
  PROVE  doc' = doc \/ Publish \/ Signs \/ Tick
<1>1. ASSUME NEW client \in Clients \cup {NoCertificate}, Get(client)
      PROVE  doc' = doc \/ Signs
  <2>1. CASE Available /\ Serve(client)
    <3>1. doc \in Document
      BY <2>1 DEF Available, TypeOK
    <3>. QED
      BY <1>1, <2>1, <3>1 DEF Get, Serve, MaySign, Signature, Signs
  <2>. QED
    BY <1>1, <2>1 DEF Get, HandleReadiness, Refuse
<1>. QED
  BY <1>1
  DEF Next, Loop, Collect, World, CollectAnswer, CollectFail, NormalizeRaises,
      SendReturns, WakeUp, FetchReturns, RoundBegins, Stop, StopSite, StopPublisher,
      SlurmChanges, OperatorTouchesFile, vars

(* How the clock changes a document. *)
LEMMA TickAges ==
  ASSUME TypeOK, Tick, doc # NoDoc
  PROVE  /\ doc \in Document /\ doc' = [doc EXCEPT !.age = Older(doc.age)]
         /\ doc.age \in 0 .. AgeCap /\ doc'.age = Older(doc.age)
<1>1. doc \in Document
  BY DEF TypeOK
<1>. QED
  BY <1>1 DEF Tick, AgeDoc, Document

(***************************************************************************)
(* Signatures.                                                             *)
(***************************************************************************)
NoBrokenSignature == doc # NoDoc => doc.sig # "broken"

SignatureInv == TypeOK /\ ServedIsAvailable /\ NoBrokenSignature

(* A signature a client receives verifies: the document is signed at most  *)
(* once, however many requests found the key missing before.               *)
THEOREM SignaturesVerify == Spec => []ServedSignatureVerifies
<1>1. Init => SignatureInv
  BY TypeInit DEF Init, PublisherInit, NoReply, SignatureInv, ServedIsAvailable, Served,
     NoBrokenSignature
<1>2. SignatureInv /\ [Next]_vars => SignatureInv'
  <2>. SUFFICES ASSUME SignatureInv, [Next]_vars
                PROVE  NoBrokenSignature'
    BY TypeStep, ServedStep DEF SignatureInv
  <2>. USE DEF SignatureInv, NoBrokenSignature
  <2>1. CASE Publish
    BY <2>1 DEF Publish, UpdateReadiness, Readiness
  <2>2. CASE Signs
    BY <2>2 DEF Signs, Document
  <2>3. CASE Tick
    <3>1. CASE doc = NoDoc
      BY <2>3, <3>1 DEF Tick, AgeDoc
    <3>2. CASE doc # NoDoc
      BY <2>3, <3>2, TickAges DEF Document
    <3>. QED
      BY <3>1, <3>2
  <2>. QED
    BY <2>1, <2>2, <2>3, DocWriters
<1>3. SignatureInv => ServedSignatureVerifies
  BY DEF SignatureInv, ServedIsAvailable, Available, NoBrokenSignature, ServedSignatureVerifies
<1>. QED
  BY <1>1, <1>2, <1>3, PTL DEF Spec

(***************************************************************************)
(* Shutdown: the loop's task does not survive stop().                      *)
(***************************************************************************)
LoopEnds == ~running <=> pc = "stopped"

LEMMA LoopEndsStep == LoopEnds /\ [Next]_vars => LoopEnds'
<1>. SUFFICES ASSUME LoopEnds, [Next]_vars
              PROVE  LoopEnds'
  OBVIOUS
<1>. QED
  BY DEF LoopEnds, Next, Loop, Collect, World, CollectAnswer, CollectFail, Publish,
     NormalizeRaises, SendReturns, WakeUp, FetchReturns, RoundBegins, NextRound, Stop,
     StopSite, SlurmChanges, OperatorTouchesFile, Tick, Get, Await, loopVars, vars

(* Whatever the loop was doing when stop() was called, the document is     *)
(* not replaced any more; it is only signed and ages.                      *)
THEOREM StopIsFinal == Spec => NothingPublishedAfterStop
<1>. DEFINE Step == ~running /\ doc' # doc =>
                      /\ doc # NoDoc
                      /\ \/ doc'.age = Older(doc.age)
                         \/ doc' = [doc EXCEPT !.sig = doc'.sig]
<1>1. Init => TypeOK /\ LoopEnds
  BY TypeInit DEF Init, LoopEnds
<1>2. TypeOK /\ LoopEnds /\ [Next]_vars => (TypeOK /\ LoopEnds)'
  BY TypeStep, LoopEndsStep
<1>3. TypeOK /\ LoopEnds /\ [Next]_vars => [Step]_vars
  <2>. SUFFICES ASSUME TypeOK, LoopEnds, [Next]_vars, ~running, doc' # doc
                PROVE  /\ doc # NoDoc
                       /\ \/ doc'.age = Older(doc.age)
                          \/ doc' = [doc EXCEPT !.sig = doc'.sig]
    OBVIOUS
  <2>1. ~Publish
    BY DEF LoopEnds, Publish
  <2>2. CASE Signs
    BY <2>2, NoDocAssumption DEF Signs, Document
  <2>3. CASE Tick
    <3>1. doc # NoDoc
      BY <2>3 DEF Tick, AgeDoc
    <3>. QED
      BY <2>3, <3>1, TickAges
  <2>. QED
    BY <2>1, <2>2, <2>3, DocWriters
<1>. QED
  BY <1>1, <1>2, <1>3, PTL DEF Spec, NothingPublishedAfterStop


(***************************************************************************)
(* Renewal.  The age of the document plus the time the current wait may    *)
(* still take is bounded by the part of the cycle that ends with it.       *)
(***************************************************************************)
SendPart == IF Sending THEN SendMax ELSE 0
SleepPart == SendPart + Interval
FetchPart == IF Federated THEN SleepPart + FetchMax ELSE SleepPart

LEMMA CycleParts ==
  /\ SendPart \in Nat /\ SleepPart \in Nat /\ FetchPart \in Nat /\ CycleBound \in Nat
  /\ SendPart <= SleepPart /\ SleepPart <= FetchPart /\ FetchPart <= CycleBound
  /\ CycleBound = FetchPart + CollectMax
BY DaemonAssumption DEF SendPart, SleepPart, FetchPart, CycleBound

Within(bound) == doc # NoDoc => doc.age + timer <= bound

NoRoundFails == metrics.sane /\ pc # "recover"

AgesWithWaits ==
  /\ pc = "start" => doc = NoDoc
  /\ pc = "collect" => Within(CycleBound)
  /\ pc = "send" => Sending /\ Within(SendPart)
  /\ pc = "sleep" => Within(SleepPart)
  /\ pc = "fetch" => Federated /\ Within(FetchPart)

RenewalInv == TypeOK /\ LoopEnds /\ NoRoundFails /\ AgesWithWaits

LEMMA NoRoundFailsStep ==
  AllSane /\ TypeOK /\ NoRoundFails /\ [Next]_vars => NoRoundFails'
<1>. SUFFICES ASSUME AllSane, TypeOK, NoRoundFails, [Next]_vars
              PROVE  NoRoundFails'
  OBVIOUS
<1>. USE DEF NoRoundFails, Await, loopVars, collectorVars
<1>1. ASSUME NEW r \in Requests, CollectAnswer(r) PROVE NoRoundFails'
  <2>1. cluster.sane /\ metrics \in ClusterMetrics
    BY DEF AllSane, TypeOK
  <2>2. Sampled(r).sane
    BY <2>1 DEF Sampled, Requests, ClusterMetrics
  <2>. QED
    BY <1>1, <2>2 DEF CollectAnswer, Answer
<1>2. ASSUME NextRound PROVE NoRoundFails'
  BY <1>2 DEF NextRound, StartCollect, DefaultMetrics
<1>. QED
  BY <1>1, <1>2
  DEF Next, Loop, Collect, World, CollectFail, Fail, Publish, NormalizeRaises,
      SendReturns, WakeUp, FetchReturns, RoundBegins, Stop, StopSite, SlurmChanges,
      OperatorTouchesFile, Tick, Get, vars

(* The top of the loop: the collection may take CollectMax.                *)
LEMMA NextRoundAges ==
  ASSUME TypeOK, NextRound, doc' = doc, doc # NoDoc => doc.age <= FetchPart
  PROVE  AgesWithWaits'
<1>1. CASE running
  <2>1. pc' = "collect" /\ timer' = CollectMax
    BY <1>1 DEF NextRound, Await
  <2>2. doc # NoDoc => doc.age + CollectMax <= CycleBound
    BY CycleParts, DaemonAssumption DEF TypeOK, Document
  <2>. QED
    BY <2>1, <2>2 DEF AgesWithWaits, Within
<1>2. CASE ~running
  BY <1>2 DEF NextRound, Await, AgesWithWaits
<1>. QED
  BY <1>1, <1>2

LEMMA AgesStep == RenewalInv /\ [Next]_vars => AgesWithWaits'
<1>. SUFFICES ASSUME RenewalInv, [Next]_vars
              PROVE  AgesWithWaits'
  OBVIOUS
<1>. USE DEF RenewalInv
<1>age. doc # NoDoc => doc.age \in Nat
  BY DEF TypeOK, Document
<1>1. ASSUME doc' = doc, UNCHANGED loopVars PROVE AgesWithWaits'
  BY <1>1 DEF loopVars, AgesWithWaits, Within
<1>2. CASE Publish
  <2>1. doc' # NoDoc /\ doc'.age = 0
    BY <1>2, ReadinessType, NoDocAssumption DEF Publish, UpdateReadiness, Readiness, TypeOK
  <2>2. CASE Sending
    BY <1>2, <2>1, <2>2, DaemonAssumption
    DEF Publish, Await, AgesWithWaits, Within, SendPart
  <2>3. CASE ~Sending
    BY <1>2, <2>1, <2>3, DaemonAssumption
    DEF Publish, Await, AgesWithWaits, Within, SendPart, SleepPart
  <2>. QED
    BY <2>2, <2>3
<1>3. CASE NormalizeRaises
  BY <1>3 DEF NormalizeRaises, NoRoundFails
<1>4. CASE SendReturns
  <2>1. pc' = "sleep" /\ timer' = Interval /\ doc' = doc
    BY <1>4 DEF SendReturns, Await
  <2>2. doc # NoDoc => doc.age + Interval <= SleepPart
    BY <1>4, <1>age, CycleParts, DaemonAssumption
    DEF SendReturns, AgesWithWaits, Within, TypeOK, SleepPart
  <2>. QED
    BY <2>1, <2>2 DEF AgesWithWaits, Within
<1>5. CASE WakeUp
  <2>1. doc' = doc /\ (doc # NoDoc => doc.age <= SleepPart)
    BY <1>5, <1>age, CycleParts DEF WakeUp, AgesWithWaits, Within
  <2>2. CASE Federated
    <3>1. pc' = "fetch" /\ timer' = FetchMax
      BY <1>5, <2>2 DEF WakeUp, Await
    <3>2. doc # NoDoc => doc.age + FetchMax <= FetchPart
      BY <2>1, <2>2, <1>age, CycleParts, DaemonAssumption DEF FetchPart
    <3>. QED
      BY <2>1, <2>2, <3>1, <3>2 DEF AgesWithWaits, Within
  <2>3. CASE ~Federated
    BY <1>5, <2>1, <2>3, NextRoundAges DEF WakeUp, FetchPart
  <2>. QED
    BY <2>2, <2>3
<1>6. CASE FetchReturns
  <2>1. doc # NoDoc => doc.age <= FetchPart
    BY <1>6, <1>age, CycleParts DEF FetchReturns, AgesWithWaits, Within, TypeOK
  <2>. QED
    BY <1>6, <2>1, NextRoundAges DEF FetchReturns
<1>7. CASE RoundBegins
  <2>1. doc = NoDoc
    BY <1>7 DEF RoundBegins, NoRoundFails, AgesWithWaits
  <2>. QED
    BY <1>7, <2>1, NextRoundAges DEF RoundBegins
<1>8. CASE Stop
  BY <1>8 DEF Stop, Await, AgesWithWaits
<1>9. CASE Signs
  <2>1. doc'.age = doc.age /\ doc # NoDoc
    BY <1>9, NoDocAssumption DEF Signs, Document
  <2>. QED
    BY <1>9, <2>1 DEF Signs, loopVars, AgesWithWaits, Within
<1>10. CASE Tick
  <2>1. CASE doc = NoDoc
    BY <1>10, <2>1 DEF Tick, AgeDoc, AgesWithWaits, Within
  <2>2. CASE doc # NoDoc /\ pc # "stopped"
    <3>1. timer \in Nat /\ timer > 0 /\ timer' = timer - 1 /\ pc' = pc
      BY <1>10, <2>2 DEF Tick, TypeOK
    <3>2. doc'.age <= doc.age + 1
      BY <1>10, <2>2, TickAges DEF Older
    <3>3. doc'.age + timer' <= doc.age + timer
      BY <1>10, <2>2, <3>1, <3>2, <1>age, TickAges, OlderType
    <3>4. doc'.age \in Nat
      BY <1>10, <2>2, TickAges, OlderType
    <3>. QED
      BY <2>2, <3>1, <3>3, <3>4, <1>age, CycleParts DEF AgesWithWaits, Within
  <2>3. CASE pc = "stopped"
    BY <1>10, <2>3 DEF Tick, AgesWithWaits
  <2>. QED
    BY <2>1, <2>2, <2>3
<1>11. CASE UNCHANGED vars
  BY <1>1, <1>11 DEF vars, loopVars
<1>. QED
  BY <1>1, <1>2, <1>3, <1>4, <1>5, <1>6, <1>7, <1>8, <1>9, <1>10, <1>11, DocWriters
  DEF Next, Loop, Collect, World, CollectAnswer, CollectFail, StopSite, StopPublisher,
      SlurmChanges, OperatorTouchesFile, Get

(* When Slurm's answers are well formed, a running site renews its         *)
(* document within one cycle, so one whose cycle fits in the time to live  *)
(* never lets it expire.                                                   *)
THEOREM Renewal == Spec => []RenewedInTime
<1>1. CASE AllSane
  <2>1. Init => RenewalInv
    BY TypeInit
    DEF Init, RenewalInv, CollectorInit, PublisherInit, DefaultMetrics, LoopEnds,
        NoRoundFails, AgesWithWaits, Within
  <2>2. RenewalInv /\ [Next]_vars => RenewalInv'
    BY <1>1, TypeStep, LoopEndsStep, NoRoundFailsStep, AgesStep DEF RenewalInv
  <2>3. RenewalInv => RenewedInTime
    BY CycleParts
    DEF RenewalInv, RenewedInTime, AgesWithWaits, Within, LoopEnds, NoRoundFails, TypeOK,
        PCs, Document
  <2>. QED
    BY <2>1, <2>2, <2>3, PTL DEF Spec
<1>2. CASE ~AllSane
  <2>1. TypeOK => RenewedInTime
    BY <1>2 DEF RenewedInTime
  <2>. QED
    BY <2>1, TypeCorrect, PTL
<1>. QED
  BY <1>1, <1>2

(* How to choose the numbers: a cycle that fits in the time to live never  *)
(* lets the document of a running daemon expire, however slow the peers.   *)
THEOREM FittingCycle ==
  ASSUME CycleBound <= TTL
  PROVE  Spec => []SendingDoesNotDelayReadiness
<1>1. TypeOK /\ RenewedInTime => SendingDoesNotDelayReadiness
  <2>1. CycleBound < AgeCap /\ CycleBound \in Nat /\ TTL \in Nat
    BY CycleParts, DaemonAssumption, PublisherAssumption
  <2>. QED
    BY <2>1 DEF TypeOK, RenewedInTime, SendingDoesNotDelayReadiness, Expired, Document
<1>. QED
  BY <1>1, Renewal, TypeCorrect, PTL

(***************************************************************************)
(* Stale capacity.  Node counts that are not the present ones are at least *)
(* as old as the cluster's last change, but for the time of a collection.  *)
(***************************************************************************)
Obtained(nodes) == nodes \in {NoNodes, NodeStats(cluster.nodes)}

SampleInTime ==
  pc = "collect" =>
    /\ timer <= CollectMax
    /\ Obtained(metrics.nodes) \/ clusterAge + timer <= CollectMax

HintInTime ==
  doc # NoDoc => Obtained(doc.hint.nodes) \/ clusterAge <= doc.age + CollectMax

CapacityInv == TypeOK /\ ServedIsAvailable /\ SampleInTime /\ HintInTime

LEMMA SampleStep == TypeOK /\ SampleInTime /\ [Next]_vars => SampleInTime'
<1>. SUFFICES ASSUME TypeOK, SampleInTime, [Next]_vars
              PROVE  SampleInTime'
  OBVIOUS
<1>. USE DEF SampleInTime, Obtained, loopVars, worldVars, collectorVars, Await
<1>1. ASSUME NEW r \in Requests, CollectAnswer(r) PROVE SampleInTime'
  <2>1. metrics \in ClusterMetrics
    BY DEF TypeOK
  <2>2. metrics'.nodes \in {metrics.nodes, NodeStats(cluster.nodes)}
    BY <1>1, <2>1 DEF CollectAnswer, Answer, Sampled, Requests, ClusterMetrics
  <2>. QED
    BY <1>1, <2>2 DEF CollectAnswer
<1>2. ASSUME NEW r \in Requests, CollectFail(r) PROVE SampleInTime'
  BY <1>2 DEF CollectFail, Fail
<1>3. ASSUME NextRound, UNCHANGED <<cluster, worldVars>> PROVE SampleInTime'
  BY <1>3, DaemonAssumption DEF NextRound, StartCollect, DefaultMetrics
<1>4. CASE SlurmChanges
  BY <1>4, DaemonAssumption DEF SlurmChanges, TypeOK
<1>5. CASE Tick
  <2>1. clusterAge \in Nat /\ timer \in Nat
    BY DEF TypeOK
  <2>2. clusterAge' \in Nat /\ clusterAge' <= clusterAge + 1
    BY <1>5, <2>1 DEF Tick, Older
  <2>. QED
    BY <1>5, <2>1, <2>2, DaemonAssumption DEF Tick
<1>. QED
  BY <1>1, <1>2, <1>3, <1>4, <1>5
  DEF Next, Loop, Collect, World, Publish, NormalizeRaises, SendReturns, WakeUp,
      FetchReturns, RoundBegins, Stop, StopSite, OperatorTouchesFile, Get, vars

LEMMA HintStep == CapacityInv /\ [Next]_vars => HintInTime'
<1>. SUFFICES ASSUME CapacityInv, [Next]_vars
              PROVE  HintInTime'
  OBVIOUS
<1>. USE DEF CapacityInv, HintInTime, Obtained, worldVars
<1>1. ASSUME doc' = doc, UNCHANGED <<cluster, clusterAge>> PROVE HintInTime'
  BY <1>1
<1>2. CASE Publish
  <2>1. pc = "collect" /\ doc'.hint.nodes = metrics.nodes /\ doc'.age = 0
        /\ cluster' = cluster /\ clusterAge' = clusterAge
    BY <1>2 DEF Publish, UpdateReadiness, Readiness
  <2>2. Obtained(metrics.nodes) \/ clusterAge <= CollectMax
    BY <2>1, DaemonAssumption DEF SampleInTime, TypeOK
  <2>. QED
    BY <2>1, <2>2, DaemonAssumption DEF TypeOK
<1>3. CASE Signs
  <2>1. doc \in Document /\ doc'.hint = doc.hint /\ doc'.age = doc.age
    BY <1>3 DEF Signs, Document
  <2>. QED
    BY <1>3, <2>1, NoDocAssumption DEF Signs
<1>4. CASE SlurmChanges
  <2>1. doc # NoDoc => 0 <= doc.age + CollectMax
    BY DaemonAssumption DEF TypeOK, Document
  <2>. QED
    BY <1>4, <2>1 DEF SlurmChanges
<1>5. CASE Tick
  <2>1. CASE doc = NoDoc
    BY <1>5, <2>1 DEF Tick, AgeDoc
  <2>2. CASE doc # NoDoc
    <3>1. doc'.hint = doc.hint /\ cluster' = cluster /\ clusterAge' = Older(clusterAge)
      BY <1>5, <2>2, TickAges DEF Tick, Document
    <3>2. doc.age \in 0 .. AgeCap /\ clusterAge \in 0 .. AgeCap /\ doc'.age = Older(doc.age)
      BY <1>5, <2>2, TickAges DEF TypeOK
    <3>3. clusterAge <= doc.age + CollectMax => Older(clusterAge) <= Older(doc.age) + CollectMax
      BY <3>2, PublisherAssumption, DaemonAssumption DEF Older
    <3>. QED
      BY <2>2, <3>1, <3>2, <3>3
  <2>. QED
    BY <2>1, <2>2
<1>6. CASE UNCHANGED vars
  BY <1>1, <1>6 DEF vars
<1>. QED
  BY <1>1, <1>2, <1>3, <1>4, <1>5, <1>6, DocWriters
  DEF Next, Loop, Collect, World, CollectAnswer, CollectFail, NormalizeRaises,
      SendReturns, WakeUp, FetchReturns, RoundBegins, Stop, StopSite, StopPublisher,
      OperatorTouchesFile, Get

(* The node counts a client receives are the present ones, or were not     *)
(* obtained, or the cluster changed no longer ago than the time to live    *)
(* and a collection.                                                       *)
THEOREM CapacityNotStale == Spec => []NoStaleCapacity
<1>1. Init => CapacityInv
  BY TypeInit
  DEF Init, PublisherInit, NoReply, CapacityInv, ServedIsAvailable, Served, SampleInTime,
      HintInTime
<1>2. CapacityInv /\ [Next]_vars => CapacityInv'
  BY TypeStep, ServedStep, SampleStep, HintStep DEF CapacityInv
<1>3. CapacityInv => NoStaleCapacity
  <2>. SUFFICES ASSUME CapacityInv, Served, ~Obtained(doc.hint.nodes)
                PROVE  clusterAge <= TTL + CollectMax
    BY DEF NoStaleCapacity, Obtained
  <2>1. doc \in Document /\ doc # NoDoc /\ doc.age <= TTL
    BY PublisherAssumption
    DEF CapacityInv, ServedIsAvailable, Available, Expired, TypeOK, Document
  <2>. QED
    BY <2>1, PublisherAssumption, DaemonAssumption
    DEF CapacityInv, HintInTime, TypeOK, Document
<1>. QED
  BY <1>1, <1>2, <1>3, PTL DEF Spec


-----------------------------------------------------------------------------
(***************************************************************************)
(* HeartbeatDaemon implements PublishedSites for one site: the initial     *)
(* states are initial states of the site, and every step of loop,          *)
(* publisher, clients or world is a step of the site or leaves it as it    *)
(* was.                                                                    *)
(***************************************************************************)
(* The age the refinement gives the document. *)
DocAge == IF doc = NoDoc THEN AgeCap ELSE doc.age

SiteInv == TypeOK /\ LoopEnds

LEMMA SiteInvariant == Spec => []SiteInv
<1>1. Init => SiteInv
  BY TypeInit DEF SiteInv, Init, LoopEnds
<1>2. SiteInv /\ [Next]_vars => SiteInv'
  BY TypeStep, LoopEndsStep DEF SiteInv
<1>. QED
  BY <1>1, <1>2, PTL DEF Spec

(***************************************************************************)
(* Functions on one site.                                                  *)
(***************************************************************************)
LEMMA OneSite ==
  ASSUME NEW a, NEW b
  PROVE  /\ [s \in {Here} |-> a][Here] = a
         /\ [[s \in {Here} |-> a] EXCEPT ![Here] = b] = [s \in {Here} |-> b]
OBVIOUS

(***************************************************************************)
(* What each kind of step is to the site.                                  *)
(***************************************************************************)
LEMMA SilentStep ==
  ASSUME running' = running, serving' = serving, DocAge' = DocAge, ~Served'
  PROVE  Site!Next
<1>1. UNCHANGED Site!siteVars
  BY DEF Site!siteVars, DocAge
<1>2. [s \in {Here} |-> Served]' = [s \in {Here} |-> FALSE]
  BY DEF Served
<1>. QED
  BY <1>1, <1>2 DEF Site!Next, Site!Silent

LEMMA ChangeStep ==
  ASSUME ~Served', Site!Change(Here)
  PROVE  Site!Next
<1>1. [s \in {Here} |-> Served]' = [s \in {Here} |-> FALSE]
  BY DEF Served
<1>. QED
  BY <1>1 DEF Site!Next, Site!Silent

LEMMA PublishStep ==
  ASSUME SiteInv, Publish
  PROVE  Site!Next
<1>1. /\ running = TRUE /\ running' = running /\ serving' = serving /\ ~Served'
      /\ doc' = Readiness /\ doc' \in Document
  BY ReadinessType DEF SiteInv, TypeOK, LoopEnds, Publish, UpdateReadiness, Served, NoReply
<1>2. DocAge' = 0
  BY <1>1, NoDocAssumption DEF DocAge, Readiness
<1>3. Site!Publish(Here)
  BY <1>1, <1>2, OneSite DEF Site!Publish, DocAge
<1>. QED
  BY <1>1, <1>3, ChangeStep DEF Site!Change

LEMMA StopStep ==
  ASSUME SiteInv, Stop \/ StopSite
  PROVE  Site!Next
<1>1. doc' = doc /\ ~Served' /\ DocAge' = DocAge
  BY DEF Stop, StopSite, StopPublisher, Served, NoReply, DocAge
<1>2. CASE Stop
  <2>1. running = TRUE /\ running' = FALSE /\ serving' = serving
    BY <1>2 DEF Stop, SiteInv, TypeOK
  <2>2. Site!Stop(Here)
    BY <1>1, <2>1, OneSite DEF Site!Stop, DocAge
  <2>. QED
    BY <1>1, <2>2, ChangeStep DEF Site!Change
<1>3. CASE StopSite
  <2>1. /\ running = FALSE /\ running' = running
        /\ serving = TRUE /\ serving' = FALSE
    BY <1>3 DEF StopSite, StopPublisher, SiteInv, TypeOK
  <2>2. Site!Close(Here)
    BY <1>1, <2>1, OneSite DEF Site!Close, DocAge
  <2>. QED
    BY <1>1, <2>2, ChangeStep DEF Site!Change
<1>. QED
  BY <1>2, <1>3

LEMMA TickStep ==
  ASSUME SiteInv, Tick
  PROVE  Site!Next
<1>1. running' = running /\ serving' = serving /\ ~Served'
  BY DEF Tick, Served, NoReply
<1>2. DocAge' = IF DocAge < AgeCap THEN DocAge + 1 ELSE DocAge
  <2>1. CASE doc = NoDoc
    BY <2>1, PublisherAssumption DEF Tick, AgeDoc, DocAge
  <2>2. CASE doc # NoDoc
    <3>1. doc \in Document /\ doc' = [doc EXCEPT !.age = Older(doc.age)] /\ doc'.age = Older(doc.age)
      BY <2>2, TickAges DEF SiteInv
    <3>2. doc.age \in 0 .. AgeCap /\ doc' \in Document
      BY <3>1, OlderType DEF Document
    <3>3. doc' # NoDoc
      BY <3>2, NoDocAssumption
    <3>. QED
      BY <2>2, <3>1, <3>3 DEF DocAge, Older
  <2>. QED
    BY <2>1, <2>2
<1>3. Site!Tick
  BY <1>1, <1>2, OneSite DEF Site!Tick, Site!Aged, DocAge
<1>4. [s \in {Here} |-> Served]' = [s \in {Here} |-> FALSE]
  BY <1>1 DEF Served
<1>. QED
  BY <1>3, <1>4 DEF Site!Next, Site!Silent

(* A 200 is an answer within the time to live, and signing on the way out  *)
(* does not change the age.                                                *)
LEMMA GetStep ==
  ASSUME SiteInv, NEW client \in Clients \cup {NoCertificate}, Get(client)
  PROVE  Site!Next
<1>1. running' = running /\ serving' = serving /\ serving = TRUE
  BY DEF Get, HandleReadiness, SiteInv, TypeOK
<1>2. CASE doc' = doc /\ ~Served'
  BY <1>1, <1>2, SilentStep DEF DocAge
<1>3. CASE Available /\ Serve(client)
  <2>1. doc \in Document /\ doc # NoDoc /\ doc.age <= TTL
    BY <1>3, PublisherAssumption DEF Available, Expired, SiteInv, TypeOK, Document
  <2>2. doc' \in Document /\ doc'.age = doc.age
    BY <1>3, <2>1 DEF Serve, Signature, Document
  <2>3. DocAge' = DocAge /\ DocAge <= TTL
    BY <2>1, <2>2, NoDocAssumption DEF DocAge
  <2>4. Served'
    BY <1>3 DEF Serve, Served
  <2>5. Site!CanAnswer(Here)
    BY <1>1, <2>3, OneSite DEF Site!CanAnswer, DocAge
  <2>6. UNCHANGED Site!siteVars
    BY <1>1, <2>3 DEF Site!siteVars, DocAge
  <2>7. [s \in {Here} |-> Served]' = [x \in {Here} |-> x = Here]
    BY <2>4 DEF Served
  <2>. QED
    BY <2>5, <2>6, <2>7 DEF Site!Next, Site!Answer
<1>4. (doc' = doc /\ ~Served') \/ (Available /\ Serve(client))
  BY DEF Get, HandleReadiness, Refuse, Served
<1>. QED
  BY <1>2, <1>3, <1>4

LEMMA StepIsSiteStep ==
  SiteInv /\ [Next]_vars => [Site!Next]_<<[s \in {Here} |-> running], [s \in {Here} |-> serving],
                                          [s \in {Here} |-> DocAge], [s \in {Here} |-> Served]>>
<1>. SUFFICES ASSUME SiteInv, [Next]_vars
              PROVE  \/ Site!Next
                     \/ running' = running /\ serving' = serving /\ DocAge' = DocAge
                        /\ Served' = Served
  OBVIOUS
<1>1. CASE Publish
  BY <1>1, PublishStep
<1>2. CASE Stop \/ StopSite
  BY <1>2, StopStep
<1>3. CASE Tick
  BY <1>3, TickStep
<1>4. ASSUME NEW client \in Clients \cup {NoCertificate}, Get(client)
      PROVE  Site!Next
  BY <1>4, GetStep
<1>5. CASE Collect \/ NormalizeRaises \/ SendReturns \/ WakeUp \/ FetchReturns
           \/ RoundBegins \/ SlurmChanges \/ OperatorTouchesFile
  <2>1. running' = running /\ serving' = serving /\ doc' = doc /\ ~Served'
    BY <1>5 DEF Collect, CollectAnswer, CollectFail, NormalizeRaises, SendReturns, WakeUp,
                FetchReturns, RoundBegins, SlurmChanges, OperatorTouchesFile, Served, NoReply
  <2>. QED
    BY <2>1, SilentStep DEF DocAge
<1>6. CASE UNCHANGED vars
  BY <1>6 DEF vars, DocAge, Served
<1>. QED
  BY <1>1, <1>2, <1>3, <1>4, <1>5, <1>6 DEF Next, Loop, World

(* To its peers the daemon is a published site: it hands out its document  *)
(* only within the time to live, and makes none after it was asked to stop,*)
(* whatever the loop, the clients and the world do.                        *)
THEOREM SiteImplemented == Spec => ImplementsSite
<1>1. Init => Site!Init
  <2>. SUFFICES ASSUME Init PROVE Site!Init
    OBVIOUS
  <2>1. /\ running = TRUE /\ serving = TRUE
        /\ (IF doc = NoDoc THEN AgeCap ELSE doc.age) = AgeCap
        /\ Served = FALSE
    BY DEF Init, PublisherInit, NoReply, Served
  <2>. QED
    BY <2>1 DEF Site!Init
<1>2. SiteInv /\ [Next]_vars =>
        [Site!Next]_<<[s \in {Here} |-> running], [s \in {Here} |-> serving],
                      [s \in {Here} |-> IF doc = NoDoc THEN AgeCap ELSE doc.age],
                      [s \in {Here} |-> Served]>>
  BY StepIsSiteStep DEF DocAge
<1>. QED
  BY <1>1, <1>2, SiteInvariant, PTL DEF Spec, ImplementsSite, Site!Spec
=============================================================================
