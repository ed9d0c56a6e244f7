------------------------- MODULE FederationDiscovery -------------------------
(***************************************************************************)
(* FederationDiscovery (slurmheartbeat/federation/discovery.py): the table *)
(* of federation peers and the fetches that keep it up to date, with what  *)
(* the heartbeat loop does with it after each fetch: MetricsAggregator     *)
(* (aggregation.py) counts the healthy peers and the federation gauges     *)
(* (monitoring/metrics.py) are set.                                        *)
(*                                                                         *)
(* fetch_all_peers is called by the heartbeat loop (main.py) and, under a  *)
(* lock the loop does not take, by update_all_peers, which is part of the  *)
(* interface though the daemon does not call it: Updaters.                 *)
(*                                                                         *)
(* A peer answers at some moment between the request and the deadline,     *)
(* with a document of up to TTL ticks.  Ages are in ticks up to AgeCap,    *)
(* past which nothing distinguishes them; a peer never seen counts as seen *)
(* AgeCap ago, is_healthy treats the two alike.                            *)
(* External: whether and when a peer answers; Federation gives the answers *)
(* to peers that behave as PublishedSites.                                 *)
(***************************************************************************)
EXTENDS MetricsAggregator

CONSTANTS Peers,         \* client.federation.peers, by name
          loop,          \* the heartbeat loop
          Updaters,      \* callers of update_all_peers
          FetchTimeout,  \* longest one fetch takes: peer_timeout_seconds for each wait
          Gap,           \* longest time from a fetch, or a round that raised, to the next
          MaxLost,       \* bound: rounds that raised are counted up to here
          MaxAge,        \* max_age_seconds of is_healthy
          TTL,           \* ttl_seconds of the peers' documents
          AgeCap         \* ages are counted up to here

Callers == {loop} \cup Updaters

ASSUME DiscoveryAssumption ==
  /\ IsFiniteSet(Peers) /\ Peers # {}
  /\ IsFiniteSet(Updaters) /\ loop \notin Updaters
  /\ FetchTimeout \in Nat /\ Gap \in Nat /\ MaxAge \in Nat
  /\ MaxLost \in Nat /\ TTL \in Nat /\ AgeCap \in Nat
  /\ TTL + MaxAge + FetchTimeout < AgeCap

VARIABLES discovered,  \* state.peers has been filled from the configuration
          failures,    \* consecutive_failures of each peer
          seenAge,     \* age of last_seen
          hintAge,     \* history: age of what capacity_hint says
          call,        \* what each caller is doing
          timer,       \* ticks its await may still take
          skipped,     \* peers its fetch_all_peers left out
          flight,      \* its request to each peer
          answerAge,   \* age of the document that request got
          gauge,       \* federation gauges: healthy peers, health
          gaugeAge,    \* history: ticks since the loop last set them
          lost,        \* history: rounds that raised since then
          history,     \* _history of the aggregator
          client,      \* _http_client
          closedAge    \* history: ticks since it was closed, or -1

peerVars == <<discovered, failures, seenAge, hintAge>>
callVars == <<call, timer, skipped, flight, answerAge>>
gaugeVars == <<gauge, gaugeAge, lost, history>>
clientVars == <<client, closedAge>>
vars == <<discovered, failures, seenAge, hintAge, call, timer, skipped,
          flight, answerAge, gauge, gaugeAge, lost, history, client, closedAge>>

Flights == {"none", "sent", "answered"}

Older(age) == IF age < AgeCap THEN age + 1 ELSE age

-----------------------------------------------------------------------------
(***************************************************************************)
(* FederationPeer.is_healthy                                               *)
(***************************************************************************)
FailureLimit == 3

(* Mutant of Excluded: the limit is never reached. *)
Excluded_Never(p) == FALSE

Excluded(p) == failures[p] >= FailureLimit

IsHealthy(p) == ~Excluded(p) /\ seenAge[p] <= MaxAge

(***************************************************************************)
(* aggregate_peer_metrics over the table as it is now.                     *)
(***************************************************************************)
Aggregate == AggregateOf({p \in Peers : IsHealthy(p)}, Peers)

-----------------------------------------------------------------------------
Init == /\ discovered = FALSE
        /\ failures = [p \in Peers |-> 0]
        /\ seenAge = [p \in Peers |-> AgeCap]
        /\ hintAge = [p \in Peers |-> AgeCap]
        /\ call = [c \in Callers |-> "idle"]
        /\ timer = [c \in Callers |-> Gap]
        /\ skipped = [c \in Callers |-> {}]
        /\ flight = [c \in Callers |-> [p \in Peers |-> "none"]]
        /\ answerAge = [c \in Callers |-> [p \in Peers |-> 0]]
        /\ gauge = [healthy |-> 0, health |-> "unknown"]
        /\ gaugeAge = 0 /\ lost = 0 /\ history = <<>>
        /\ client = "none" /\ closedAge = -1

(***************************************************************************)
(* discover_peers, called by start(): a new object for each configured     *)
(* peer.                                                                   *)
(***************************************************************************)
DiscoverPeers == /\ ~discovered
                 /\ discovered' = TRUE
                 /\ UNCHANGED <<failures, seenAge, hintAge, callVars, gaugeVars,
                                clientVars>>

(***************************************************************************)
(* fetch_all_peers up to the gather: fill an empty table, leave out the    *)
(* peers over the limit, send the others a request.  The first request     *)
(* makes the HTTP client; a closed one is used again, and fails.           *)
(***************************************************************************)
(* Mutant of FetchAll: peers over the limit are asked as well. *)
FetchAll_Everybody(c) ==
  /\ discovered' = TRUE
  /\ call' = [call EXCEPT ![c] = "fetching"]
  /\ timer' = [timer EXCEPT ![c] = FetchTimeout]
  /\ flight' = [flight EXCEPT ![c] = [p \in Peers |-> "sent"]]
  /\ client' = IF client = "none" THEN "open" ELSE client
  /\ UNCHANGED <<failures, seenAge, hintAge, skipped, answerAge, gaugeVars, closedAge>>

FetchAll(c) ==
  /\ discovered' = TRUE
  /\ call' = [call EXCEPT ![c] = "fetching"]
  /\ timer' = [timer EXCEPT ![c] = FetchTimeout]
  /\ skipped' = [skipped EXCEPT ![c] = {p \in Peers : Excluded(p)}]
  /\ flight' = [flight EXCEPT ![c] =
                  [p \in Peers |-> IF Excluded(p) THEN "none" ELSE "sent"]]
  /\ client' = IF client = "none" /\ \E p \in Peers : ~Excluded(p)
               THEN "open" ELSE client
  /\ UNCHANGED <<failures, seenAge, hintAge, answerAge, gaugeVars, closedAge>>

LoopFetches == /\ call[loop] = "idle"
               /\ FetchAll(loop)

(***************************************************************************)
(* A round raised before it got there: the loop logs it, sleeps and begins *)
(* another one.  It may do so any number of times.                         *)
(***************************************************************************)
RoundFails == /\ call[loop] = "idle"
              /\ timer' = [timer EXCEPT ![loop] = Gap]
              /\ lost' = IF lost < MaxLost THEN lost + 1 ELSE lost
              /\ UNCHANGED <<peerVars, call, skipped, flight, answerAge, gauge, gaugeAge,
                             history, clientVars>>

UpdateAllPeers(u) == /\ call[u] = "idle"
                     /\ call' = [call EXCEPT ![u] = "waiting"]
                     /\ UNCHANGED <<peerVars, timer, skipped, flight, answerAge,
                                    gaugeVars, clientVars>>

AcquireLock(u) == /\ call[u] = "waiting"
                  /\ \A v \in Updaters : call[v] # "fetching"
                  /\ FetchAll(u)

(***************************************************************************)
(* fetch_peer_capacity: the peer produces an answer, a document made age   *)
(* ticks ago; it is read; or the fetch fails, whether or not the peer      *)
(* answered.                                                               *)
(***************************************************************************)
PeerAnswers(c, p, age) ==
  /\ flight[c][p] = "sent" /\ client = "open"
  /\ flight' = [flight EXCEPT ![c][p] = "answered"]
  /\ answerAge' = [answerAge EXCEPT ![c][p] = age]
  /\ UNCHANGED <<peerVars, call, timer, skipped, gaugeVars, clientVars>>

Landed(c, p) == /\ flight' = [flight EXCEPT ![c][p] = "none"]
                /\ answerAge' = [answerAge EXCEPT ![c][p] = 0]
                /\ UNCHANGED <<discovered, call, timer, skipped, gaugeVars, clientVars>>

FetchSucceeds(c, p) ==
  /\ flight[c][p] = "answered"
  /\ hintAge' = [hintAge EXCEPT ![p] = answerAge[c][p]]
  /\ seenAge' = [seenAge EXCEPT ![p] = 0]
  /\ failures' = [failures EXCEPT ![p] = 0]
  /\ Landed(c, p)

(* Mutants of FetchFails: a failed fetch counts as a sighting; it throws   *)
(* the last hint away; without a timeout only an answer ends a fetch.      *)
FetchFails_Touch(c, p) ==
  /\ flight[c][p] # "none"
  /\ failures' = [failures EXCEPT ![p] = @ + 1]
  /\ seenAge' = [seenAge EXCEPT ![p] = 0]
  /\ UNCHANGED hintAge
  /\ Landed(c, p)

FetchFails_Forgets(c, p) ==
  /\ flight[c][p] # "none"
  /\ failures' = [failures EXCEPT ![p] = @ + 1]
  /\ hintAge' = [hintAge EXCEPT ![p] = AgeCap]
  /\ UNCHANGED seenAge
  /\ Landed(c, p)

FetchFails_NoTimeout(c, p) ==
  /\ flight[c][p] = "answered"
  /\ failures' = [failures EXCEPT ![p] = @ + 1]
  /\ UNCHANGED <<seenAge, hintAge>>
  /\ Landed(c, p)

FetchFails(c, p) ==
  /\ flight[c][p] # "none"
  /\ failures' = [failures EXCEPT ![p] = @ + 1]
  /\ UNCHANGED <<seenAge, hintAge>>
  /\ Landed(c, p)

(***************************************************************************)
(* The gather is complete.  The results are zipped with all the peers,     *)
(* strictly, so the call raises if it left any out.                        *)
(***************************************************************************)
(* Mutant of Complete: the gather is not awaited. *)
Complete_Early(c) == call[c] = "fetching"

Complete(c) == call[c] = "fetching" /\ \A p \in Peers : flight[c][p] = "none"

Raises(c) == Cardinality(Peers) # Cardinality(Peers \ skipped[c])

Back(c, gap) == /\ call' = [call EXCEPT ![c] = "idle"]
                /\ timer' = [timer EXCEPT ![c] = gap]
                /\ skipped' = [skipped EXCEPT ![c] = {}]
                /\ UNCHANGED <<peerVars, flight, answerAge, clientVars>>

(* Mutant of LoopAggregates: only a change of the health is published. *)
LoopAggregates_OnChange ==
  /\ Complete(loop) /\ ~Raises(loop)
  /\ IF Aggregate = gauge THEN UNCHANGED <<gauge, gaugeAge>>
                          ELSE gauge' = Aggregate /\ gaugeAge' = 0
  /\ lost' = 0
  /\ history' = Recorded(history, Aggregate)
  /\ Back(loop, Gap)

LoopAggregates == /\ Complete(loop) /\ ~Raises(loop)
                  /\ gauge' = Aggregate
                  /\ gaugeAge' = 0 /\ lost' = 0
                  /\ history' = Recorded(history, Aggregate)
                  /\ Back(loop, Gap)

LoopCatches == /\ Complete(loop) /\ Raises(loop)
               /\ UNCHANGED gaugeVars
               /\ Back(loop, Gap)

(* Leaving the "async with": normally, or with the exception. *)
(* Mutant of UpdateReturns: the exception leaves the lock taken. *)
UpdateReturns_KeepsLock(u) == /\ Complete(u) /\ ~Raises(u)
                              /\ UNCHANGED gaugeVars
                              /\ Back(u, 0)

UpdateReturns(u) == /\ Complete(u)
                    /\ UNCHANGED gaugeVars
                    /\ Back(u, 0)

(***************************************************************************)
(* generate_federation_report, for GET /federated/metrics of a publisher   *)
(* that was given the discovery and the aggregator: aggregates as well.    *)
(***************************************************************************)
Report == /\ discovered
          /\ history' = Recorded(history, Aggregate)
          /\ UNCHANGED <<peerVars, callVars, gauge, gaugeAge, lost, clientVars>>

(***************************************************************************)
(* The daemon's stop(): the loop is cancelled with what it has under way,  *)
(* which counts as no failure of the peers, and then the client is closed, *)
(* if there is one.                                                        *)
(***************************************************************************)
StopLoop == /\ call[loop] # "stopped"
            /\ call' = [call EXCEPT ![loop] = "stopped"]
            /\ timer' = [timer EXCEPT ![loop] = 0]
            /\ skipped' = [skipped EXCEPT ![loop] = {}]
            /\ flight' = [flight EXCEPT ![loop] = [p \in Peers |-> "none"]]
            /\ answerAge' = [answerAge EXCEPT ![loop] = [p \in Peers |-> 0]]
            /\ UNCHANGED <<peerVars, gaugeVars, clientVars>>

(* Mutant of CloseClient: the reference is dropped, so a fetch makes a new one. *)
CloseClient_Drops == /\ call[loop] = "stopped" /\ client = "open"
                     /\ client' = "none" /\ closedAge' = 0
                     /\ UNCHANGED <<peerVars, callVars, gaugeVars>>

CloseClient == /\ call[loop] = "stopped" /\ client = "open"
               /\ client' = "closed" /\ closedAge' = 0
               /\ UNCHANGED <<peerVars, callVars, gaugeVars>>

(***************************************************************************)
(* A tick: no fetch outlives its time, and within Gap the loop comes back  *)
(* to its next fetch, or raises.                                           *)
(***************************************************************************)
Bounded(c) == call[c] = "fetching" \/ (c = loop /\ call[c] = "idle")

Tick == /\ \A c \in Callers : Bounded(c) => timer[c] > 0
        /\ timer' = [c \in Callers |-> IF Bounded(c) THEN timer[c] - 1 ELSE timer[c]]
        /\ seenAge' = [p \in Peers |-> Older(seenAge[p])]
        /\ hintAge' = [p \in Peers |-> Older(hintAge[p])]
        /\ answerAge' = [c \in Callers |-> [p \in Peers |->
                           IF flight[c][p] = "answered" THEN Older(answerAge[c][p]) ELSE 0]]
        /\ gaugeAge' = Older(gaugeAge)
        /\ closedAge' = IF closedAge >= 0 THEN Older(closedAge) ELSE closedAge
        /\ UNCHANGED <<discovered, failures, call, skipped, flight, gauge, lost, history, client>>

Landing(c) == \E p \in Peers : FetchSucceeds(c, p) \/ FetchFails(c, p)

Local == \/ DiscoverPeers
         \/ LoopFetches \/ RoundFails \/ LoopAggregates \/ LoopCatches
         \/ \E u \in Updaters : UpdateAllPeers(u) \/ AcquireLock(u) \/ UpdateReturns(u)
         \/ \E c \in Callers : Landing(c)
         \/ StopLoop \/ CloseClient

Answering == \E c \in Callers, p \in Peers, age \in 0 .. TTL : PeerAnswers(c, p, age)

Next == Local \/ Report \/ Answering \/ Tick

Spec == Init /\ [][Next]_vars

(***************************************************************************)
(* Every request gets an outcome (the timeout at the latest) and whoever   *)
(* can run does; the lock is handed over in the order it was asked for, so *)
(* no waiting updater is passed over for ever.                             *)
(***************************************************************************)
FairSpec == /\ Spec
            /\ \A c \in Callers : WF_vars(Landing(c))
            /\ WF_vars(LoopAggregates \/ LoopCatches)
            /\ \A u \in Updaters : WF_vars(UpdateReturns(u)) /\ SF_vars(AcquireLock(u))

-----------------------------------------------------------------------------
(* Values the code can give; requests only exist within a fetch and never  *)
(* to a peer that fetch left out.                                          *)
TypeOK ==
  /\ discovered \in BOOLEAN
  /\ failures \in [Peers -> Nat]
  /\ seenAge \in [Peers -> 0 .. AgeCap] /\ hintAge \in [Peers -> 0 .. AgeCap]
  /\ call \in [Callers -> {"idle", "waiting", "fetching", "stopped"}]
  /\ timer \in [Callers -> Nat]
  /\ skipped \in [Callers -> SUBSET Peers]
  /\ flight \in [Callers -> [Peers -> Flights]]
  /\ answerAge \in [Callers -> [Peers -> 0 .. AgeCap]]
  /\ gauge.healthy \in Nat /\ gaugeAge \in 0 .. AgeCap /\ lost \in 0 .. MaxLost
  /\ history \in Seq([healthy : Nat, health : HealthLevels])
  /\ client \in {"none", "open", "closed"} /\ closedAge \in -1 .. AgeCap
  /\ \A c \in Callers, p \in Peers :
       flight[c][p] # "none" => call[c] = "fetching" /\ p \notin skipped[c]

InFlight(p) == {c \in Callers : flight[c][p] # "none"}

(* However the loop's fetches and those of update_all_peers overlap, a     *)
(* peer collects no more failures than the limit and one for each request  *)
(* that was already under way when it was reached.                         *)
FailuresBounded ==
  \A p \in Peers : failures[p] + Cardinality(InFlight(p)) < FailureLimit + Cardinality(Callers)

(* A peer counted healthy is known from a document that was made no longer *)
(* ago than its time to live, one fetch and the is_healthy window.         *)
HealthyIsFresh ==
  \A p \in Peers : IsHealthy(p) => hintAge[p] <= TTL + FetchTimeout + MaxAge

(* A later fetch of the loop never brings back an older document.          *)
HintNeverGoesBack == [][\A p \in Peers : hintAge'[p] <= Older(hintAge[p])]_vars

(* As long as no peer is over the limit, the federation gauges are set     *)
(* anew by every fetch of the loop: they are late by no more than the      *)
(* rounds that raised before one (main.py:362), which nothing bounds.      *)
LoopPeriod == Gap + FetchTimeout
Lateness == LoopPeriod + lost * Gap

GaugesFollow ==
  call[loop] # "stopped" /\ lost < MaxLost /\ Lateness < AgeCap => gaugeAge <= Lateness

GaugesKeepUpUntilExclusion == (\A p \in Peers : ~Excluded(p)) => GaugesFollow

(* A peer over the limit is never asked again: it stays excluded, unless   *)
(* an answer to a request of before still arrives (discovery.py:188).      *)
OnlyAnAnswerReadmits ==
  [][\A p \in Peers : Excluded(p) /\ InFlight(p) = {} =>
        Excluded(p)' /\ InFlight(p)' = {}]_vars

(* Once the client is closed, close() leaves it in place and every fetch   *)
(* fails; so nobody is presented as healthy for longer than one fetch and  *)
(* the window, however often update_all_peers is called.                   *)
SilentAfterClose ==
  closedAge > FetchTimeout + MaxAge => \A p \in Peers : ~IsHealthy(p)

(* The aggregator's memory stays within its limit, also when reports are   *)
(* asked for between two rounds; a limit of zero is none at all.           *)
HistoryIsBounded == MaxHistory > 0 => Len(history) <= MaxHistory

(* Every fetch ends, and every caller of update_all_peers gets its turn,   *)
(* also after a fetch that raised and after the client was closed.         *)
FetchEnds == \A c \in Callers : call[c] = "fetching" ~> call[c] # "fetching"
UpdaterIsServed == \A u \in Updaters : call[u] = "waiting" ~> call[u] = "idle"

(* docs/FEDERATION.md:181: a peer that is unavailable is excluded from the *)
(* aggregation without failing the rest; the gauges follow every fetch.    *)
GaugesKeepUp == GaugesFollow
=============================================================================
