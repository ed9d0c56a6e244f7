-------------------------- MODULE Federation_proofs --------------------------
(***************************************************************************)
(* Proofs about Federation, for any number of peers and of callers and     *)
(* every value of the times: the peers give the discovery no answer it     *)
(* does not allow for, so what is proved of FederationDiscovery holds of   *)
(* it among such peers; a peer that went away is noticed in time; a loop   *)
(* that fetches alone is never told something older than it knows; and the *)
(* trend read from the history the loop has written is the one it claims.  *)
(***************************************************************************)
EXTENDS Federation, FederationDiscovery_proofs, MetricsAggregator_proofs

PeerType ==
  /\ running \in [Peers -> BOOLEAN] /\ serving \in [Peers -> BOOLEAN]
  /\ docAge \in [Peers -> 0 .. TTL + 1]
  /\ goneAge \in [Peers -> 0 .. AgeCap]

(* One step of a peer's site. *)
PeerStep(p) == \/ Sites!Publish(p) \/ Sites!Stop(p) \/ Sites!Close(p)
               \/ Sites!Crash(p) \/ Sites!Restart(p)

LEMMA PeerStepType ==
  ASSUME PeerType, NEW p \in Peers, PeerStep(p)
  PROVE  /\ running' \in [Peers -> BOOLEAN] /\ serving' \in [Peers -> BOOLEAN]
         /\ docAge' \in [Peers -> 0 .. TTL + 1]
         /\ \A q \in Peers : q # p => serving'[q] = serving[q] /\ docAge'[q] = docAge[q]
         /\ docAge'[p] \in {0, docAge[p], TTL + 1}
<1>0. 0 \in 0 .. TTL + 1 /\ TTL + 1 \in 0 .. TTL + 1
  BY DiscoveryAssumption
<1>1. CASE Sites!Publish(p)
  BY <1>0, <1>1 DEF Sites!Publish, PeerType
<1>2. CASE Sites!Stop(p)
  BY <1>0, <1>2 DEF Sites!Stop, PeerType
<1>3. CASE Sites!Close(p)
  BY <1>0, <1>3 DEF Sites!Close, PeerType
<1>4. CASE Sites!Crash(p)
  BY <1>0, <1>4 DEF Sites!Crash, PeerType
<1>5. CASE Sites!Restart(p)
  BY <1>0, <1>5 DEF Sites!Restart, PeerType
<1>. QED
  BY <1>1, <1>2, <1>3, <1>4, <1>5 DEF PeerStep

(* What a tick does to the age of a document, and of a peer's absence.     *)
LEMMA PeerTick ==
  ASSUME PeerType, FedTick
  PROVE  /\ UNCHANGED <<running, serving>>
         /\ \A p \in Peers : /\ docAge'[p] = IF docAge[p] < TTL + 1 THEN docAge[p] + 1 ELSE docAge[p]
                             /\ goneAge'[p] = IF serving[p] THEN 0 ELSE Older(goneAge[p])
         /\ docAge' \in [Peers -> 0 .. TTL + 1] /\ goneAge' \in [Peers -> 0 .. AgeCap]
<1>1. /\ UNCHANGED <<running, serving>>
      /\ docAge' = [p \in Peers |-> IF docAge[p] < TTL + 1 THEN docAge[p] + 1 ELSE docAge[p]]
      /\ goneAge' = [p \in Peers |-> IF serving[p] THEN 0 ELSE Older(goneAge[p])]
  BY DEF FedTick, Sites!Tick, Sites!Aged
<1>2. ASSUME NEW p \in Peers
      PROVE  /\ (IF docAge[p] < TTL + 1 THEN docAge[p] + 1 ELSE docAge[p]) \in 0 .. TTL + 1
             /\ (IF serving[p] THEN 0 ELSE Older(goneAge[p])) \in 0 .. AgeCap
  <2>1. docAge[p] \in 0 .. TTL + 1 /\ goneAge[p] \in 0 .. AgeCap
    BY DEF PeerType
  <2>. QED
    BY <2>1, OlderType, DiscoveryAssumption
<1>. QED
  BY <1>1, <1>2

LEMMA PeerTypeStep == PeerType /\ [FedNext]_allVars => PeerType'
<1>. SUFFICES ASSUME PeerType, [FedNext]_allVars PROVE PeerType'
  OBVIOUS
<1>1. CASE FedTick
  BY <1>1, PeerTick DEF PeerType
<1>2. ASSUME NEW p \in Peers, PeerChanges(p) PROVE PeerType'
  <2>1. PeerStep(p) /\ goneAge' = [goneAge EXCEPT ![p] = 0]
    BY <1>2 DEF PeerChanges, PeerStep
  <2>2. goneAge' \in [Peers -> 0 .. AgeCap]
    BY <2>1, DiscoveryAssumption DEF PeerType
  <2>. QED
    BY <2>1, <2>2, PeerStepType DEF PeerType
<1>3. CASE UNCHANGED <<running, serving, docAge, goneAge>>
  BY <1>3 DEF PeerType
<1>. QED
  BY <1>1, <1>2, <1>3 DEF FedNext, Discovery, PeerReplies, peerSiteVars, allVars

(* Peers that behave as PublishedSites only hand out documents the         *)
(* discovery is modelled for.                                              *)
LEMMA DiscoveryStep == PeerType /\ [FedNext]_allVars => [Next]_vars
<1>. SUFFICES ASSUME PeerType, [FedNext]_allVars PROVE [Next]_vars
  OBVIOUS
<1>1. CASE Discovery \/ FedTick
  BY <1>1 DEF Discovery, FedTick, Next
<1>2. ASSUME NEW c \in Callers, NEW p \in Peers, PeerReplies(c, p) PROVE [Next]_vars
  <2>1. docAge[p] \in 0 .. TTL
    BY <1>2, DiscoveryAssumption DEF PeerReplies, Sites!CanAnswer, PeerType
  <2>2. PeerAnswers(c, p, docAge[p])
    BY <1>2 DEF PeerReplies
  <2>. QED
    BY <2>1, <2>2 DEF Next, Answering
<1>3. ASSUME NEW p \in Peers, PeerChanges(p) PROVE [Next]_vars
  BY <1>3 DEF PeerChanges
<1>4. CASE UNCHANGED allVars
  BY <1>4 DEF allVars
<1>. QED
  BY <1>1, <1>2, <1>3, <1>4 DEF FedNext

LEMMA PeerTypeInit == FedInit => PeerType
<1>1. 0 \in 0 .. TTL + 1 /\ TTL + 1 \in 0 .. TTL + 1 /\ 0 \in 0 .. AgeCap
  BY DiscoveryAssumption
<1>. QED
  BY <1>1 DEF FedInit, Sites!Init, PeerType

(* The discovery among peers that publish, stop, crash and come back is    *)
(* the discovery of FederationDiscovery.                                   *)
THEOREM DiscoveryAmongPeers == FedSpec => Spec
<1>1. FedInit => Init
  BY DEF FedInit
<1>. QED
  BY <1>1, PeerTypeInit, PeerTypeStep, DiscoveryStep, PTL DEF FedSpec, Spec

-----------------------------------------------------------------------------
(***************************************************************************)
(* A peer that is gone cannot answer; what it answered before has run out  *)
(* one fetch later.                                                        *)
(***************************************************************************)
Departure ==
  \A p \in Peers : ~serving[p] =>
    /\ \A c \in Callers : flight[c][p] = "answered" => timer[c] + goneAge[p] <= FetchTimeout
    /\ goneAge[p] <= FetchTimeout + seenAge[p]

(* A step of the discovery adds no answer of a peer that is gone. *)
LEMMA DepartureLocal ==
  ASSUME TypeOK, PeerType, Freshness, Departure, Local, UNCHANGED <<serving, goneAge>>
  PROVE  Departure'
<1>. SUFFICES ASSUME NEW p \in Peers, ~serving[p]
              PROVE  /\ \A c \in Callers :
                          flight'[c][p] = "answered" => timer'[c] + goneAge[p] <= FetchTimeout
                     /\ goneAge[p] <= FetchTimeout + seenAge'[p]
  BY DEF Departure
<1>1. \A c \in Callers : flight[c][p] = "answered" => timer[c] + goneAge[p] <= FetchTimeout
  BY DEF Departure
<1>2. goneAge[p] <= FetchTimeout + seenAge[p]
  BY DEF Departure
<1>3. \A c \in Callers : flight'[c][p] = "answered" => flight[c][p] = "answered" /\ timer'[c] = timer[c]
  <2>0. loop \in Callers /\ Updaters \subseteq Callers
    BY DEF Callers
  <2>1. CASE DiscoverPeers \/ CloseClient \/ \E u \in Updaters : UpdateAllPeers(u)
    BY <2>1 DEF DiscoverPeers, CloseClient, UpdateAllPeers, callVars
  <2>2. CASE StopLoop
    BY <2>2 DEF StopLoop, TypeOK
  <2>3. ASSUME NEW d \in Callers, FetchAll(d)
        PROVE  \A c \in Callers :
                 flight'[c][p] = "answered" => flight[c][p] = "answered" /\ timer'[c] = timer[c]
    BY <2>3 DEF FetchAll, TypeOK
  <2>4. ASSUME NEW d \in Callers, Complete(d), NEW gap, Back(d, gap)
        PROVE  \A c \in Callers :
                 flight'[c][p] = "answered" => flight[c][p] = "answered" /\ timer'[c] = timer[c]
    BY <2>4 DEF Complete, Back, TypeOK
  <2>5. ASSUME NEW d \in Callers, NEW q \in Peers, FetchSucceeds(d, q) \/ FetchFails(d, q)
        PROVE  \A c \in Callers :
                 flight'[c][p] = "answered" => flight[c][p] = "answered" /\ timer'[c] = timer[c]
    <3>1. flight' = [flight EXCEPT ![d][q] = "none"] /\ UNCHANGED timer
      BY <2>5 DEF FetchSucceeds, FetchFails, Landed
    <3>. QED
      BY <3>1 DEF TypeOK
  <2>6. CASE RoundFails
    BY <2>0, <2>6, AnsweredWithin DEF RoundFails, TypeOK
  <2>. QED
    BY <2>0, <2>1, <2>2, <2>3, <2>4, <2>5, <2>6
       DEF Local, Landing, LoopFetches, LoopAggregates, LoopCatches, AcquireLock, UpdateReturns
<1>4. CASE seenAge'[p] = seenAge[p]
  BY <1>1, <1>2, <1>3, <1>4
<1>5. CASE \E c \in Callers : FetchSucceeds(c, p)
  <2>1. PICK c \in Callers : FetchSucceeds(c, p)
    BY <1>5
  <2>2. seenAge'[p] = 0 /\ flight[c][p] = "answered" /\ timer[c] \in Nat /\ goneAge[p] \in 0 .. AgeCap
    BY <2>1 DEF FetchSucceeds, TypeOK, PeerType
  <2>3. timer[c] + goneAge[p] <= FetchTimeout
    BY <1>1, <2>2
  <2>4. goneAge[p] <= FetchTimeout + seenAge'[p]
    BY <2>2, <2>3, DiscoveryAssumption
  <2>. QED
    BY <1>1, <1>3, <2>4
<1>6. seenAge'[p] = seenAge[p] \/ \E c \in Callers : FetchSucceeds(c, p)
  <2>1. ASSUME NEW c \in Callers, NEW q \in Peers, q # p, FetchSucceeds(c, q)
        PROVE  seenAge'[p] = seenAge[p]
    BY <2>1 DEF FetchSucceeds, TypeOK
  <2>. QED
    BY <2>1 DEF Local, Landing, DiscoverPeers, LoopFetches, FetchAll, RoundFails, LoopAggregates,
         LoopCatches, Back, UpdateAllPeers, AcquireLock, UpdateReturns, FetchFails, StopLoop, CloseClient, peerVars
<1>. QED
  BY <1>4, <1>5, <1>6

LEMMA DepartureTick ==
  ASSUME TypeOK, PeerType, Departure, FedTick
  PROVE  Departure'
<1>. SUFFICES ASSUME NEW p \in Peers, ~serving'[p]
              PROVE  /\ \A c \in Callers :
                          flight'[c][p] = "answered" => timer'[c] + goneAge'[p] <= FetchTimeout
                     /\ goneAge'[p] <= FetchTimeout + seenAge'[p]
  BY DEF Departure
<1>1. /\ ~serving[p] /\ goneAge'[p] = Older(goneAge[p]) /\ goneAge[p] \in 0 .. AgeCap
      /\ seenAge'[p] = Older(seenAge[p]) /\ seenAge[p] \in 0 .. AgeCap
  BY PeerTick DEF FedTick, Tick, TypeOK, PeerType
<1>2. goneAge'[p] \in 0 .. AgeCap /\ goneAge'[p] <= goneAge[p] + 1
  BY <1>1, OlderType
<1>3. ASSUME NEW c \in Callers, flight'[c][p] = "answered"
      PROVE  timer'[c] + goneAge'[p] <= FetchTimeout
  <2>1. flight[c][p] = "answered" /\ call[c] = "fetching" /\ timer[c] \in Nat
    BY <1>3 DEF FedTick, Tick, TypeOK
  <2>2. timer'[c] = timer[c] - 1
    BY <2>1 DEF FedTick, Tick, Bounded
  <2>3. timer[c] + goneAge[p] <= FetchTimeout
    BY <1>1, <2>1 DEF Departure
  <2>. QED
    BY <1>1, <1>2, <2>1, <2>2, <2>3, DiscoveryAssumption
<1>4. goneAge[p] <= FetchTimeout + seenAge[p]
  BY <1>1 DEF Departure
<1>5. goneAge'[p] <= FetchTimeout + seenAge'[p]
  BY <1>1, <1>4, DiscoveryAssumption DEF Older
<1>. QED
  BY <1>3, <1>5

LEMMA DepartureStep ==
  ASSUME TypeOK, PeerType, Freshness, Departure, [FedNext]_allVars
  PROVE  Departure'
<1>1. CASE Discovery
  BY <1>1, DepartureLocal DEF Discovery, peerSiteVars
<1>2. CASE FedTick
  BY <1>2, DepartureTick
<1>3. ASSUME NEW c \in Callers, NEW p \in Peers, PeerReplies(c, p) PROVE Departure'
  <2>1. /\ serving[p] /\ UNCHANGED <<serving, goneAge, seenAge, timer>>
        /\ flight' = [flight EXCEPT ![c][p] = "answered"]
    BY <1>3 DEF PeerReplies, PeerAnswers, Sites!CanAnswer, peerSiteVars, peerVars
  <2>2. \A d \in Callers, q \in Peers : q # p => flight'[d][q] = flight[d][q]
    BY <2>1 DEF TypeOK
  <2>. QED
    BY <2>1, <2>2 DEF Departure
<1>4. ASSUME NEW p \in Peers, PeerChanges(p) PROVE Departure'
  <2>1. /\ UNCHANGED <<flight, timer, seenAge>> /\ goneAge' = [goneAge EXCEPT ![p] = 0]
        /\ \A q \in Peers : q # p => serving'[q] = serving[q]
    BY <1>4, PeerStepType DEF PeerChanges, PeerStep, vars
  <2>2. goneAge'[p] = 0 /\ \A q \in Peers : q # p => goneAge'[q] = goneAge[q]
    BY <2>1 DEF PeerType
  <2>3. \A c \in Callers : flight[c][p] = "answered" => timer[c] \in Nat /\ timer[c] <= FetchTimeout
    BY DEF TypeOK, Freshness
  <2>4. seenAge[p] \in 0 .. AgeCap
    BY DEF TypeOK
  <2>5. /\ \A c \in Callers : flight'[c][p] = "answered" => timer'[c] + goneAge'[p] <= FetchTimeout
        /\ goneAge'[p] <= FetchTimeout + seenAge'[p]
    BY <2>1, <2>2, <2>3, <2>4, DiscoveryAssumption
  <2>. QED
    BY <2>1, <2>2, <2>5 DEF Departure
<1>5. CASE UNCHANGED allVars
  BY <1>5 DEF allVars, vars, peerSiteVars, Departure
<1>. QED
  BY <1>1, <1>2, <1>3, <1>4, <1>5 DEF FedNext

LEMMA DepartureEnough == TypeOK /\ PeerType /\ Departure => GoneIsNoticed
<1>. SUFFICES ASSUME TypeOK, PeerType, Departure, NEW p \in Peers, ~serving[p],
                     goneAge[p] > FetchTimeout + MaxAge
              PROVE  ~(seenAge[p] <= MaxAge)
  BY DEF GoneIsNoticed, IsHealthy
<1>1. goneAge[p] \in 0 .. AgeCap /\ seenAge[p] \in 0 .. AgeCap
  BY DEF TypeOK, PeerType
<1>2. goneAge[p] <= FetchTimeout + seenAge[p]
  BY DEF Departure
<1>. QED
  BY <1>1, <1>2, DiscoveryAssumption

(* A peer that stopped or crashed is presented as healthy for no longer    *)
(* than one fetch and the is_healthy window.                               *)
THEOREM DepartureIsNoticed == FedSpec => []GoneIsNoticed
<1>1. FedInit => Init /\ Departure
  BY DiscoveryAssumption DEF FedInit, Sites!Init, Init, Departure
<1>. QED
  BY <1>1, PeerTypeInit, PeerTypeStep, DiscoveryStep, TypeInit, TypeStep, FreshInit, FreshStep,
     DepartureStep, DepartureEnough, PTL DEF FedSpec

-----------------------------------------------------------------------------
(***************************************************************************)
(* What a peer can still hand out is no older than what the loop knows of  *)
(* it, and than what it has already handed out: documents only get newer,  *)
(* and a restarted peer has none until it made one.                        *)
(***************************************************************************)
Newer ==
  \A p \in Peers :
    /\ docAge[p] <= TTL => docAge[p] <= hintAge[p]
    /\ flight[loop][p] = "answered" =>
         /\ answerAge[loop][p] <= hintAge[p]
         /\ docAge[p] <= TTL => docAge[p] <= answerAge[loop][p]

LEMMA NewerLocal ==
  ASSUME Updaters = {}, TypeOK, PeerType, Newer, Local, UNCHANGED docAge
  PROVE  Newer' /\ \A p \in Peers : hintAge'[p] <= hintAge[p]
<1>0. Callers = {loop} /\ \A p \in Peers : hintAge[p] \in 0 .. AgeCap
  BY DEF Callers, TypeOK
<1>1. ASSUME UNCHANGED hintAge,
             \A p \in Peers : flight'[loop][p] = "answered" =>
                flight[loop][p] = "answered" /\ answerAge'[loop][p] = answerAge[loop][p]
      PROVE  Newer' /\ \A p \in Peers : hintAge'[p] <= hintAge[p]
  BY <1>0, <1>1 DEF Newer
<1>2. CASE DiscoverPeers \/ CloseClient \/ RoundFails
  BY <1>1, <1>2 DEF DiscoverPeers, CloseClient, RoundFails, callVars, peerVars
<1>3. CASE LoopFetches
  <2>1. \A p \in Peers : flight'[loop][p] # "answered"
    BY <1>0, <1>3 DEF LoopFetches, FetchAll, TypeOK
  <2>. QED
    BY <1>1, <1>3, <2>1 DEF LoopFetches, FetchAll
<1>4. CASE LoopAggregates \/ LoopCatches
  BY <1>1, <1>4 DEF LoopAggregates, LoopCatches, Back, peerVars
<1>5. CASE StopLoop
  <2>1. \A p \in Peers : flight'[loop][p] # "answered"
    BY <1>0, <1>5 DEF StopLoop, TypeOK
  <2>. QED
    BY <1>1, <1>5, <2>1 DEF StopLoop, peerVars
<1>6. ASSUME NEW p \in Peers, FetchFails(loop, p)
      PROVE  Newer' /\ \A q \in Peers : hintAge'[q] <= hintAge[q]
  <2>1. \A q \in Peers : flight'[loop][q] = "answered" =>
                flight[loop][q] = "answered" /\ answerAge'[loop][q] = answerAge[loop][q]
    BY <1>0, <1>6 DEF FetchFails, Landed, TypeOK
  <2>. QED
    BY <1>1, <1>6, <2>1 DEF FetchFails
<1>7. ASSUME NEW p \in Peers, FetchSucceeds(loop, p)
      PROVE  Newer' /\ \A q \in Peers : hintAge'[q] <= hintAge[q]
  <2>1. /\ flight[loop][p] = "answered" /\ hintAge'[p] = answerAge[loop][p]
        /\ flight'[loop][p] = "none"
    BY <1>0, <1>7 DEF FetchSucceeds, Landed, TypeOK
  <2>2. \A q \in Peers : q # p => /\ hintAge'[q] = hintAge[q]
                              /\ flight'[loop][q] = flight[loop][q]
                              /\ answerAge'[loop][q] = answerAge[loop][q]
    BY <1>0, <1>7 DEF FetchSucceeds, Landed, TypeOK
  <2>. QED
    BY <1>0, <2>1, <2>2 DEF Newer
<1>. QED
  BY <1>0, <1>2, <1>3, <1>4, <1>5, <1>6, <1>7 DEF Local, Landing

LEMMA NewerTick ==
  ASSUME Updaters = {}, TypeOK, PeerType, Newer, FedTick
  PROVE  Newer' /\ \A p \in Peers : hintAge'[p] = Older(hintAge[p])
<1>0. Callers = {loop}
  BY DEF Callers
<1>1. ASSUME NEW p \in Peers
      PROVE  /\ hintAge'[p] = Older(hintAge[p])
             /\ docAge'[p] <= TTL => docAge'[p] <= hintAge'[p]
             /\ flight'[loop][p] = "answered" =>
                  /\ answerAge'[loop][p] <= hintAge'[p]
                  /\ docAge'[p] <= TTL => docAge'[p] <= answerAge'[loop][p]
  <2>1. /\ hintAge'[p] = Older(hintAge[p]) /\ hintAge[p] \in 0 .. AgeCap
        /\ docAge'[p] = IF docAge[p] < TTL + 1 THEN docAge[p] + 1 ELSE docAge[p]
        /\ docAge[p] \in 0 .. TTL + 1 /\ answerAge[loop][p] \in 0 .. AgeCap
    BY <1>0, PeerTick DEF FedTick, Tick, TypeOK, PeerType
  <2>2. docAge'[p] <= TTL => docAge'[p] <= hintAge'[p]
    BY <2>1, DiscoveryAssumption DEF Older, Newer
  <2>3. ASSUME flight'[loop][p] = "answered"
        PROVE  /\ answerAge'[loop][p] <= hintAge'[p]
               /\ docAge'[p] <= TTL => docAge'[p] <= answerAge'[loop][p]
    <3>1. flight[loop][p] = "answered" /\ answerAge'[loop][p] = Older(answerAge[loop][p])
      BY <1>0, <2>3 DEF FedTick, Tick
    <3>2. /\ answerAge[loop][p] <= hintAge[p]
          /\ docAge[p] <= TTL => docAge[p] <= answerAge[loop][p]
      BY <3>1 DEF Newer
    <3>. QED
      BY <2>1, <3>1, <3>2, DiscoveryAssumption DEF Older
  <2>. QED
    BY <2>1, <2>2, <2>3
<1>. QED
  BY <1>1 DEF Newer

LEMMA NewerStep ==
  ASSUME Updaters = {}, TypeOK, PeerType, Newer, [FedNext]_allVars
  PROVE  Newer' /\ \A p \in Peers : hintAge'[p] <= Older(hintAge[p])
<1>0. /\ loop \in Callers /\ Callers = {loop}
      /\ \A p \in Peers : hintAge[p] \in 0 .. AgeCap /\ docAge[p] \in 0 .. TTL + 1
      /\ \A p \in Peers : hintAge[p] <= Older(hintAge[p]) /\ Older(hintAge[p]) \in 0 .. AgeCap
  BY OlderType DEF Callers, TypeOK, PeerType
<1>1. CASE Discovery
  <2>1. Newer' /\ \A p \in Peers : hintAge'[p] <= hintAge[p]
    BY <1>1, NewerLocal DEF Discovery, peerSiteVars
  <2>2. Local => TypeOK'
    BY LocalType
  <2>3. \A p \in Peers : hintAge'[p] \in 0 .. AgeCap
    BY <1>1, <2>2 DEF Discovery, TypeOK
  <2>. QED
    BY <1>0, <2>1, <2>3, DiscoveryAssumption
<1>2. CASE FedTick
  BY <1>0, <1>2, NewerTick
<1>3. ASSUME NEW p \in Peers, PeerReplies(loop, p)
      PROVE  Newer' /\ \A q \in Peers : hintAge'[q] <= Older(hintAge[q])
  <2>1. /\ docAge[p] <= TTL /\ UNCHANGED <<docAge, hintAge>>
        /\ flight' = [flight EXCEPT ![loop][p] = "answered"]
        /\ answerAge' = [answerAge EXCEPT ![loop][p] = docAge[p]]
    BY <1>3 DEF PeerReplies, PeerAnswers, Sites!CanAnswer, peerSiteVars, peerVars
  <2>2. /\ answerAge'[loop][p] = docAge[p]
        /\ \A q \in Peers : q # p => /\ flight'[loop][q] = flight[loop][q]
                                  /\ answerAge'[loop][q] = answerAge[loop][q]
    BY <1>0, <2>1 DEF TypeOK
  <2>. QED
    BY <1>0, <2>1, <2>2 DEF Newer
<1>4. ASSUME NEW p \in Peers, PeerChanges(p)
      PROVE  Newer' /\ \A q \in Peers : hintAge'[q] <= Older(hintAge[q])
  <2>1. /\ UNCHANGED <<flight, answerAge, hintAge>>
        /\ docAge'[p] \in {0, docAge[p], TTL + 1}
        /\ \A q \in Peers : q # p => docAge'[q] = docAge[q]
    BY <1>4, PeerStepType DEF PeerChanges, PeerStep, vars
  <2>2. answerAge[loop][p] \in 0 .. AgeCap
    BY <1>0 DEF TypeOK
  <2>. QED
    BY <1>0, <2>1, <2>2, DiscoveryAssumption DEF Newer
<1>5. CASE UNCHANGED allVars
  BY <1>0, <1>5 DEF allVars, vars, peerSiteVars, Newer
<1>. QED
  BY <1>0, <1>1, <1>2, <1>3, <1>4, <1>5 DEF FedNext

(* When only the loop fetches, what it knows of a peer is never replaced   *)
(* by something older, whatever crashes, delays and losses there were.     *)
THEOREM HintsGetNewer ==
  ASSUME Updaters = {}
  PROVE  FedSpec => HintNeverGoesBack
<1>1. FedInit => Init /\ Newer
  BY DiscoveryAssumption DEF FedInit, Sites!Init, Init, Newer, Callers
<1>2. TypeOK /\ PeerType /\ Newer /\ [FedNext]_allVars => Newer'
  BY NewerStep
<1>3. TypeOK /\ PeerType /\ Newer /\ [FedNext]_allVars =>
        [\A p \in Peers : hintAge'[p] <= Older(hintAge[p])]_vars
  BY NewerStep
<1>. QED
  BY <1>1, <1>2, <1>3, PeerTypeInit, PeerTypeStep, DiscoveryStep, TypeInit, TypeStep, PTL
     DEF FedSpec, HintNeverGoesBack

-----------------------------------------------------------------------------
(* The healthy-peer counts in the aggregator's history, which is what      *)
(* get_historical_trend("healthy_peer_count", w) reads.                    *)
HealthyCounts == [i \in DOMAIN history |-> history[i].healthy]

LEMMA CountsType == TypeOK => HealthyCounts \in Seq(Int)
<1>. SUFFICES ASSUME TypeOK PROVE HealthyCounts \in Seq(Int)
  OBVIOUS
<1>1. history \in Seq(Entry) /\ \A e \in Entry : e.healthy \in Int
  BY DEF TypeOK, Entry
<1>. HIDE DEF Entry
<1>2. HealthyCounts \in [1 .. Len(history) -> Int] /\ Len(history) \in Nat
  BY <1>1 DEF HealthyCounts
<1>. QED
  BY <1>2

(* Whatever fetches, failures and reports filled the history, of whatever  *)
(* length, and whatever the window: the trend of the number of healthy     *)
(* peers is the slope of its regression line (aggregation.py:195).         *)
THEOREM TrendOfHealthyPeers == FedSpec => [](TrendAgrees({HealthyCounts}, Int))
<1>1. TypeOK => TrendAgrees({HealthyCounts}, Int)
  BY CountsType, TrendIsRegression
<1>. QED
  BY <1>1, PeerTypeInit, PeerTypeStep, DiscoveryStep, TypeInit, TypeStep, PTL DEF FedSpec, FedInit
=============================================================================
