--------------------- MODULE FederationDiscovery_proofs ---------------------
(***************************************************************************)
(* Proofs about FederationDiscovery, for any number of peers and of        *)
(* callers of update_all_peers and every value of the times: type          *)
(* correctness; a healthy peer is known from a fresh document; failures    *)
(* and history stay bounded; an excluded peer is not asked again; nobody   *)
(* looks healthy for long once the client is closed; and, for the loop     *)
(* alone, the gauges keep up until a peer is excluded.                     *)
(***************************************************************************)
EXTENDS FederationDiscovery, FiniteSetTheorems, SequenceTheorems, TLAPS

(***************************************************************************)
(* The operators the steps are built from return what they should.         *)
(***************************************************************************)
Entry == [healthy : Nat, health : HealthLevels]

LEMMA OlderType ==
  ASSUME NEW a \in 0 .. AgeCap
  PROVE  Older(a) \in 0 .. AgeCap /\ Older(a) <= a + 1 /\ a <= Older(a)
BY DiscoveryAssumption DEF Older

LEMMA AggregateType == Aggregate \in Entry
<1>1. {p \in Peers : IsHealthy(p)} \subseteq Peers
  OBVIOUS
<1>2. /\ Cardinality({p \in Peers : IsHealthy(p)}) \in Nat
      /\ Cardinality(Peers) \in Nat
  BY <1>1, DiscoveryAssumption, FS_Subset, FS_CardinalityType
<1>3. \A h, n : Health(h, n) \in HealthLevels
  BY Zenon DEF Health, HealthLevels
<1>. QED
  BY <1>2, <1>3 DEF Aggregate, AggregateOf, Entry

(* The history is cut to its last entries whenever it got too long.        *)
LEMMA RecordedType ==
  ASSUME NEW h \in Seq(Entry), NEW m \in Entry
  PROVE  /\ Recorded(h, m) \in Seq(Entry)
         /\ MaxHistory > 0 => Len(Recorded(h, m)) <= MaxHistory
<1>. DEFINE longer == Append(h, m)
<1>1. longer \in Seq(Entry) /\ Len(longer) = Len(h) + 1 /\ Len(h) \in Nat
  BY LenProperties
<1>2. CASE Len(longer) > MaxHistory /\ MaxHistory > 0
  <2>. DEFINE first == Len(longer) - MaxHistory + 1
  <2>1. first \in Int /\ Len(longer) \in Int /\ first <= Len(longer)
    BY <1>1, <1>2, HistoryAssumption
  <2>2. \A i \in first .. Len(longer) : longer[i] \in Entry
    BY <1>1, <1>2, <2>1, HistoryAssumption, ElementOfSeq
  <2>3. /\ SubSeq(longer, first, Len(longer)) \in Seq(Entry)
        /\ Len(SubSeq(longer, first, Len(longer))) = Len(longer) - first + 1
    BY <2>1, <2>2, SubSeqProperties
  <2>. QED
    BY <1>1, <1>2, <2>3, HistoryAssumption DEF Recorded, LastOf
<1>3. CASE ~(Len(longer) > MaxHistory /\ MaxHistory > 0)
  BY <1>1, <1>3, HistoryAssumption DEF Recorded, LastOf
<1>. QED
  BY <1>2, <1>3

-----------------------------------------------------------------------------
(***************************************************************************)
(* Types.                                                                  *)
(***************************************************************************)
LEMMA TypeInit == Init => TypeOK
<1>. SUFFICES ASSUME Init PROVE TypeOK
  OBVIOUS
<1>1. history \in Seq([healthy : Nat, health : HealthLevels])
  BY EmptySeq DEF Init
<1>2. /\ 0 \in 0 .. AgeCap /\ AgeCap \in 0 .. AgeCap /\ -1 \in -1 .. AgeCap
      /\ 0 \in 0 .. MaxLost
  BY DiscoveryAssumption
<1>. QED
  BY <1>1, <1>2, DiscoveryAssumption DEF Init, TypeOK, Flights

(* A caller that starts a fetch has no request under way.                  *)
LEMMA FetchAllType ==
  ASSUME TypeOK, NEW c \in Callers, call[c] \in {"idle", "waiting"}, FetchAll(c)
  PROVE  TypeOK'
<1>1. /\ discovered' = TRUE
      /\ call' \in [Callers -> {"idle", "waiting", "fetching", "stopped"}]
      /\ call' = [call EXCEPT ![c] = "fetching"]
      /\ UNCHANGED <<failures, seenAge, hintAge, answerAge, gaugeVars, closedAge>>
      /\ client' \in {"none", "open", "closed"}
  BY DEF FetchAll, TypeOK
<1>2. timer' \in [Callers -> Nat]
  BY DiscoveryAssumption DEF FetchAll, TypeOK
<1>3. /\ skipped' \in [Callers -> SUBSET Peers]
      /\ skipped' = [skipped EXCEPT ![c] = {p \in Peers : Excluded(p)}]
  BY DEF FetchAll, TypeOK
<1>4. /\ flight' \in [Callers -> [Peers -> Flights]]
      /\ flight' = [flight EXCEPT ![c] = [p \in Peers |-> IF Excluded(p) THEN "none" ELSE "sent"]]
  BY DEF FetchAll, TypeOK, Flights
<1>5. \A d \in Callers, p \in Peers :
        flight'[d][p] # "none" => call'[d] = "fetching" /\ p \notin skipped'[d]
  <2>. TAKE d \in Callers, p \in Peers
  <2>1. CASE d = c
    BY <1>1, <1>3, <1>4, <2>1 DEF TypeOK
  <2>2. CASE d # c
    BY <1>1, <1>3, <1>4, <2>2 DEF TypeOK
  <2>. QED
    BY <2>1, <2>2
<1>. QED
  BY <1>1, <1>2, <1>3, <1>4, <1>5 DEF TypeOK, gaugeVars

(* An answer arrives, or a request ends.                                   *)
LEMMA FlightType ==
  ASSUME TypeOK, NEW c \in Callers, NEW p \in Peers, flight[c][p] # "none",
         NEW to \in Flights, NEW age \in 0 .. AgeCap,
         flight' = [flight EXCEPT ![c][p] = to],
         answerAge' = [answerAge EXCEPT ![c][p] = age],
         UNCHANGED <<discovered, call, timer, skipped, gaugeVars, clientVars>>,
         failures' \in [Peers -> Nat],
         seenAge' \in [Peers -> 0 .. AgeCap], hintAge' \in [Peers -> 0 .. AgeCap]
  PROVE  TypeOK'
<1>1. flight' \in [Callers -> [Peers -> Flights]]
  BY DEF TypeOK
<1>2. answerAge' \in [Callers -> [Peers -> 0 .. AgeCap]]
  BY DEF TypeOK
<1>3. \A d \in Callers, q \in Peers : flight'[d][q] # "none" => flight[d][q] # "none"
  BY DEF TypeOK
<1>. QED
  BY <1>1, <1>2, <1>3 DEF TypeOK, gaugeVars, clientVars

LEMMA BackType ==
  ASSUME TypeOK, NEW c \in Callers, Complete(c), NEW gap \in Nat, Back(c, gap),
         gauge'.healthy \in Nat, gaugeAge' \in 0 .. AgeCap, lost' \in 0 .. MaxLost,
         history' \in Seq([healthy : Nat, health : HealthLevels])
  PROVE  TypeOK'
<1>1. /\ call' \in [Callers -> {"idle", "waiting", "fetching", "stopped"}]
      /\ timer' \in [Callers -> Nat]
      /\ skipped' \in [Callers -> SUBSET Peers]
  BY DEF Back, TypeOK
<1>2. \A d \in Callers, p \in Peers :
        flight'[d][p] # "none" => call'[d] = "fetching" /\ p \notin skipped'[d]
  <2>. TAKE d \in Callers, p \in Peers
  <2>1. CASE d = c
    BY <2>1 DEF Back, Complete, TypeOK
  <2>2. CASE d # c
    BY <2>2 DEF Back, TypeOK
  <2>. QED
    BY <2>1, <2>2
<1>. QED
  BY <1>1, <1>2 DEF Back, TypeOK, peerVars, clientVars

LEMMA LocalType == TypeOK /\ Local => TypeOK'
<1>. SUFFICES ASSUME TypeOK, Local PROVE TypeOK'
  OBVIOUS
<1>0. loop \in Callers /\ Updaters \subseteq Callers
  BY DEF Callers
<1>1. CASE DiscoverPeers
  BY <1>1 DEF DiscoverPeers, callVars, gaugeVars, clientVars, TypeOK
<1>2. CASE LoopFetches
  BY <1>0, <1>2, FetchAllType DEF LoopFetches
<1>3. CASE LoopAggregates
  <2>1. gauge' \in Entry /\ history' \in Seq(Entry) /\ gaugeAge' = 0 /\ lost' = 0
    BY <1>3, AggregateType, RecordedType DEF LoopAggregates, TypeOK, Entry
  <2>2. /\ gauge'.healthy \in Nat /\ gaugeAge' \in 0 .. AgeCap /\ lost' \in 0 .. MaxLost
        /\ history' \in Seq([healthy : Nat, health : HealthLevels])
    BY <2>1, DiscoveryAssumption DEF Entry
  <2>3. Complete(loop) /\ Back(loop, Gap) /\ Gap \in Nat
    BY <1>3, DiscoveryAssumption DEF LoopAggregates
  <2>. QED
    BY <1>0, <2>2, <2>3, BackType
<1>4. CASE LoopCatches
  BY <1>0, <1>4, BackType, DiscoveryAssumption DEF LoopCatches, gaugeVars, TypeOK
<1>5. ASSUME NEW u \in Updaters, UpdateAllPeers(u) PROVE TypeOK'
  <2>1. call' \in [Callers -> {"idle", "waiting", "fetching", "stopped"}]
    BY <1>0, <1>5 DEF UpdateAllPeers, TypeOK
  <2>2. \A d \in Callers : call[d] = "fetching" => call'[d] = "fetching"
    BY <1>0, <1>5 DEF UpdateAllPeers, TypeOK
  <2>. QED
    BY <1>5, <2>1, <2>2 DEF UpdateAllPeers, peerVars, gaugeVars, clientVars, TypeOK
<1>6. ASSUME NEW u \in Updaters, AcquireLock(u) PROVE TypeOK'
  BY <1>0, <1>6, FetchAllType DEF AcquireLock
<1>7. ASSUME NEW u \in Updaters, UpdateReturns(u) PROVE TypeOK'
  BY <1>0, <1>7, BackType DEF UpdateReturns, gaugeVars, TypeOK
<1>8. ASSUME NEW c \in Callers, NEW p \in Peers, FetchSucceeds(c, p) PROVE TypeOK'
  <2>1. /\ failures' \in [Peers -> Nat]
        /\ seenAge' \in [Peers -> 0 .. AgeCap] /\ hintAge' \in [Peers -> 0 .. AgeCap]
    BY <1>8, DiscoveryAssumption DEF FetchSucceeds, TypeOK
  <2>2. "none" \in Flights /\ 0 \in 0 .. AgeCap
    BY DiscoveryAssumption DEF Flights
  <2>. QED
    BY <1>8, <2>1, <2>2, FlightType DEF FetchSucceeds, Landed
<1>9. ASSUME NEW c \in Callers, NEW p \in Peers, FetchFails(c, p) PROVE TypeOK'
  <2>1. /\ failures' \in [Peers -> Nat]
        /\ seenAge' \in [Peers -> 0 .. AgeCap] /\ hintAge' \in [Peers -> 0 .. AgeCap]
    BY <1>9 DEF FetchFails, TypeOK
  <2>2. "none" \in Flights /\ 0 \in 0 .. AgeCap
    BY DiscoveryAssumption DEF Flights
  <2>. QED
    BY <1>9, <2>1, <2>2, FlightType DEF FetchFails, Landed
<1>10. CASE StopLoop
  <2>1. /\ call' \in [Callers -> {"idle", "waiting", "fetching", "stopped"}]
        /\ timer' \in [Callers -> Nat] /\ skipped' \in [Callers -> SUBSET Peers]
        /\ flight' \in [Callers -> [Peers -> Flights]]
        /\ answerAge' \in [Callers -> [Peers -> 0 .. AgeCap]]
    BY <1>0, <1>10, DiscoveryAssumption DEF StopLoop, TypeOK, Flights
  <2>2. \A d \in Callers, p \in Peers :
          flight'[d][p] # "none" => call'[d] = "fetching" /\ p \notin skipped'[d]
    <3>. TAKE d \in Callers, p \in Peers
    <3>1. CASE d = loop
      BY <1>0, <1>10, <3>1 DEF StopLoop, TypeOK
    <3>2. CASE d # loop
      BY <1>0, <1>10, <3>2 DEF StopLoop, TypeOK
    <3>. QED
      BY <3>1, <3>2
  <2>. QED
    BY <1>10, <2>1, <2>2 DEF StopLoop, peerVars, gaugeVars, clientVars, TypeOK
<1>11. CASE CloseClient
  BY <1>11, DiscoveryAssumption DEF CloseClient, peerVars, callVars, gaugeVars, TypeOK
<1>12. CASE RoundFails
  BY <1>0, <1>12, DiscoveryAssumption DEF RoundFails, peerVars, clientVars, TypeOK
<1>. QED
  BY <1>1, <1>2, <1>3, <1>4, <1>5, <1>6, <1>7, <1>8, <1>9, <1>10, <1>11, <1>12
     DEF Local, Landing

LEMMA TickType == TypeOK /\ Tick => TypeOK'
<1>. SUFFICES ASSUME TypeOK, Tick PROVE TypeOK'
  OBVIOUS
<1>1. timer' \in [Callers -> Nat]
  BY DEF Tick, Bounded, TypeOK
<1>2. seenAge' \in [Peers -> 0 .. AgeCap] /\ hintAge' \in [Peers -> 0 .. AgeCap]
  BY OlderType DEF Tick, TypeOK
<1>3. answerAge' \in [Callers -> [Peers -> 0 .. AgeCap]]
  <2>1. ASSUME NEW c \in Callers, NEW p \in Peers
        PROVE  (IF flight[c][p] = "answered" THEN Older(answerAge[c][p]) ELSE 0) \in 0 .. AgeCap
    <3>1. answerAge[c][p] \in 0 .. AgeCap
      BY DEF TypeOK
    <3>. QED
      BY <3>1, OlderType, DiscoveryAssumption
  <2>. QED
    BY <2>1 DEF Tick
<1>4. gaugeAge' \in 0 .. AgeCap
  BY OlderType DEF Tick, TypeOK
<1>5. closedAge' \in -1 .. AgeCap
  <2>1. CASE closedAge >= 0
    <3>1. closedAge \in 0 .. AgeCap
      BY <2>1, DiscoveryAssumption DEF TypeOK
    <3>2. closedAge' = Older(closedAge)
      BY <2>1 DEF Tick
    <3>. QED
      BY <3>1, <3>2, OlderType
  <2>2. CASE ~(closedAge >= 0)
    BY <2>2 DEF Tick, TypeOK
  <2>. QED
    BY <2>1, <2>2
<1>. QED
  BY <1>1, <1>2, <1>3, <1>4, <1>5 DEF Tick, TypeOK

LEMMA TypeStep == TypeOK /\ [Next]_vars => TypeOK'
<1>. SUFFICES ASSUME TypeOK, [Next]_vars PROVE TypeOK'
  OBVIOUS
<1>1. CASE Local
  BY <1>1, LocalType
<1>2. CASE Report
  <2>1. history' \in Seq(Entry)
    BY <1>2, AggregateType, RecordedType DEF Report, TypeOK, Entry
  <2>. QED
    BY <1>2, <2>1 DEF Report, peerVars, callVars, clientVars, TypeOK, Entry
<1>3. ASSUME NEW c \in Callers, NEW p \in Peers, NEW age \in 0 .. TTL, PeerAnswers(c, p, age)
      PROVE  TypeOK'
  <2>1. "answered" \in Flights /\ age \in 0 .. AgeCap
    BY DiscoveryAssumption DEF Flights
  <2>. QED
    BY <1>3, <2>1, FlightType DEF PeerAnswers, peerVars, TypeOK
<1>4. CASE Tick
  BY <1>4, TickType
<1>5. CASE UNCHANGED vars
  BY <1>5 DEF vars, TypeOK
<1>. QED
  BY <1>1, <1>2, <1>3, <1>4, <1>5 DEF Next, Answering

(* In every reachable state every variable has a value the code can give,  *)
(* and requests exist only within a fetch that did not leave the peer out. *)
THEOREM TypeCorrect == Spec => []TypeOK
BY TypeInit, TypeStep, PTL DEF Spec

-----------------------------------------------------------------------------
(***************************************************************************)
(* What a step can be, for the invariants below.                           *)
(***************************************************************************)
Quiet == /\ UNCHANGED <<failures, seenAge, hintAge, skipped, flight, answerAge, clientVars>>
         /\ \A c \in Callers : /\ call'[c] = "fetching" <=> call[c] = "fetching"
                               /\ call[c] = "fetching" => timer'[c] = timer[c]

Returns(c) == Complete(c) /\ \E gap \in Nat : Back(c, gap)

LEMMA AnsweredWithin ==
  ASSUME TypeOK
  PROVE  \A c \in Callers, p \in Peers : flight[c][p] = "answered" => call[c] = "fetching"
BY DEF TypeOK

LEMMA Steps ==
  ASSUME TypeOK, [Next]_vars
  PROVE  \/ Quiet \/ StopLoop \/ CloseClient \/ Tick
         \/ \E c \in Callers : \/ call[c] \in {"idle", "waiting"} /\ FetchAll(c)
                              \/ Returns(c)
         \/ \E c \in Callers, p \in Peers :
              \/ FetchSucceeds(c, p) \/ FetchFails(c, p)
              \/ \E age \in 0 .. TTL : PeerAnswers(c, p, age)
<1>0. loop \in Callers /\ Updaters \subseteq Callers /\ Gap \in Nat /\ 0 \in Nat
  BY DiscoveryAssumption DEF Callers
<1>1. CASE DiscoverPeers \/ Report \/ UNCHANGED vars
  <2>1. Quiet
    BY <1>1 DEF DiscoverPeers, Report, vars, peerVars, callVars, gaugeVars, clientVars, Quiet
  <2>. QED
    BY <2>1
<1>2. ASSUME NEW u \in Updaters, UpdateAllPeers(u) PROVE Quiet
  <2>1. \A c \in Callers : call'[c] = "fetching" <=> call[c] = "fetching"
    BY <1>0, <1>2 DEF UpdateAllPeers, TypeOK
  <2>. QED
    BY <1>2, <2>1 DEF UpdateAllPeers, peerVars, gaugeVars, clientVars, Quiet
<1>3. CASE LoopFetches
  BY <1>0, <1>3 DEF LoopFetches
<1>4. CASE LoopAggregates \/ LoopCatches
  <2>1. Returns(loop)
    BY <1>0, <1>4 DEF LoopAggregates, LoopCatches, Returns
  <2>. QED
    BY <1>0, <2>1
<1>5. ASSUME NEW u \in Updaters, AcquireLock(u)
      PROVE  call[u] \in {"idle", "waiting"} /\ FetchAll(u)
  BY <1>5 DEF AcquireLock
<1>6. ASSUME NEW u \in Updaters, UpdateReturns(u) PROVE Returns(u)
  BY <1>0, <1>6 DEF UpdateReturns, Returns
<1>7. CASE RoundFails
  <2>1. \A c \in Callers : call[c] = "fetching" => timer'[c] = timer[c]
    BY <1>0, <1>7 DEF RoundFails, TypeOK
  <2>. QED
    BY <1>7, <2>1 DEF RoundFails, peerVars, clientVars, Quiet
<1>. QED
  BY <1>0, <1>1, <1>2, <1>3, <1>4, <1>5, <1>6, <1>7 DEF Next, Local, Landing, Answering

-----------------------------------------------------------------------------
(***************************************************************************)
(* A healthy peer is known from a fresh document: a request carries an     *)
(* answer for as long as its timeout allows, and what is known of a peer   *)
(* is older than its last sighting by no more than that.                   *)
(***************************************************************************)
Freshness ==
  /\ \A c \in Callers : call[c] = "fetching" => timer[c] <= FetchTimeout
  /\ \A c \in Callers, p \in Peers :
       flight[c][p] = "answered" => answerAge[c][p] + timer[c] <= TTL + FetchTimeout
  /\ \A p \in Peers : hintAge[p] <= TTL + FetchTimeout + seenAge[p]

LEMMA FreshInit == Init => Freshness
BY DiscoveryAssumption DEF Init, Freshness

LEMMA FreshTick == TypeOK /\ Freshness /\ Tick => Freshness'
<1>. SUFFICES ASSUME TypeOK, Freshness, Tick PROVE Freshness'
  OBVIOUS
<1>1. \A c \in Callers : call[c] = "fetching" => timer'[c] = timer[c] - 1 /\ timer[c] \in Nat
  BY DEF Tick, Bounded, TypeOK
<1>2. \A c \in Callers : call'[c] = "fetching" => timer'[c] <= FetchTimeout
  BY <1>1, DiscoveryAssumption DEF Tick, Freshness
<1>3. ASSUME NEW c \in Callers, NEW p \in Peers, flight'[c][p] = "answered"
      PROVE  answerAge'[c][p] + timer'[c] <= TTL + FetchTimeout
  <2>1. flight[c][p] = "answered" /\ call[c] = "fetching" /\ answerAge[c][p] \in 0 .. AgeCap
    BY <1>3 DEF Tick, TypeOK
  <2>2. answerAge'[c][p] = Older(answerAge[c][p])
    BY <2>1 DEF Tick
  <2>3. answerAge[c][p] + timer[c] <= TTL + FetchTimeout
    BY <2>1 DEF Freshness
  <2>. QED
    BY <1>1, <2>1, <2>2, <2>3, OlderType, DiscoveryAssumption
<1>4. ASSUME NEW p \in Peers PROVE hintAge'[p] <= TTL + FetchTimeout + seenAge'[p]
  <2>1. /\ hintAge'[p] = Older(hintAge[p]) /\ seenAge'[p] = Older(seenAge[p])
        /\ hintAge[p] \in 0 .. AgeCap /\ seenAge[p] \in 0 .. AgeCap
    BY DEF Tick, TypeOK
  <2>2. hintAge[p] <= TTL + FetchTimeout + seenAge[p]
    BY DEF Freshness
  <2>. QED
    BY <2>1, <2>2, DiscoveryAssumption DEF Older
<1>. QED
  BY <1>2, <1>3, <1>4 DEF Freshness

LEMMA FreshStep == TypeOK /\ Freshness /\ [Next]_vars => Freshness'
<1>. SUFFICES ASSUME TypeOK, Freshness, [Next]_vars PROVE Freshness'
  OBVIOUS
<1>1. CASE Quiet
  <2>1. UNCHANGED <<flight, answerAge, hintAge, seenAge, client, closedAge>>
    BY <1>1 DEF Quiet, clientVars
  <2>2. \A c \in Callers : call'[c] = "fetching" => call[c] = "fetching" /\ timer'[c] = timer[c]
    BY <1>1 DEF Quiet
  <2>3. \A c \in Callers, p \in Peers : flight[c][p] = "answered" => timer'[c] = timer[c]
    BY <1>1, AnsweredWithin DEF Quiet
  <2>. QED
    BY <2>1, <2>2, <2>3 DEF Freshness
<1>2. CASE StopLoop
  <2>1. \A c \in Callers : c # loop => /\ timer'[c] = timer[c] /\ call'[c] = call[c]
                                    /\ flight'[c] = flight[c] /\ answerAge'[c] = answerAge[c]
    BY <1>2 DEF StopLoop, TypeOK
  <2>2. loop \in Callers => /\ call'[loop] = "stopped" /\ timer'[loop] = 0
                            /\ \A p \in Peers : flight'[loop][p] = "none"
    BY <1>2 DEF StopLoop, TypeOK
  <2>3. UNCHANGED <<seenAge, hintAge>>
    BY <1>2 DEF StopLoop, peerVars
  <2>. QED
    BY <2>1, <2>2, <2>3 DEF Freshness
<1>3. CASE CloseClient
  BY <1>3 DEF CloseClient, peerVars, callVars, Freshness
<1>4. CASE Tick
  BY <1>4, FreshTick
<1>5. ASSUME NEW c \in Callers, call[c] \in {"idle", "waiting"}, FetchAll(c) PROVE Freshness'
  <2>1. \A d \in Callers : d # c => /\ timer'[d] = timer[d] /\ call'[d] = call[d]
                                 /\ flight'[d] = flight[d]
    BY <1>5 DEF FetchAll, TypeOK
  <2>2. timer'[c] = FetchTimeout /\ \A p \in Peers : flight'[c][p] # "answered"
    BY <1>5 DEF FetchAll, TypeOK
  <2>3. UNCHANGED <<seenAge, hintAge, answerAge>>
    BY <1>5 DEF FetchAll
  <2>. QED
    BY <2>1, <2>2, <2>3, DiscoveryAssumption DEF Freshness
<1>6. ASSUME NEW c \in Callers, Returns(c) PROVE Freshness'
  <2>1. \A d \in Callers : d # c => timer'[d] = timer[d] /\ call'[d] = call[d]
    BY <1>6 DEF Returns, Back, TypeOK
  <2>2. call'[c] = "idle" /\ \A p \in Peers : flight'[c][p] = "none"
    BY <1>6 DEF Returns, Back, Complete, TypeOK
  <2>3. UNCHANGED <<seenAge, hintAge, flight, answerAge>>
    BY <1>6 DEF Returns, Back, peerVars
  <2>. QED
    BY <2>1, <2>2, <2>3 DEF Freshness
<1>7. ASSUME NEW c \in Callers, NEW p \in Peers, FetchSucceeds(c, p) PROVE Freshness'
  <2>1. \A d \in Callers, q \in Peers :
          flight'[d][q] = "answered" => flight[d][q] = "answered" /\ answerAge'[d][q] = answerAge[d][q]
    BY <1>7 DEF FetchSucceeds, Landed, TypeOK
  <2>2. hintAge'[p] = answerAge[c][p] /\ seenAge'[p] = 0
    BY <1>7 DEF FetchSucceeds, TypeOK
  <2>3. answerAge[c][p] + timer[c] <= TTL + FetchTimeout /\ timer[c] \in Nat
    BY <1>7 DEF FetchSucceeds, Freshness, TypeOK
  <2>4. hintAge'[p] <= TTL + FetchTimeout + seenAge'[p]
    <3>1. answerAge[c][p] \in 0 .. AgeCap
      BY DEF TypeOK
    <3>. QED
      BY <2>2, <2>3, <3>1, DiscoveryAssumption
  <2>5. \A q \in Peers : q # p => hintAge'[q] = hintAge[q] /\ seenAge'[q] = seenAge[q]
    BY <1>7 DEF FetchSucceeds, TypeOK
  <2>6. UNCHANGED <<call, timer>>
    BY <1>7 DEF FetchSucceeds, Landed
  <2>. QED
    BY <2>1, <2>4, <2>5, <2>6 DEF Freshness
<1>8. ASSUME NEW c \in Callers, NEW p \in Peers, FetchFails(c, p) PROVE Freshness'
  <2>1. \A d \in Callers, q \in Peers :
          flight'[d][q] = "answered" => flight[d][q] = "answered" /\ answerAge'[d][q] = answerAge[d][q]
    BY <1>8 DEF FetchFails, Landed, TypeOK
  <2>. QED
    BY <1>8, <2>1 DEF FetchFails, Landed, Freshness
<1>9. ASSUME NEW c \in Callers, NEW p \in Peers, NEW age \in 0 .. TTL, PeerAnswers(c, p, age)
      PROVE  Freshness'
  <2>1. \A d \in Callers, q \in Peers : <<d, q>> # <<c, p>> =>
          flight'[d][q] = flight[d][q] /\ answerAge'[d][q] = answerAge[d][q]
    BY <1>9 DEF PeerAnswers, TypeOK
  <2>2. answerAge'[c][p] = age
    BY <1>9 DEF PeerAnswers, TypeOK
  <2>3. timer[c] <= FetchTimeout /\ timer[c] \in Nat
    BY <1>9 DEF PeerAnswers, TypeOK, Freshness
  <2>4. answerAge'[c][p] + timer[c] <= TTL + FetchTimeout
    BY <2>2, <2>3, DiscoveryAssumption
  <2>5. UNCHANGED <<call, timer, seenAge, hintAge>>
    BY <1>9 DEF PeerAnswers, peerVars
  <2>. QED
    BY <2>1, <2>4, <2>5 DEF Freshness
<1>. QED
  BY <1>1, <1>2, <1>3, <1>4, <1>5, <1>6, <1>7, <1>8, <1>9, Steps

LEMMA FreshEnough == TypeOK /\ Freshness => HealthyIsFresh
<1>. SUFFICES ASSUME TypeOK, Freshness, NEW p \in Peers, seenAge[p] <= MaxAge
              PROVE  hintAge[p] <= TTL + FetchTimeout + MaxAge
  BY DEF HealthyIsFresh, IsHealthy
<1>1. hintAge[p] \in 0 .. AgeCap /\ seenAge[p] \in 0 .. AgeCap
  BY DEF TypeOK
<1>. QED
  BY <1>1, DiscoveryAssumption DEF Freshness

(* A peer counted healthy is known from a document that was made no longer *)
(* ago than its time to live, one fetch and the is_healthy window, however *)
(* many callers fetch and in whatever order the answers come in.           *)
THEOREM HealthyIsKnown == Spec => []HealthyIsFresh
BY TypeInit, TypeStep, FreshInit, FreshStep, FreshEnough, PTL DEF Spec

-----------------------------------------------------------------------------
(***************************************************************************)
(* After close(): only requests answered before it can still succeed, and  *)
(* they have run out one fetch later.                                      *)
(***************************************************************************)
Closing ==
  /\ closedAge >= 0 => client = "closed"
  /\ closedAge >= 0 => \A c \in Callers, p \in Peers :
       flight[c][p] = "answered" => timer[c] + closedAge <= FetchTimeout
  /\ closedAge >= 0 => \A p \in Peers : closedAge <= FetchTimeout + seenAge[p]

LEMMA ClosingTick == TypeOK /\ Closing /\ Tick => Closing'
<1>. SUFFICES ASSUME TypeOK, Closing, Tick PROVE Closing'
  OBVIOUS
<1>1. CASE ~(closedAge >= 0)
  BY <1>1 DEF Tick, Closing
<1>2. CASE closedAge >= 0
  <2>1. /\ closedAge' = Older(closedAge) /\ client' = client /\ closedAge \in 0 .. AgeCap
        /\ closedAge' \in 0 .. AgeCap /\ closedAge' <= closedAge + 1
    <3>1. closedAge' = Older(closedAge) /\ client' = client /\ closedAge \in 0 .. AgeCap
      BY <1>2, DiscoveryAssumption DEF Tick, TypeOK
    <3>. QED
      BY <3>1, OlderType
  <2>2. ASSUME NEW c \in Callers, NEW p \in Peers, flight'[c][p] = "answered"
        PROVE  timer'[c] + closedAge' <= FetchTimeout
    <3>1. flight[c][p] = "answered" /\ call[c] = "fetching" /\ timer[c] \in Nat
      BY <2>2 DEF Tick, TypeOK
    <3>2. timer'[c] = timer[c] - 1
      BY <3>1 DEF Tick, Bounded
    <3>3. timer[c] + closedAge <= FetchTimeout
      BY <1>2, <3>1 DEF Closing
    <3>. QED
      BY <2>1, <3>1, <3>2, <3>3, DiscoveryAssumption
  <2>3. ASSUME NEW p \in Peers PROVE closedAge' <= FetchTimeout + seenAge'[p]
    <3>1. seenAge'[p] = Older(seenAge[p]) /\ seenAge[p] \in 0 .. AgeCap
      BY DEF Tick, TypeOK
    <3>2. closedAge <= FetchTimeout + seenAge[p]
      BY <1>2 DEF Closing
    <3>. QED
      BY <2>1, <3>1, <3>2, DiscoveryAssumption DEF Older
  <2>. QED
    BY <1>2, <2>1, <2>2, <2>3 DEF Closing
<1>. QED
  BY <1>1, <1>2

LEMMA ClosingStep == TypeOK /\ Freshness /\ Closing /\ [Next]_vars => Closing'
<1>. SUFFICES ASSUME TypeOK, Freshness, Closing, [Next]_vars PROVE Closing'
  OBVIOUS
<1>1. CASE Quiet
  <2>1. UNCHANGED <<flight, seenAge, client, closedAge>>
    BY <1>1 DEF Quiet, clientVars
  <2>2. \A c \in Callers, p \in Peers : flight[c][p] = "answered" => timer'[c] = timer[c]
    BY <1>1, AnsweredWithin DEF Quiet
  <2>. QED
    BY <2>1, <2>2 DEF Closing
<1>2. CASE StopLoop
  <2>1. \A c \in Callers : c # loop => timer'[c] = timer[c] /\ flight'[c] = flight[c]
    BY <1>2 DEF StopLoop, TypeOK
  <2>2. loop \in Callers => \A p \in Peers : flight'[loop][p] = "none"
    BY <1>2 DEF StopLoop, TypeOK
  <2>. QED
    BY <1>2, <2>1, <2>2 DEF StopLoop, peerVars, clientVars, Closing
<1>3. CASE CloseClient
  <2>1. /\ closedAge' = 0 /\ client' = "closed"
        /\ UNCHANGED <<seenAge, timer, flight>>
    BY <1>3 DEF CloseClient, peerVars, callVars
  <2>2. \A c \in Callers, p \in Peers :
          flight[c][p] = "answered" => timer[c] \in Nat /\ timer[c] <= FetchTimeout
    BY DEF TypeOK, Freshness
  <2>3. \A p \in Peers : seenAge[p] \in 0 .. AgeCap
    BY DEF TypeOK
  <2>. QED
    BY <2>1, <2>2, <2>3, DiscoveryAssumption DEF Closing
<1>4. CASE Tick
  BY <1>4, ClosingTick
<1>5. ASSUME NEW c \in Callers, call[c] \in {"idle", "waiting"}, FetchAll(c) PROVE Closing'
  <2>1. \A d \in Callers : d # c => timer'[d] = timer[d] /\ flight'[d] = flight[d]
    BY <1>5 DEF FetchAll, TypeOK
  <2>2. \A p \in Peers : flight'[c][p] # "answered"
    BY <1>5 DEF FetchAll, TypeOK
  <2>3. UNCHANGED <<seenAge, closedAge>> /\ (client = "closed" => client' = "closed")
    BY <1>5 DEF FetchAll
  <2>. QED
    BY <2>1, <2>2, <2>3 DEF Closing
<1>6. ASSUME NEW c \in Callers, Returns(c) PROVE Closing'
  <2>1. \A d \in Callers : d # c => timer'[d] = timer[d]
    BY <1>6 DEF Returns, Back, TypeOK
  <2>2. \A p \in Peers : flight'[c][p] = "none"
    BY <1>6 DEF Returns, Back, Complete, TypeOK
  <2>3. UNCHANGED <<seenAge, flight, client, closedAge>>
    BY <1>6 DEF Returns, Back, peerVars, clientVars
  <2>. QED
    BY <2>1, <2>2, <2>3 DEF Closing
<1>7. ASSUME NEW c \in Callers, NEW p \in Peers, FetchSucceeds(c, p) PROVE Closing'
  <2>1. \A d \in Callers, q \in Peers : flight'[d][q] = "answered" => flight[d][q] = "answered"
    BY <1>7 DEF FetchSucceeds, Landed, TypeOK
  <2>2. closedAge >= 0 => closedAge <= FetchTimeout + seenAge'[p]
    <3>1. seenAge'[p] = 0 /\ flight[c][p] = "answered" /\ timer[c] \in Nat /\ closedAge \in -1 .. AgeCap
      BY <1>7 DEF FetchSucceeds, TypeOK
    <3>2. closedAge >= 0 => timer[c] + closedAge <= FetchTimeout
      BY <3>1 DEF Closing
    <3>. QED
      BY <3>1, <3>2, DiscoveryAssumption
  <2>3. \A q \in Peers : q # p => seenAge'[q] = seenAge[q]
    BY <1>7 DEF FetchSucceeds, TypeOK
  <2>4. UNCHANGED <<timer, client, closedAge>>
    BY <1>7 DEF FetchSucceeds, Landed, clientVars
  <2>. QED
    BY <2>1, <2>2, <2>3, <2>4 DEF Closing
<1>8. ASSUME NEW c \in Callers, NEW p \in Peers, FetchFails(c, p) PROVE Closing'
  <2>1. \A d \in Callers, q \in Peers : flight'[d][q] = "answered" => flight[d][q] = "answered"
    BY <1>8 DEF FetchFails, Landed, TypeOK
  <2>. QED
    BY <1>8, <2>1 DEF FetchFails, Landed, clientVars, Closing
<1>9. ASSUME NEW c \in Callers, NEW p \in Peers, NEW age \in 0 .. TTL, PeerAnswers(c, p, age)
      PROVE  Closing'
  <2>1. client = "open" /\ UNCHANGED <<client, closedAge>>
    BY <1>9 DEF PeerAnswers, clientVars
  <2>2. ~(closedAge >= 0)
    BY <2>1 DEF Closing
  <2>. QED
    BY <2>1, <2>2 DEF Closing
<1>. QED
  BY <1>1, <1>2, <1>3, <1>4, <1>5, <1>6, <1>7, <1>8, <1>9, Steps

LEMMA ClosingEnough == TypeOK /\ Closing => SilentAfterClose
<1>. SUFFICES ASSUME TypeOK, Closing, closedAge > FetchTimeout + MaxAge, NEW p \in Peers
              PROVE  ~(seenAge[p] <= MaxAge)
  BY DEF SilentAfterClose, IsHealthy
<1>1. closedAge \in Int /\ closedAge >= 0 /\ seenAge[p] \in 0 .. AgeCap
  BY DiscoveryAssumption DEF TypeOK
<1>2. closedAge <= FetchTimeout + seenAge[p]
  BY <1>1 DEF Closing
<1>. QED
  BY <1>1, <1>2, DiscoveryAssumption

(* One fetch and one is_healthy window after close(), no peer is presented *)
(* as healthy, however often update_all_peers is still called.             *)
THEOREM SilenceAfterClose == Spec => []SilentAfterClose
<1>1. Init => Closing
  BY DEF Init, Closing
<1>. QED
  BY <1>1, TypeInit, TypeStep, FreshInit, FreshStep, ClosingStep, ClosingEnough, PTL DEF Spec

-----------------------------------------------------------------------------
(***************************************************************************)
(* The history: every aggregation, of the loop or for a report, cuts it.   *)
(***************************************************************************)
LEMMA HistoryStep == TypeOK /\ HistoryIsBounded /\ [Next]_vars => HistoryIsBounded'
<1>. SUFFICES ASSUME TypeOK, HistoryIsBounded, [Next]_vars PROVE HistoryIsBounded'
  OBVIOUS
<1>1. CASE history' = Recorded(history, Aggregate)
  BY <1>1, AggregateType, RecordedType DEF TypeOK, Entry, HistoryIsBounded
<1>2. CASE UNCHANGED history
  BY <1>2 DEF HistoryIsBounded
<1>3. history' = Recorded(history, Aggregate) \/ UNCHANGED history
  BY DEF Next, Local, Landing, Answering, DiscoverPeers, LoopFetches, RoundFails,
         LoopAggregates, LoopCatches, UpdateAllPeers, AcquireLock, UpdateReturns, FetchAll, FetchSucceeds,
         FetchFails, Landed, PeerAnswers, StopLoop, CloseClient, Report, Tick, gaugeVars, vars
<1>. QED
  BY <1>1, <1>2, <1>3

(* The aggregator's memory stays within its limit, unless that is zero.    *)
THEOREM HistoryBounded == Spec => []HistoryIsBounded
<1>1. Init => HistoryIsBounded
  BY HistoryAssumption DEF Init, HistoryIsBounded
<1>. QED
  BY <1>1, TypeInit, TypeStep, HistoryStep, PTL DEF Spec

-----------------------------------------------------------------------------
(***************************************************************************)
(* An excluded peer without a request under way gets none.                 *)
(***************************************************************************)
LEMMA NeverAskedAgain ==
  ASSUME TypeOK, [Next]_vars, NEW p \in Peers, Excluded(p), InFlight(p) = {}
  PROVE  Excluded(p)' /\ InFlight(p)' = {}
<1>0. \A c \in Callers : flight[c][p] = "none"
  BY DEF InFlight
<1>. SUFFICES failures'[p] = failures[p] /\ \A c \in Callers : flight'[c][p] = "none"
  BY DEF Excluded, InFlight
<1>1. CASE Quiet
  BY <1>0, <1>1 DEF Quiet
<1>2. CASE StopLoop
  BY <1>0, <1>2 DEF StopLoop, peerVars, TypeOK
<1>3. CASE CloseClient
  BY <1>0, <1>3 DEF CloseClient, peerVars, callVars
<1>4. CASE Tick
  BY <1>0, <1>4 DEF Tick
<1>5. ASSUME NEW c \in Callers, FetchAll(c)
      PROVE  failures'[p] = failures[p] /\ \A d \in Callers : flight'[d][p] = "none"
  BY <1>0, <1>5 DEF FetchAll, TypeOK
<1>6. ASSUME NEW c \in Callers, Returns(c)
      PROVE  failures'[p] = failures[p] /\ \A d \in Callers : flight'[d][p] = "none"
  BY <1>0, <1>6 DEF Returns, Back, peerVars
<1>7. ASSUME NEW c \in Callers, NEW q \in Peers,
             FetchSucceeds(c, q) \/ FetchFails(c, q) \/ \E age \in 0 .. TTL : PeerAnswers(c, q, age)
      PROVE  failures'[p] = failures[p] /\ \A d \in Callers : flight'[d][p] = "none"
  <2>1. q # p
    BY <1>0, <1>7 DEF FetchSucceeds, FetchFails, PeerAnswers
  <2>2. failures'[p] = failures[p]
    BY <1>7, <2>1 DEF FetchSucceeds, FetchFails, PeerAnswers, peerVars, TypeOK
  <2>3. PICK to \in Flights : flight' = [flight EXCEPT ![c][q] = to]
    BY <1>7 DEF FetchSucceeds, FetchFails, Landed, PeerAnswers, Flights
  <2>. QED
    BY <1>0, <2>1, <2>2, <2>3 DEF TypeOK
<1>. QED
  BY <1>1, <1>2, <1>3, <1>4, <1>5, <1>6, <1>7, Steps

(* A peer over the limit is never asked again: it stays excluded for good, *)
(* unless a request of before is still under way.                          *)
THEOREM ExclusionIsFinal == Spec => OnlyAnAnswerReadmits
<1>1. TypeOK /\ [Next]_vars =>
        [\A p \in Peers : Excluded(p) /\ InFlight(p) = {} =>
            Excluded(p)' /\ InFlight(p)' = {}]_vars
  BY NeverAskedAgain
<1>. QED
  BY <1>1, TypeInit, TypeStep, PTL DEF Spec, OnlyAnAnswerReadmits

-----------------------------------------------------------------------------
(***************************************************************************)
(* Failures are counted one per request under way.                         *)
(***************************************************************************)
LEMMA InFlightFinite ==
  ASSUME NEW S \in SUBSET Callers
  PROVE  IsFiniteSet(S) /\ Cardinality(S) \in Nat /\ Cardinality(S) <= Cardinality(Callers)
         /\ Cardinality(Callers) \in Nat
<1>1. IsFiniteSet(Callers)
  <2>1. IsFiniteSet({loop})
    BY FS_Singleton
  <2>. QED
    BY <2>1, FS_Union, DiscoveryAssumption DEF Callers
<1>. QED
  BY <1>1, FS_Subset, FS_CardinalityType

LEMMA FailuresKept ==
  ASSUME TypeOK, FailuresBounded, NEW p \in Peers, failures'[p] = failures[p],
         NEW S \in SUBSET InFlight(p)
  PROVE  failures'[p] + Cardinality(S) < FailureLimit + Cardinality(Callers)
<1>1. InFlight(p) \in SUBSET Callers /\ S \in SUBSET Callers
  BY DEF InFlight
<1>2. /\ IsFiniteSet(InFlight(p)) /\ Cardinality(InFlight(p)) \in Nat
      /\ Cardinality(S) \in Nat /\ Cardinality(Callers) \in Nat
  BY <1>1, InFlightFinite
<1>3. Cardinality(S) <= Cardinality(InFlight(p))
  BY <1>2, FS_Subset
<1>4. failures[p] + Cardinality(InFlight(p)) < FailureLimit + Cardinality(Callers)
  BY DEF FailuresBounded
<1>. QED
  BY <1>2, <1>3, <1>4 DEF TypeOK, FailureLimit

LEMMA FailuresStep == TypeOK /\ FailuresBounded /\ [Next]_vars => FailuresBounded'
<1>. SUFFICES ASSUME TypeOK, FailuresBounded, [Next]_vars, NEW p \in Peers
              PROVE  (failures[p] + Cardinality(InFlight(p)) < FailureLimit + Cardinality(Callers))'
  BY DEF FailuresBounded
<1>. DEFINE Goal == failures'[p] + Cardinality(InFlight(p)') < FailureLimit + Cardinality(Callers)
<1>a. SUFFICES Goal
  OBVIOUS
<1>0. ASSUME failures'[p] = failures[p], \A c \in Callers : flight'[c][p] # "none" => flight[c][p] # "none"
      PROVE  Goal
  <2>1. InFlight(p)' \in SUBSET InFlight(p)
    BY <1>0 DEF InFlight
  <2>. QED
    BY <1>0, <2>1, FailuresKept
<1>1. CASE Quiet
  BY <1>0, <1>1 DEF Quiet
<1>2. CASE StopLoop
  <2>1. failures'[p] = failures[p] /\ \A c \in Callers : flight'[c][p] # "none" => flight[c][p] # "none"
    BY <1>2 DEF StopLoop, peerVars, TypeOK
  <2>. QED
    BY <1>0, <2>1
<1>3. CASE CloseClient
  BY <1>0, <1>3 DEF CloseClient, peerVars, callVars
<1>4. CASE Tick
  BY <1>0, <1>4 DEF Tick
<1>5. ASSUME NEW c \in Callers, call[c] \in {"idle", "waiting"}, FetchAll(c) PROVE Goal
  <2>1. CASE Excluded(p)
    <3>1. failures'[p] = failures[p] /\ \A d \in Callers : flight'[d][p] # "none" => flight[d][p] # "none"
      BY <1>5, <2>1 DEF FetchAll, TypeOK
    <3>. QED
      BY <1>0, <3>1
  <2>2. CASE ~Excluded(p)
    <3>1. failures'[p] = failures[p] /\ failures[p] \in Nat /\ failures[p] < FailureLimit
      BY <1>5, <2>2 DEF FetchAll, Excluded, FailureLimit, TypeOK
    <3>2. InFlight(p)' \in SUBSET Callers
      BY DEF InFlight
    <3>3. /\ Cardinality(InFlight(p)') \in Nat /\ Cardinality(Callers) \in Nat
          /\ Cardinality(InFlight(p)') <= Cardinality(Callers)
      BY <3>2, InFlightFinite
    <3>. QED
      BY <3>1, <3>3 DEF FailureLimit
  <2>. QED
    BY <2>1, <2>2
<1>6. ASSUME NEW c \in Callers, Returns(c) PROVE Goal
  BY <1>0, <1>6 DEF Returns, Back, peerVars
<1>7. ASSUME NEW c \in Callers, NEW q \in Peers, FetchSucceeds(c, q) PROVE Goal
  <2>1. \A d \in Callers : flight'[d][p] # "none" => flight[d][p] # "none"
    BY <1>7 DEF FetchSucceeds, Landed, TypeOK
  <2>2. CASE q = p
    <3>1. failures'[p] = 0
      BY <1>7, <2>2 DEF FetchSucceeds, TypeOK
    <3>2. InFlight(p)' \in SUBSET Callers
      BY DEF InFlight
    <3>3. /\ Cardinality(InFlight(p)') \in Nat /\ Cardinality(Callers) \in Nat
          /\ Cardinality(InFlight(p)') <= Cardinality(Callers)
      BY <3>2, InFlightFinite
    <3>. QED
      BY <3>1, <3>3 DEF FailureLimit
  <2>3. CASE q # p
    BY <1>0, <1>7, <2>1, <2>3 DEF FetchSucceeds, TypeOK
  <2>. QED
    BY <2>2, <2>3
<1>8. ASSUME NEW c \in Callers, NEW q \in Peers, FetchFails(c, q) PROVE Goal
  <2>1. \A d \in Callers : flight'[d][p] # "none" => flight[d][p] # "none"
    BY <1>8 DEF FetchFails, Landed, TypeOK
  <2>2. CASE q = p
    <3>1. failures'[p] = failures[p] + 1 /\ failures[p] \in Nat
      BY <1>8, <2>2 DEF FetchFails, TypeOK
    <3>2. InFlight(p)' = InFlight(p) \ {c} /\ c \in InFlight(p) /\ InFlight(p) \in SUBSET Callers
      BY <1>8, <2>2 DEF FetchFails, Landed, InFlight, TypeOK
    <3>3. IsFiniteSet(InFlight(p)) /\ Cardinality(InFlight(p)) \in Nat /\ Cardinality(Callers) \in Nat
      BY <3>2, InFlightFinite
    <3>4. Cardinality(InFlight(p)') = Cardinality(InFlight(p)) - 1
      BY <3>2, <3>3, FS_RemoveElement
    <3>5. failures[p] + Cardinality(InFlight(p)) < FailureLimit + Cardinality(Callers)
      BY DEF FailuresBounded
    <3>. QED
      BY <3>1, <3>3, <3>4, <3>5 DEF FailureLimit
  <2>3. CASE q # p
    BY <1>0, <1>8, <2>1, <2>3 DEF FetchFails, TypeOK
  <2>. QED
    BY <2>2, <2>3
<1>9. ASSUME NEW c \in Callers, NEW q \in Peers, NEW age \in 0 .. TTL, PeerAnswers(c, q, age)
      PROVE  Goal
  <2>1. failures'[p] = failures[p] /\ \A d \in Callers : flight'[d][p] # "none" => flight[d][p] # "none"
    BY <1>9 DEF PeerAnswers, peerVars, TypeOK
  <2>. QED
    BY <1>0, <2>1
<1>. QED
  BY <1>1, <1>2, <1>3, <1>4, <1>5, <1>6, <1>7, <1>8, <1>9, Steps

(* However many callers fetch at once, a peer collects no more failures    *)
(* than the limit and one for each request already under way.              *)
THEOREM FailuresStayBounded == Spec => []FailuresBounded
<1>1. ASSUME Init PROVE FailuresBounded
  <2>. SUFFICES ASSUME NEW p \in Peers
                PROVE  failures[p] + Cardinality(InFlight(p)) < FailureLimit + Cardinality(Callers)
    BY DEF FailuresBounded
  <2>1. failures[p] = 0 /\ InFlight(p) = {}
    BY <1>1 DEF Init, InFlight
  <2>2. Cardinality(InFlight(p)) = 0 /\ Cardinality(Callers) \in Nat
    BY <2>1, FS_EmptySet, InFlightFinite
  <2>. QED
    BY <2>1, <2>2 DEF FailureLimit
<1>. QED
  BY <1>1, TypeInit, TypeStep, FailuresStep, PTL DEF Spec

-----------------------------------------------------------------------------
(***************************************************************************)
(* The loop alone, which is what the daemon runs.  Exclusion is then for   *)
(* good, and a fetch that left nobody out sets the gauges.                 *)
(***************************************************************************)
Alone ==
  /\ call[loop] # "waiting"
  /\ \A p \in Peers : Excluded(p) => flight[loop][p] = "none"
  /\ \A p \in skipped[loop] : Excluded(p)
  /\ (\A p \in Peers : ~Excluded(p)) /\ lost < MaxLost =>
       /\ call[loop] = "idle" => gaugeAge + timer[loop] <= Gap + lost * Gap
       /\ call[loop] = "fetching" => gaugeAge + timer[loop] <= Lateness

LEMMA LostType ==
  ASSUME TypeOK
  PROVE  /\ lost \in Nat /\ MaxLost \in Nat /\ lost * Gap \in Nat /\ Lateness \in Nat
         /\ Gap + (lost + 1) * Gap = Gap + lost * Gap + Gap
         /\ Lateness = Gap + lost * Gap + FetchTimeout
<1>1. lost \in Nat /\ Gap \in Nat /\ FetchTimeout \in Nat /\ MaxLost \in Nat
  BY DiscoveryAssumption DEF TypeOK
<1>2. lost * Gap \in Nat /\ (lost + 1) * Gap = lost * Gap + Gap
  BY <1>1
<1>. QED
  BY <1>1, <1>2 DEF Lateness, LoopPeriod

LEMMA AloneStep ==
  ASSUME Updaters = {}, TypeOK, Alone, [Next]_vars
  PROVE  Alone'
<1>0. Callers = {loop}
  BY DEF Callers
<1>1. CASE DiscoverPeers \/ Report \/ CloseClient \/ UNCHANGED vars
  <2>1. UNCHANGED <<failures, call, flight, skipped, timer, gaugeAge, lost>>
    BY <1>1 DEF DiscoverPeers, Report, CloseClient, vars, peerVars, callVars, gaugeVars
  <2>. QED
    BY <2>1 DEF Alone, Excluded, Lateness
<1>2. CASE LoopFetches
  <2>1. /\ call'[loop] = "fetching" /\ timer'[loop] = FetchTimeout
        /\ skipped'[loop] = {p \in Peers : Excluded(p)}
        /\ \A p \in Peers : Excluded(p) => flight'[loop][p] = "none"
        /\ UNCHANGED <<failures, gaugeAge, lost>>
    BY <1>0, <1>2 DEF LoopFetches, FetchAll, gaugeVars, TypeOK
  <2>2. /\ timer[loop] \in Nat /\ gaugeAge \in Nat /\ FetchTimeout \in Nat
        /\ Gap + lost * Gap \in Nat
    BY <1>0, LostType, DiscoveryAssumption DEF TypeOK
  <2>3. (\A p \in Peers : ~Excluded(p)) /\ lost < MaxLost => gaugeAge + timer[loop] <= Gap + lost * Gap
    BY <1>2 DEF LoopFetches, Alone
  <2>4. (\A p \in Peers : ~Excluded(p)) /\ lost < MaxLost => gaugeAge + FetchTimeout <= Lateness
    BY <2>2, <2>3, LostType
  <2>. QED
    BY <2>1, <2>4 DEF Alone, Excluded, Lateness
<1>3. CASE LoopAggregates
  <2>1. /\ call'[loop] = "idle" /\ timer'[loop] = Gap /\ skipped'[loop] = {}
        /\ gaugeAge' = 0 /\ lost' = 0 /\ UNCHANGED <<failures, flight>>
    BY <1>0, <1>3 DEF LoopAggregates, Back, peerVars, TypeOK
  <2>. QED
    BY <2>1, DiscoveryAssumption DEF Alone, Excluded
<1>4. CASE LoopCatches
  <2>1. /\ call'[loop] = "idle" /\ skipped'[loop] = {} /\ UNCHANGED <<failures, flight>>
    BY <1>0, <1>4 DEF LoopCatches, Back, peerVars, TypeOK
  <2>2. PICK p \in Peers : p \in skipped[loop]
    <3>1. Peers # Peers \ skipped[loop]
      BY <1>4 DEF LoopCatches, Raises
    <3>. QED
      BY <3>1
  <2>3. Excluded(p)'
    BY <2>1, <2>2 DEF Alone, Excluded
  <2>. QED
    BY <2>1, <2>3 DEF Alone, Excluded
<1>5. ASSUME NEW p \in Peers, FetchSucceeds(loop, p) \/ FetchFails(loop, p) PROVE Alone'
  <2>1. flight[loop][p] # "none" /\ ~Excluded(p) /\ p \notin skipped[loop]
    BY <1>0, <1>5 DEF FetchSucceeds, FetchFails, Alone, TypeOK
  <2>2. /\ UNCHANGED <<call, timer, skipped, gaugeAge, lost>>
        /\ flight'[loop][p] = "none"
        /\ \A q \in Peers : q # p => flight'[loop][q] = flight[loop][q] /\ failures'[q] = failures[q]
    BY <1>0, <1>5 DEF FetchSucceeds, FetchFails, Landed, gaugeVars, TypeOK
  <2>3. \A q \in Peers : q # p => (Excluded(q)' <=> Excluded(q))
    BY <2>2 DEF Excluded
  <2>4. skipped[loop] \in SUBSET Peers
    BY <1>0 DEF TypeOK
  <2>. QED
    BY <2>1, <2>2, <2>3, <2>4 DEF Alone, Lateness
<1>6. ASSUME NEW p \in Peers, NEW age \in 0 .. TTL, PeerAnswers(loop, p, age) PROVE Alone'
  <2>1. /\ UNCHANGED <<failures, call, timer, skipped, gaugeAge, lost>>
        /\ flight[loop][p] = "sent"
        /\ \A q \in Peers : q # p => flight'[loop][q] = flight[loop][q]
    BY <1>0, <1>6 DEF PeerAnswers, peerVars, gaugeVars, TypeOK
  <2>. QED
    BY <2>1 DEF Alone, Excluded, Lateness
<1>7. CASE StopLoop
  <2>1. /\ call'[loop] = "stopped" /\ skipped'[loop] = {}
        /\ \A p \in Peers : flight'[loop][p] = "none"
    BY <1>0, <1>7 DEF StopLoop, TypeOK
  <2>. QED
    BY <2>1 DEF Alone
<1>8. CASE Tick
  <2>1. /\ UNCHANGED <<failures, call, skipped, flight, lost>> /\ gaugeAge' = Older(gaugeAge)
        /\ gaugeAge \in 0 .. AgeCap /\ timer[loop] \in Nat
    BY <1>0, <1>8 DEF Tick, TypeOK
  <2>2. call[loop] \in {"idle", "fetching"} => timer'[loop] = timer[loop] - 1
    BY <1>0, <1>8 DEF Tick, Bounded
  <2>3. gaugeAge' \in Nat /\ gaugeAge' <= gaugeAge + 1
    BY <2>1, OlderType, DiscoveryAssumption
  <2>4. call[loop] \in {"idle", "fetching"} => gaugeAge' + timer'[loop] <= gaugeAge + timer[loop]
    BY <2>1, <2>2, <2>3, DiscoveryAssumption
  <2>5. /\ call[loop] \in {"idle", "fetching"} =>
               gaugeAge' + timer'[loop] \in Int /\ gaugeAge + timer[loop] \in Int
        /\ Gap + lost * Gap \in Nat /\ Lateness \in Nat
    BY <2>1, <2>2, <2>3, LostType, DiscoveryAssumption
  <2>6. Lateness' = Lateness
    BY <2>1 DEF Lateness
  <2>. QED
    BY <2>1, <2>4, <2>5, <2>6 DEF Alone, Excluded
<1>9. CASE RoundFails
  <2>1. /\ UNCHANGED <<failures, call, skipped, flight, gaugeAge>> /\ timer'[loop] = Gap
        /\ call[loop] = "idle" /\ timer[loop] \in Nat /\ gaugeAge \in Nat
    BY <1>0, <1>9 DEF RoundFails, peerVars, TypeOK
  <2>2. lost' < MaxLost => lost < MaxLost /\ lost' = lost + 1
    BY <1>9, LostType DEF RoundFails
  <2>3. (\A p \in Peers : ~Excluded(p)) /\ lost < MaxLost => gaugeAge + timer[loop] <= Gap + lost * Gap
    BY <2>1 DEF Alone
  <2>4. (\A p \in Peers : ~Excluded(p)) /\ lost' < MaxLost => gaugeAge + Gap <= Gap + lost' * Gap
    BY <2>1, <2>2, <2>3, LostType, DiscoveryAssumption
  <2>. QED
    BY <2>1, <2>4 DEF Alone, Excluded
<1>. QED
  BY <1>0, <1>1, <1>2, <1>3, <1>4, <1>5, <1>6, <1>7, <1>8, <1>9
     DEF Next, Local, Landing, Answering

(* When only the loop fetches, the federation gauges are never older than  *)
(* one period of the loop and the rounds that raised since they were set,  *)
(* as long as no peer is over the limit.                                   *)
THEOREM GaugesKeepUpAlone ==
  ASSUME Updaters = {}
  PROVE  Spec => []GaugesKeepUpUntilExclusion
<1>1. Init => Alone
  BY DiscoveryAssumption DEF Init, Alone, Callers
<1>2. TypeOK /\ Alone /\ [Next]_vars => Alone'
  BY AloneStep
<1>3. TypeOK /\ Alone => GaugesKeepUpUntilExclusion
  <2>. SUFFICES ASSUME TypeOK, Alone, \A p \in Peers : ~Excluded(p), call[loop] # "stopped",
                       lost < MaxLost
                PROVE  gaugeAge <= Lateness
    BY DEF GaugesKeepUpUntilExclusion, GaugesFollow
  <2>1. /\ call[loop] \in {"idle", "waiting", "fetching", "stopped"}
        /\ timer[loop] \in Nat /\ gaugeAge \in 0 .. AgeCap
    BY DEF TypeOK, Callers
  <2>2. call[loop] \in {"idle", "fetching"}
    BY <2>1 DEF Alone
  <2>. QED
    BY <2>1, <2>2, LostType, DiscoveryAssumption DEF Alone
<1>. QED
  BY <1>1, <1>2, <1>3, TypeInit, TypeStep, PTL DEF Spec
=============================================================================
