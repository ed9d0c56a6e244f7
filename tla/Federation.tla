------------------------------ MODULE Federation ------------------------------
(***************************************************************************)
(* One daemon's FederationDiscovery together with the peers it fetches,    *)
(* each of which publishes, stops, crashes and comes back as               *)
(* PublishedSites says (slurmheartbeat/federation/discovery.py against     *)
(* slurmheartbeat/server/publisher.py).  The two meet in GET /readiness: a *)
(* peer hands out its document only while it may, and the discovery does   *)
(* not look at the document's age.  The network may lose the request or    *)
(* the answer (FetchFails) and may hold an answer back until the timeout.  *)
(*                                                                         *)
(* The clock is one for all sites; a peer's document and the discovery's   *)
(* last_seen are each compared with the clock of their own site only.      *)
(***************************************************************************)
EXTENDS FederationDiscovery

VARIABLES running, serving, docAge,  \* the peers, see PublishedSites
          goneAge                    \* history: ticks since a peer went away

peerSiteVars == <<running, serving, docAge>>
allVars == <<vars, peerSiteVars, goneAge>>

Sites == INSTANCE PublishedSites
           WITH Sites <- Peers, AgeCap <- TTL + 1,
                answered <- [p \in Peers |-> FALSE]

FedInit == /\ Init
           /\ Sites!Init
           /\ goneAge = [p \in Peers |-> 0]

Discovery == Local /\ UNCHANGED <<peerSiteVars, goneAge>>

(* Mutant of PeerReplies: the peer does not look at the age of its document. *)
PeerReplies_Expired(c, p) == /\ serving[p]
                             /\ PeerAnswers(c, p, docAge[p])
                             /\ UNCHANGED <<peerSiteVars, goneAge>>

PeerReplies(c, p) == /\ Sites!CanAnswer(p)
                     /\ PeerAnswers(c, p, docAge[p])
                     /\ UNCHANGED <<peerSiteVars, goneAge>>

PeerChanges(p) == /\ \/ Sites!Publish(p) \/ Sites!Stop(p) \/ Sites!Close(p)
                     \/ Sites!Crash(p) \/ Sites!Restart(p)
                  /\ goneAge' = [goneAge EXCEPT ![p] = 0]
                  /\ UNCHANGED vars

FedTick == /\ Tick
           /\ Sites!Tick
           /\ goneAge' = [p \in Peers |-> IF serving[p] THEN 0 ELSE Older(goneAge[p])]

FedNext == \/ Discovery \/ FedTick
           \/ \E c \in Callers, p \in Peers : PeerReplies(c, p)
           \/ \E p \in Peers : PeerChanges(p)

FedSpec == FedInit /\ [][FedNext]_allVars

-----------------------------------------------------------------------------
(* A peer that has gone away is presented as healthy for one fetch and the *)
(* is_healthy window at most, although nobody tells the discovery, and     *)
(* although answers of before may still be under way.                      *)
GoneIsNoticed ==
  \A p \in Peers : ~serving[p] /\ goneAge[p] > FetchTimeout + MaxAge => ~IsHealthy(p)
=============================================================================
