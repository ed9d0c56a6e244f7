--------------------------- MODULE HeartbeatRound ---------------------------
(***************************************************************************)
(* What send_to_all promises its caller, whatever the network does: a      *)
(* round ends with one verdict for each peer, a verdict does not change,   *)
(* and a peer reported reached has this round's heartbeat.  A peer         *)
(* reported failed may have it too: the answer, not the request, may have  *)
(* been lost.                                                              *)
(***************************************************************************)
CONSTANT Peers

VARIABLES state,    \* "idle", "open" while a round is sent, "aborted" by stop()
          verdict,  \* what is known of each peer in this round
          got       \* peers this round's heartbeat has reached

roundVars == <<state, verdict, got>>

Verdicts == {"none", "reached", "failed"}

Init == /\ state = "idle"
        /\ verdict = [p \in Peers |-> "none"]
        /\ got = {}

Begin == /\ state = "idle"
         /\ state' = "open"
         /\ verdict' = [p \in Peers |-> "none"]
         /\ got' = {}

Arrive(p) == /\ got' = got \cup {p}
             /\ UNCHANGED <<state, verdict>>

Decide(p) == /\ state = "open" /\ verdict[p] = "none"
             /\ \/ p \in got /\ verdict' = [verdict EXCEPT ![p] = "reached"]
                \/ verdict' = [verdict EXCEPT ![p] = "failed"]
             /\ UNCHANGED <<state, got>>

Return == /\ state = "open"
          /\ \A p \in Peers : verdict[p] # "none"
          /\ state' = "idle"
          /\ UNCHANGED <<verdict, got>>

Abort == /\ state \in {"idle", "open"}
         /\ state' = "aborted"
         /\ UNCHANGED <<verdict, got>>

Next == \/ Begin \/ Return \/ Abort
        \/ \E p \in Peers : Arrive(p) \/ Decide(p)

Spec == Init /\ [][Next]_roundVars
=============================================================================
