-------------------------- MODULE MCHeartbeatSender --------------------------
(***************************************************************************)
(* Two peers, one retry, two successive rounds: a peer may answer at once, *)
(* in the retry, or after the client has given up, when the next round's   *)
(* message is already under way.  One of them may answer in two pieces.    *)
(***************************************************************************)
EXTENDS HeartbeatSender

CONSTANTS p1, p2

MCPeers == {p1, p2}

MCSlow == {p1}

MCBackoff == [a \in 0 .. RetryCount - 1 |-> 1]
=============================================================================
