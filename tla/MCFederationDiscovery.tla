------------------------ MODULE MCFederationDiscovery ------------------------
(***************************************************************************)
(* For the gauges: two peers and the loop alone, which is what the daemon  *)
(* runs.  For the locks and close(): one peer, the loop and two updaters,  *)
(* the whole interface; ages play no part there beyond a fetch and the     *)
(* window, so the window is cut to nothing.                                *)
(***************************************************************************)
EXTENDS FederationDiscovery

CONSTANTS p1, p2, u1, u2

OnePeer == {p1}
TwoPeers == {p1, p2}
NoUpdater == {}
TwoUpdaters == {u1, u2}
=============================================================================
