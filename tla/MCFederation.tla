---------------------------- MODULE MCFederation ----------------------------
(***************************************************************************)
(* Two peers fetched by the loop alone, which is what the daemon runs.     *)
(* The order of the times is the code's: a time to live of 90 seconds is   *)
(* shorter than the window of is_healthy, 120 seconds; a fetch lasts up to *)
(* one tick, so an answer can be read late and a peer can age out between  *)
(* two fetches.                                                            *)
(***************************************************************************)
EXTENDS Federation, TLC

CONSTANTS p1, p2

TwoPeers == {p1, p2}
OnePeer == {p1}
NoUpdater == {}

(* Histories of up to five values, windows from none to more than there are. *)
Histories == UNION {[1 .. n -> 0 .. 3] : n \in 0 .. 5}

TrendChecks == TrendAgrees(Histories, 0 .. 6)

(* Whoever asks the aggregator for a trend, which takes a discovered table *)
(* to have filled its history, gets the regression slope it claims to be,  *)
(* whatever the length of the history and the window (aggregation.py:195). *)
TrendIsSound == discovered => TrendChecks

PeerSymmetry == Permutations(TwoPeers)
=============================================================================
