-------------------------- MODULE MCHeartbeatDaemon --------------------------
(***************************************************************************)
(* Instances of HeartbeatDaemon.  A tick stands for the unit in which      *)
(* interval, time to live and timeouts are compared; the bounds keep their *)
(* order.  Slurm has a healthy state, with a node that is idle and drained *)
(* at once; one with most nodes down or drained; one in which it does not  *)
(* answer; and one with a malformed partition list.                        *)
(***************************************************************************)
EXTENDS HeartbeatDaemon

CONSTANT siteA

Healthy == [up |-> TRUE, sane |-> TRUE,
            nodes |-> [n1 |-> {"idle", "drained"}, n2 |-> {"allocated"}, n3 |-> {"idle"}],
            parts |-> {}, jobs |-> [j1 |-> "CD"]]

MostlyDown == [Healthy EXCEPT !.nodes = [n1 |-> {"drained"}, n2 |-> {"down"}, n3 |-> {"idle"}]]

Outage == [Healthy EXCEPT !.up = FALSE]

Malformed == [Healthy EXCEPT !.sane = FALSE]

MCClients == {siteA}
MCAllowed == {siteA}

HealthyOnly == {Healthy}
LiveStates == {Healthy, Malformed}
SaneStates == {Healthy, MostlyDown, Outage}
=============================================================================
