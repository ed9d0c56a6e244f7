----------------------------- MODULE MCLifecycle -----------------------------
(***************************************************************************)
(* Files whose mapping says nothing about these settings, one thing        *)
(* besides the defaults, or one thing besides everything switched off; one *)
(* crash, at any moment.                                                   *)
(***************************************************************************)
EXTENDS Lifecycle

Off == [s \in Settings |-> FALSE]

MCFiles == {<<>>} \cup {[s \in {t} |-> ~Default[t]] : t \in Settings}
           \cup {[Off EXCEPT ![t] = TRUE] : t \in Settings}
=============================================================================
