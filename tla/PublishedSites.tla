---------------------------- MODULE PublishedSites ----------------------------
(***************************************************************************)
(* What sites that publish their readiness promise each other, whatever    *)
(* goes on inside them: a site hands out a document only while that is no  *)
(* older than its time to live, makes new ones only until it is asked to   *)
(* stop, and forgets everything in a crash.  HeartbeatDaemon implements    *)
(* it for one life of one site, Lifecycle for the sequence of its lives;   *)
(* Federation uses it for the peers a daemon fetches.                      *)
(*                                                                         *)
(* docAge is the age of a site's document; AgeCap also stands for having   *)
(* none, since neither is ever handed out.                                 *)
(***************************************************************************)
EXTENDS Integers

CONSTANTS Sites,
          TTL,     \* ttl_seconds of the documents
          AgeCap   \* ages are counted up to here

VARIABLES running,  \* the site's loop makes documents
          serving,  \* its HTTP site is up
          docAge,   \* age of its document
          answered  \* it has just handed its document out

siteVars == <<running, serving, docAge>>

Aged(age) == IF age < AgeCap THEN age + 1 ELSE age

Init == /\ serving \in [Sites -> BOOLEAN] /\ running = serving
        /\ docAge = [s \in Sites |-> AgeCap]
        /\ answered = [s \in Sites |-> FALSE]

Publish(s) == /\ running[s]
              /\ docAge' = [docAge EXCEPT ![s] = 0]
              /\ UNCHANGED <<running, serving>>

CanAnswer(s) == serving[s] /\ docAge[s] <= TTL

Answer(s) == /\ CanAnswer(s)
             /\ answered' = [x \in Sites |-> x = s]
             /\ UNCHANGED siteVars

(* stop(): no more documents; then the HTTP site goes. *)
Stop(s) == /\ running[s]
           /\ running' = [running EXCEPT ![s] = FALSE]
           /\ UNCHANGED <<serving, docAge>>

Close(s) == /\ ~running[s] /\ serving[s]
            /\ serving' = [serving EXCEPT ![s] = FALSE]
            /\ UNCHANGED <<running, docAge>>

Crash(s) == /\ serving[s]
            /\ running' = [running EXCEPT ![s] = FALSE]
            /\ serving' = [serving EXCEPT ![s] = FALSE]
            /\ docAge' = [docAge EXCEPT ![s] = AgeCap]

(* A new process, at first or after the last one has ended. *)
Restart(s) == /\ ~serving[s]
              /\ running' = [running EXCEPT ![s] = TRUE]
              /\ serving' = [serving EXCEPT ![s] = TRUE]
              /\ docAge' = [docAge EXCEPT ![s] = AgeCap]

Tick == /\ docAge' = [s \in Sites |-> Aged(docAge[s])]
        /\ UNCHANGED <<running, serving>>

Change(s) == Publish(s) \/ Stop(s) \/ Close(s) \/ Crash(s) \/ Restart(s)

Silent == /\ Tick \/ UNCHANGED siteVars \/ \E s \in Sites : Change(s)
          /\ answered' = [s \in Sites |-> FALSE]

Next == Silent \/ \E s \in Sites : Answer(s)

Spec == Init /\ [][Next]_<<running, serving, docAge, answered>>
=============================================================================
