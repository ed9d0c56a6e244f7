------------------------- MODULE ReadinessPublisher -------------------------
(***************************************************************************)
(* ReadinessPublisher (slurmheartbeat/server/publisher.py) with the        *)
(* ReadinessMessage it holds (slurmheartbeat/protocol/schema.py): the last *)
(* document, its time to live, its signature, and GET /readiness.          *)
(*                                                                         *)
(* observed_at is kept as the document's age in ticks, up to AgeCap, past  *)
(* which nothing distinguishes ages any more.  A signature is "valid" when *)
(* it covers the document with its signature field empty, which is what    *)
(* verify_signature recomputes, and "broken" otherwise.                    *)
(* The handlers run without suspending, so each is one step.               *)
(***************************************************************************)
EXTENDS Integers

CONSTANTS Clients,        \* common names of the client certificates
          AllowedSites,   \* server.allowed_sites
          NoCertificate,  \* a request without a usable client certificate
          SigningKey,     \* is a signing_key_file configured?
          TTL,            \* ttl_seconds, in ticks
          AgeCap,         \* ages are counted up to here
          NoDoc           \* last_readiness is None

ASSUME PublisherAssumption == /\ AllowedSites \subseteq Clients
                              /\ NoCertificate \notin Clients
                              /\ SigningKey \in BOOLEAN
                              /\ TTL \in Nat /\ AgeCap \in Nat /\ TTL < AgeCap

VARIABLES doc,      \* state.last_readiness
          serving,  \* the HTTP site is up
          reply     \* the answer just sent; the next step forgets it

NoReply == [to |-> NoCertificate, code |-> 0]

PublisherInit == /\ doc = NoDoc
                 /\ serving = TRUE
                 /\ reply = NoReply

Older(age) == IF age < AgeCap THEN age + 1 ELSE age

(***************************************************************************)
(* is_expired: strictly later than observed_at + ttl_seconds.              *)
(***************************************************************************)
(* Mutant of Expired: the time to live never runs out. *)
Expired_Never(d) == d.age > AgeCap + TTL

Expired(d) == d.age > TTL

(***************************************************************************)
(* update_readiness: the document is replaced, age 0 and not yet signed.   *)
(***************************************************************************)
(* Mutant of UpdateReadiness: a document that says the same is not replaced. *)
UpdateReadiness_OnChange(d) ==
  doc' = IF doc # NoDoc /\ doc.status = d.status THEN doc ELSE d

UpdateReadiness(d) == doc' = d

(***************************************************************************)
(* GET /readiness.  The document is signed on the first request that finds *)
(* it unsigned; if the key cannot be loaded it is served unsigned and the  *)
(* next request tries again.                                               *)
(***************************************************************************)
(* sign(): covers the document as it is, signature included. *)
Signature(d) == IF d.sig = "none" THEN "valid" ELSE "broken"

(* Mutant of MaySign: a document that carries a signature is signed again. *)
MaySign_Again(d) == SigningKey

MaySign(d) == SigningKey /\ d.sig = "none"

Refuse(client, code) == /\ reply' = [to |-> client, code |-> code]
                        /\ UNCHANGED doc

Serve(client) ==
  /\ doc' \in IF MaySign(doc)
              THEN {doc, [doc EXCEPT !.sig = Signature(doc)]}
              ELSE {doc}
  /\ reply' = [to |-> client, code |-> 200]

Available == doc # NoDoc /\ ~Expired(doc)

Authorized(client) == client \in AllowedSites

HandleReadiness(client) ==
  /\ serving
  /\ \/ ~Authorized(client) /\ Refuse(client, 403)
     \/ Authorized(client) /\ ~Available /\ Refuse(client, 503)
     \/ Authorized(client) /\ Available /\ Serve(client)
  /\ UNCHANGED serving

StopPublisher == /\ serving
                 /\ serving' = FALSE
                 /\ UNCHANGED doc

AgeDoc == doc' = IF doc = NoDoc THEN doc ELSE [doc EXCEPT !.age = Older(@)]

(* A 200 has just been sent; the body was the document as it is now. *)
Served == reply.code = 200
=============================================================================
