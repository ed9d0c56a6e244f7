--------------------------- MODULE HeartbeatSender ---------------------------
(***************************************************************************)
(* HeartbeatSender (slurmheartbeat/client/sender.py): send_to_all sends    *)
(* one HeartbeatMessage to every peer, one task per peer, each with its    *)
(* own retries and back-offs, and returns when the last task is done.  The *)
(* tasks share the message object, and signing writes into it              *)
(* (slurmheartbeat/protocol/message.py).                                   *)
(*                                                                         *)
(* From the start of an attempt to the POST no task suspends, so signing   *)
(* and posting are one step.  The network is external: a posted request    *)
(* arrives at some time or never, also long after the client gave up on    *)
(* it.  A POST is several waits, to connect, for each write and for each   *)
(* piece of the answer, and the time-out is of each wait: the code sets    *)
(* none for the whole.  How many waits a POST is made of is up to the      *)
(* network: MaxWaits at most to a peer in Slow, one to any other.          *)
(*                                                                         *)
(* Time is in ticks, as in HeartbeatDaemon: a tick needs every await to    *)
(* have time left, and no task that could run.                             *)
(***************************************************************************)
EXTENDS Integers, FiniteSets

CONSTANTS Peers,       \* client.federation.peers
          TLS,         \* client.tls.enabled: sign, and use client certificates
          RetryCount,  \* client.retry_count
          Timeout,     \* longest one wait of a POST takes: client.timeout_seconds
          Slow,        \* external: peers a POST to which is several waits
          MaxWaits,    \* external: how many, at most
          Backoff,     \* Backoff[a]: the sleep after failed attempt a
          MaxRounds    \* bound: rounds explored

Attempts == 0 .. RetryCount

ASSUME SenderAssumption ==
  /\ TLS \in BOOLEAN /\ RetryCount \in Nat /\ Timeout \in Nat /\ MaxRounds \in Nat
  /\ MaxWaits \in Nat \ {0} /\ Slow \subseteq Peers
  /\ Backoff \in [0 .. RetryCount - 1 -> Nat]

VARIABLES phase,      \* "idle", "sending", "cancelled"
          round,      \* number of the round: which message this is
          signature,  \* signature field of the shared message
          step,       \* where each peer's task is
          attempt,    \* which attempt it is at
          timer,      \* ticks its await may still take
          waits,      \* waits of its POST so far
          result,     \* its SendResult
          sent,       \* requests posted so far
          handled,    \* those a peer has received
          elapsed     \* history: ticks since the round in progress began

taskVars == <<step, attempt, timer, waits, result>>
netVars == <<sent, handled>>
vars == <<phase, round, signature, step, attempt, timer, waits, result,
          sent, handled, elapsed>>

Steps == {"ready", "posting", "backoff", "done"}

(***************************************************************************)
(* A signature is "valid" if it covers the message with no signature, as   *)
(* verify_signature recomputes it; sign() covers the message as it is.     *)
(***************************************************************************)
Signatures == {"none", "valid", "broken"}

Signed == IF ~TLS THEN "none" ELSE IF signature = "none" THEN "valid" ELSE "broken"

Request(p, sig) == [peer |-> p, round |-> round, attempt |-> attempt[p], sig |-> sig]

Init == /\ phase = "idle" /\ round = 0 /\ signature = "none"
        /\ step = [p \in Peers |-> "done"]
        /\ attempt = [p \in Peers |-> 0]
        /\ timer = [p \in Peers |-> 0]
        /\ waits = [p \in Peers |-> 0]
        /\ result = [p \in Peers |-> "none"]
        /\ sent = {} /\ handled = {} /\ elapsed = 0

(***************************************************************************)
(* The loop builds a new message and calls send_to_all.                    *)
(***************************************************************************)
SendToAll == /\ phase = "idle" /\ round < MaxRounds
             /\ phase' = "sending"
             /\ round' = round + 1
             /\ signature' = "none"
             /\ step' = [p \in Peers |-> "ready"]
             /\ attempt' = [p \in Peers |-> 0]
             /\ timer' = [p \in Peers |-> 0]
             /\ waits' = [p \in Peers |-> 0]
             /\ result' = [p \in Peers |-> "none"]
             /\ elapsed' = 0
             /\ UNCHANGED netVars

(***************************************************************************)
(* send(): sign, then post.                                                *)
(***************************************************************************)
Post(p) == /\ phase = "sending" /\ step[p] = "ready"
           /\ signature' = Signed
           /\ sent' = sent \cup {Request(p, Signed)}
           /\ step' = [step EXCEPT ![p] = "posting"]
           /\ timer' = [timer EXCEPT ![p] = Timeout]
           /\ waits' = [waits EXCEPT ![p] = 1]
           /\ UNCHANGED <<phase, round, attempt, result, handled, elapsed>>

(***************************************************************************)
(* What the POST waited for came, the connection or a piece of the answer, *)
(* and it waits for more, from the start of the time-out.                  *)
(***************************************************************************)
NextWait(p) == /\ phase = "sending" /\ step[p] = "posting"
               /\ p \in Slow /\ waits[p] < MaxWaits
               /\ timer' = [timer EXCEPT ![p] = Timeout]
               /\ waits' = [waits EXCEPT ![p] = @ + 1]
               /\ UNCHANGED <<phase, round, signature, step, attempt, result, netVars, elapsed>>

(***************************************************************************)
(* The loop of send_with_retry after a failed attempt: sleep and try       *)
(* again, or give up with the last failure.                                *)
(***************************************************************************)
RetriesLeft(p) == attempt[p] < RetryCount

AttemptFailed(p) ==
  /\ \/ /\ RetriesLeft(p)
        /\ step' = [step EXCEPT ![p] = "backoff"]
        /\ timer' = [timer EXCEPT ![p] = Backoff[attempt[p]]]
        /\ UNCHANGED result
     \/ /\ ~RetriesLeft(p)
        /\ step' = [step EXCEPT ![p] = "done"]
        /\ timer' = [timer EXCEPT ![p] = 0]
        /\ result' = [result EXCEPT ![p] = "failed"]
  /\ waits' = [waits EXCEPT ![p] = 0]
  /\ UNCHANGED <<phase, round, attempt, netVars, elapsed>>

(***************************************************************************)
(* The key or the certificates cannot be loaded: nothing is posted.        *)
(***************************************************************************)
(* Mutant of LocalFailure: the message is posted although signing failed. *)
LocalFailure_Open(p) ==
  /\ phase = "sending" /\ step[p] = "ready" /\ TLS
  /\ sent' = sent \cup {Request(p, signature)}
  /\ step' = [step EXCEPT ![p] = "posting"]
  /\ timer' = [timer EXCEPT ![p] = Timeout]
  /\ waits' = [waits EXCEPT ![p] = 1]
  /\ UNCHANGED <<phase, round, signature, attempt, result, handled, elapsed>>

LocalFailure(p) == /\ phase = "sending" /\ step[p] = "ready" /\ TLS
                   /\ AttemptFailed(p)
                   /\ UNCHANGED signature

(***************************************************************************)
(* The peer answered 200, so it has the request; or the POST failed: any   *)
(* other code, a timeout, a refused or broken connection.                  *)
(***************************************************************************)
(* Mutant of Arrived: the answer to an older heartbeat is taken for this one. *)
Arrived_Any(p) == \E m \in handled : m.peer = p

Arrived(p) == \E m \in handled : m.peer = p /\ m.round = round
                                 /\ m.attempt = attempt[p]

PostSucceeds(p) == /\ phase = "sending" /\ step[p] = "posting" /\ Arrived(p)
                   /\ step' = [step EXCEPT ![p] = "done"]
                   /\ timer' = [timer EXCEPT ![p] = 0]
                   /\ waits' = [waits EXCEPT ![p] = 0]
                   /\ result' = [result EXCEPT ![p] = "reached"]
                   /\ UNCHANGED <<phase, round, signature, attempt, netVars, elapsed>>

PostFails(p) == /\ phase = "sending" /\ step[p] = "posting"
                /\ AttemptFailed(p)
                /\ UNCHANGED signature

(* Mutants of BackoffEnds: the failed attempt is not counted, or twice. *)
BackoffEnds_Uncounted(p) ==
  /\ phase = "sending" /\ step[p] = "backoff" /\ timer[p] = 0
  /\ step' = [step EXCEPT ![p] = "ready"]
  /\ UNCHANGED <<phase, round, signature, attempt, timer, waits, result, netVars, elapsed>>

BackoffEnds_Twice(p) ==
  /\ phase = "sending" /\ step[p] = "backoff" /\ timer[p] = 0
  /\ step' = [step EXCEPT ![p] = "ready"]
  /\ attempt' = [attempt EXCEPT ![p] = @ + 2]
  /\ UNCHANGED <<phase, round, signature, timer, waits, result, netVars, elapsed>>

BackoffEnds(p) == /\ phase = "sending" /\ step[p] = "backoff" /\ timer[p] = 0
                  /\ step' = [step EXCEPT ![p] = "ready"]
                  /\ attempt' = [attempt EXCEPT ![p] = @ + 1]
                  /\ UNCHANGED <<phase, round, signature, timer, waits, result, netVars, elapsed>>

(***************************************************************************)
(* The gather is complete, one result per peer.                            *)
(***************************************************************************)
AllDone == \A p \in Peers : step[p] = "done"

(* Mutant of RoundReturns: the first result ends the round. *)
RoundReturns_First == /\ phase = "sending"
                      /\ \E p \in Peers : step[p] = "done"
                      /\ phase' = "idle" /\ elapsed' = 0
                      /\ UNCHANGED <<round, signature, taskVars, netVars>>

RoundReturns == /\ phase = "sending" /\ AllDone
                /\ phase' = "idle" /\ elapsed' = 0
                /\ UNCHANGED <<round, signature, taskVars, netVars>>

(***************************************************************************)
(* stop() cancels the loop's task, the gather and every task under it.     *)
(***************************************************************************)
Cancel == /\ phase # "cancelled"
          /\ phase' = "cancelled"
          /\ step' = [p \in Peers |-> "done"]
          /\ timer' = [p \in Peers |-> 0]
          /\ waits' = [p \in Peers |-> 0]
          /\ elapsed' = 0
          /\ UNCHANGED <<round, signature, attempt, result, netVars>>

(***************************************************************************)
(* External: a request arrives; a tick passes.  PostMax is the longest one *)
(* POST lasts, Remaining[a] the longest time from the start of attempt a   *)
(* to the end of the retry loop, RoundBound how long a round should take   *)
(* at most; elapsed is counted to one tick past it.                        *)
(***************************************************************************)
PostMax == MaxWaits * Timeout

Remaining[a \in Attempts] ==
  IF a = RetryCount THEN PostMax ELSE PostMax + Backoff[a] + Remaining[a + 1]

RoundBound == Remaining[0]

Arrive(m) == /\ m \in sent \ handled
             /\ handled' = handled \cup {m}
             /\ UNCHANGED <<phase, round, signature, taskVars, sent, elapsed>>

Tick == /\ phase = "sending" /\ ~AllDone
        /\ \A p \in Peers : step[p] # "done" => timer[p] > 0
        /\ timer' = [p \in Peers |-> IF step[p] = "done" THEN 0 ELSE timer[p] - 1]
        /\ elapsed' = IF elapsed > RoundBound THEN elapsed ELSE elapsed + 1
        /\ UNCHANGED <<phase, round, signature, step, attempt, waits, result, netVars>>

TaskStep(p) == \/ Post(p) \/ NextWait(p) \/ LocalFailure(p) \/ PostSucceeds(p)
               \/ PostFails(p) \/ BackoffEnds(p)

Next == \/ SendToAll \/ RoundReturns \/ Cancel \/ Tick
        \/ \E p \in Peers : TaskStep(p)
        \/ \E m \in sent : Arrive(m)

Spec == Init /\ [][Next]_vars

(***************************************************************************)
(* Tasks that can run do, timeouts fire because the clock advances, and    *)
(* the gather returns when it can.  Of the network nothing is assumed but  *)
(* that no answer trickles in for ever (MaxWaits).                         *)
(***************************************************************************)
FairSpec == /\ Spec
            /\ \A p \in Peers : WF_vars(TaskStep(p))
            /\ WF_vars(RoundReturns)
            /\ WF_vars(Tick)

-----------------------------------------------------------------------------
Message == [peer : Peers, round : 1 .. MaxRounds, attempt : Attempts, sig : Signatures]

(* Values the code can give, and what was received was sent. *)
TypeOK == /\ phase \in {"idle", "sending", "cancelled"}
          /\ round \in 0 .. MaxRounds /\ signature \in Signatures
          /\ step \in [Peers -> Steps] /\ attempt \in [Peers -> Attempts]
          /\ timer \in [Peers -> Nat] /\ waits \in [Peers -> 0 .. MaxWaits]
          /\ elapsed \in Nat
          /\ result \in [Peers -> {"none", "reached", "failed"}]
          /\ sent \subseteq Message /\ handled \subseteq sent

(* A peer is given up only after every configured attempt, and a peer      *)
(* reported reached has received this round's heartbeat, not an older one. *)
VerdictIsEarned ==
  \A p \in Peers :
    /\ result[p] = "failed" => attempt[p] = RetryCount
    /\ result[p] = "reached" => \E m \in handled : m.peer = p /\ m.round = round

(* With TLS no heartbeat leaves unsigned, also when the key was missing    *)
(* for some attempts (sender.py:99, fail closed).                          *)
NeverUnsigned == TLS => \A m \in sent : m.sig # "none"

(* A dead peer holds the loop for no longer than all its time-outs and     *)
(* back-offs together, a slow one for no longer than all the waits of its  *)
(* answers: the SendMax of HeartbeatDaemon.                                *)
RoundIsBounded == phase = "sending" => elapsed <= RoundBound

(* Every round ends, whatever the peers and the network do. *)
RoundEnds == (phase = "sending") ~> (phase # "sending")

(* One verdict for each peer, unchanged until the next round, and true:    *)
(* the sender implements HeartbeatRound.                                   *)
RoundOf(ph) == CASE ph = "idle" -> "idle"
                 [] ph = "sending" -> "open"
                 [] ph = "cancelled" -> "aborted"

Reached == {p \in Peers : \E m \in handled : m.peer = p /\ m.round = round}

Round == INSTANCE HeartbeatRound WITH state <- RoundOf(phase), verdict <- result,
                                      got <- Reached

ImplementsRound == Round!Spec

(* README.md, "Client Mode": sends signed heartbeats to federation peers;  *)
(* what a peer receives verifies.                                          *)
HeartbeatsVerify == TLS => \A m \in handled : m.sig = "valid"
=============================================================================
