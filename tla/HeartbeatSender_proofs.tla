----------------------- MODULE HeartbeatSender_proofs -----------------------
(***************************************************************************)
(* Proofs about HeartbeatSender, for any number of peers, retries, rounds, *)
(* timeouts, waits and back-offs: type correctness, earned verdicts, no    *)
(* unsigned heartbeat, the bound on a round, and that the sender           *)
(* implements HeartbeatRound.                                              *)
(*                                                                         *)
(* One inductive invariant, Tasks, carries them: what each task's step     *)
(* says of its attempt, its timer, its result and of the time the round    *)
(* may still take.                                                         *)
(***************************************************************************)
EXTENDS HeartbeatSender, Induction, TLAPS

(* A round in progress has a number. *)
Numbered == phase = "sending" => round > 0

(* What is sent belongs to this round or to an earlier one. *)
NotFromTheFuture == \A m \in sent : m.round <= round

(* A task that is not done has no result yet; one that backs off has an    *)
(* attempt left; in a round, a task that is done has a result.             *)
TaskResult(p) ==
  /\ step[p] # "done" => result[p] = "none"
  /\ step[p] = "backoff" => attempt[p] < RetryCount
  /\ phase = "sending" /\ step[p] = "done" => result[p] # "none"

(* The waits its POST may still have, after the present one. *)
Owed(p) == (MaxWaits - waits[p]) * Timeout

(* The longest time the task may still take. *)
Rest(p) == CASE step[p] = "ready"   -> Remaining[attempt[p]]
             [] step[p] = "posting" -> timer[p] + Owed(p) + Remaining[attempt[p]] - PostMax
             [] step[p] = "backoff" -> timer[p] + Remaining[attempt[p] + 1]
             [] step[p] = "done"    -> 0

TaskTime(p) ==
  /\ step[p] = "ready" => timer[p] = 0
  /\ phase = "sending" /\ step[p] # "done" => elapsed + Rest(p) <= RoundBound

Tasks == /\ TypeOK /\ Numbered /\ NotFromTheFuture
         /\ \A p \in Peers : TaskResult(p)
         /\ VerdictIsEarned
         /\ NeverUnsigned

Bounded == /\ \A p \in Peers : TaskTime(p)
           /\ phase = "sending" => elapsed <= RoundBound

LEMMA SignedType ==
  ASSUME TypeOK
  PROVE  Signed \in Signatures /\ (TLS => Signed # "none")
BY SenderAssumption DEF TypeOK, Signed, Signatures

(***************************************************************************)
(* Types and results.                                                      *)
(***************************************************************************)
LEMMA TasksInit == Init => Tasks
BY SenderAssumption
DEF Init, Tasks, TypeOK, Steps, Attempts, Signatures, Numbered, NotFromTheFuture,
    TaskResult, VerdictIsEarned, NeverUnsigned

LEMMA AttemptFailedKeepsTasks ==
  ASSUME Tasks, NEW p \in Peers, phase = "sending", step[p] \in {"ready", "posting"},
         AttemptFailed(p), UNCHANGED signature
  PROVE  Tasks'
<1>. USE DEF Tasks, netVars
<1>1. CASE RetriesLeft(p)
  <2>1. Backoff[attempt[p]] \in Nat
    BY <1>1, SenderAssumption DEF RetriesLeft, TypeOK, Attempts
  <2>2. /\ step' = [step EXCEPT ![p] = "backoff"]
        /\ timer' = [timer EXCEPT ![p] = Backoff[attempt[p]]]
        /\ waits' = [waits EXCEPT ![p] = 0]
        /\ UNCHANGED <<phase, round, signature, attempt, result, sent, handled, elapsed>>
    BY <1>1 DEF AttemptFailed
  <2>3. TypeOK'
    BY <2>1, <2>2, SenderAssumption DEF TypeOK, Steps
  <2>4. \A q \in Peers : TaskResult(q)'
    BY <1>1, <2>2 DEF TaskResult, RetriesLeft, TypeOK
  <2>. QED
    BY <2>2, <2>3, <2>4 DEF Numbered, NotFromTheFuture, VerdictIsEarned, NeverUnsigned
<1>2. CASE ~RetriesLeft(p)
  <2>1. attempt[p] = RetryCount
    BY <1>2, SenderAssumption DEF RetriesLeft, TypeOK, Attempts
  <2>2. /\ step' = [step EXCEPT ![p] = "done"]
        /\ timer' = [timer EXCEPT ![p] = 0]
        /\ result' = [result EXCEPT ![p] = "failed"]
        /\ waits' = [waits EXCEPT ![p] = 0]
        /\ UNCHANGED <<phase, round, signature, attempt, sent, handled, elapsed>>
    BY <1>2 DEF AttemptFailed
  <2>3. TypeOK'
    BY <2>2, SenderAssumption DEF TypeOK, Steps
  <2>4. \A q \in Peers : TaskResult(q)'
    BY <2>2 DEF TaskResult, TypeOK
  <2>5. VerdictIsEarned'
    BY <2>1, <2>2 DEF VerdictIsEarned, TypeOK
  <2>. QED
    BY <2>2, <2>3, <2>4, <2>5 DEF Numbered, NotFromTheFuture, NeverUnsigned
<1>. QED
  BY <1>1, <1>2

LEMMA TasksStep == Tasks /\ [Next]_vars => Tasks'
<1>. SUFFICES ASSUME Tasks, [Next]_vars
              PROVE  Tasks'
  OBVIOUS
<1>. USE DEF Tasks, taskVars, netVars
<1>1. CASE SendToAll
  <2>1. TypeOK'
    BY <1>1, SenderAssumption DEF SendToAll, TypeOK, Steps, Signatures, Attempts
  <2>2. NotFromTheFuture'
    BY <1>1 DEF SendToAll, NotFromTheFuture, TypeOK, Message
  <2>3. Numbered'
    BY <1>1 DEF SendToAll, Numbered, TypeOK
  <2>. QED
    BY <1>1, <2>1, <2>2, <2>3 DEF SendToAll, TaskResult, VerdictIsEarned, NeverUnsigned
<1>2. ASSUME NEW p \in Peers, Post(p) PROVE Tasks'
  <2>1. round \in 1 .. MaxRounds
    BY <1>2, SenderAssumption DEF Post, Numbered, TypeOK
  <2>2. Request(p, Signed) \in Message /\ Request(p, Signed).round = round
        /\ Request(p, Signed).sig = Signed
    BY <1>2, <2>1, SignedType DEF Request, Message, TypeOK
  <2>3. TypeOK'
    BY <1>2, <2>2, SignedType, SenderAssumption DEF Post, TypeOK, Steps
  <2>4. NotFromTheFuture' /\ NeverUnsigned'
    BY <1>2, <2>2, SignedType DEF Post, NotFromTheFuture, NeverUnsigned, TypeOK
  <2>5. \A q \in Peers : TaskResult(q)'
    BY <1>2 DEF Post, TaskResult, TypeOK
  <2>. QED
    BY <1>2, <2>3, <2>4, <2>5 DEF Post, Numbered, VerdictIsEarned
<1>3. ASSUME NEW p \in Peers, NextWait(p) PROVE Tasks'
  <2>1. waits[p] + 1 \in 0 .. MaxWaits
    BY <1>3, SenderAssumption DEF NextWait, TypeOK
  <2>2. TypeOK'
    BY <1>3, <2>1, SenderAssumption DEF NextWait, TypeOK
  <2>. QED
    BY <1>3, <2>2 DEF NextWait, TaskResult, Numbered, NotFromTheFuture, VerdictIsEarned,
                       NeverUnsigned
<1>4. ASSUME NEW p \in Peers, LocalFailure(p) PROVE Tasks'
  BY <1>4, AttemptFailedKeepsTasks DEF LocalFailure
<1>5. ASSUME NEW p \in Peers, PostSucceeds(p) PROVE Tasks'
  <2>1. TypeOK'
    BY <1>5, SenderAssumption DEF PostSucceeds, TypeOK, Steps
  <2>2. \A q \in Peers : TaskResult(q)'
    BY <1>5 DEF PostSucceeds, TaskResult, TypeOK
  <2>3. VerdictIsEarned'
    BY <1>5 DEF PostSucceeds, Arrived, VerdictIsEarned, TypeOK
  <2>. QED
    BY <1>5, <2>1, <2>2, <2>3 DEF PostSucceeds, Numbered, NotFromTheFuture, NeverUnsigned
<1>6. ASSUME NEW p \in Peers, PostFails(p) PROVE Tasks'
  BY <1>6, AttemptFailedKeepsTasks DEF PostFails
<1>7. ASSUME NEW p \in Peers, BackoffEnds(p) PROVE Tasks'
  <2>1. attempt[p] < RetryCount /\ result[p] = "none"
    BY <1>7 DEF BackoffEnds, TaskResult
  <2>2. TypeOK'
    <3>0. attempt[p] \in 0 .. RetryCount /\ RetryCount \in Nat
      BY SenderAssumption DEF TypeOK, Attempts
    <3>1. attempt[p] + 1 \in Attempts
      BY <2>1, <3>0 DEF Attempts
    <3>2. attempt' \in [Peers -> Attempts]
      BY <1>7, <3>1 DEF BackoffEnds, TypeOK
    <3>3. step' \in [Peers -> Steps]
      BY <1>7 DEF BackoffEnds, TypeOK, Steps
    <3>. QED
      BY <1>7, <3>2, <3>3 DEF BackoffEnds, TypeOK
  <2>3. \A q \in Peers : TaskResult(q)'
    BY <1>7 DEF BackoffEnds, TaskResult, TypeOK
  <2>4. VerdictIsEarned'
    BY <1>7, <2>1 DEF BackoffEnds, VerdictIsEarned, TypeOK
  <2>. QED
    BY <1>7, <2>2, <2>3, <2>4 DEF BackoffEnds, Numbered, NotFromTheFuture, NeverUnsigned
<1>8. CASE RoundReturns
  BY <1>8
  DEF RoundReturns, TypeOK, TaskResult, Numbered, NotFromTheFuture, VerdictIsEarned,
      NeverUnsigned
<1>9. CASE Cancel
  <2>1. TypeOK'
    BY <1>9, SenderAssumption DEF Cancel, TypeOK, Steps
  <2>. QED
    BY <1>9, <2>1 DEF Cancel, TaskResult, Numbered, NotFromTheFuture, VerdictIsEarned,
                       NeverUnsigned
<1>10. ASSUME NEW m \in sent, Arrive(m) PROVE Tasks'
  <2>1. VerdictIsEarned'
    BY <1>10 DEF Arrive, VerdictIsEarned
  <2>. QED
    BY <1>10, <2>1 DEF Arrive, TypeOK, TaskResult, Numbered, NotFromTheFuture, NeverUnsigned
<1>11. CASE Tick
  <2>1. \A p \in Peers : step[p] # "done" => timer[p] - 1 \in Nat
    BY <1>11 DEF Tick, TypeOK
  <2>2. TypeOK'
    BY <1>11, <2>1 DEF Tick, TypeOK
  <2>. QED
    BY <1>11, <2>2 DEF Tick, TaskResult, Numbered, NotFromTheFuture, VerdictIsEarned,
                      NeverUnsigned
<1>12. CASE UNCHANGED vars
  BY <1>12 DEF vars, TypeOK, TaskResult, Numbered, NotFromTheFuture, VerdictIsEarned,
               NeverUnsigned
<1>. QED
  BY <1>1, <1>2, <1>3, <1>4, <1>5, <1>6, <1>7, <1>8, <1>9, <1>10, <1>11, <1>12
  DEF Next, TaskStep

LEMMA TasksAlways == Spec => []Tasks
<1>. QED
  BY TasksInit, TasksStep, PTL DEF Spec

(* In every reachable state every variable has a value the code can give.  *)
THEOREM TypeCorrect == Spec => []TypeOK
<1>1. Tasks => TypeOK
  BY DEF Tasks
<1>. QED
  BY <1>1, TasksAlways, PTL

(* A peer is given up only after every attempt, and a peer reported        *)
(* reached has received a heartbeat of this very round.                    *)
THEOREM VerdictsEarned == Spec => []VerdictIsEarned
<1>1. Tasks => VerdictIsEarned
  BY DEF Tasks
<1>. QED
  BY <1>1, TasksAlways, PTL

(* With TLS nothing leaves unsigned, whichever attempts failed to sign.    *)
THEOREM FailClosed == Spec => []NeverUnsigned
<1>1. Tasks => NeverUnsigned
  BY DEF Tasks
<1>. QED
  BY <1>1, TasksAlways, PTL

(***************************************************************************)
(* The bound on a round.                                                   *)
(***************************************************************************)
LEMMA PostMaxType == PostMax \in Nat
BY SenderAssumption DEF PostMax

LEMMA OwedType ==
  ASSUME TypeOK, NEW p \in Peers
  PROVE  Owed(p) \in Nat
<1>1. MaxWaits - waits[p] \in Nat /\ Timeout \in Nat
  BY SenderAssumption DEF TypeOK
<1>. QED
  BY <1>1 DEF Owed

(* The recursion of Remaining has a solution, from the last attempt down.  *)
IsRemaining(f, k) ==
  f = [a \in RetryCount - k .. RetryCount |->
         IF a = RetryCount THEN PostMax ELSE PostMax + Backoff[a] + f[a + 1]]

LEMMA RemainingExists == \E f : IsRemaining(f, RetryCount)
<1>. DEFINE S == {k \in 0 .. RetryCount : \E f : IsRemaining(f, k)}
<1>0. RetryCount \in Nat
  BY SenderAssumption
<1>1. 0 \in S
  <2>. DEFINE f == [a \in RetryCount - 0 .. RetryCount |-> PostMax]
  <2>1. f = [a \in RetryCount - 0 .. RetryCount |->
               IF a = RetryCount THEN PostMax ELSE PostMax + Backoff[a] + f[a + 1]]
    BY <1>0
  <2>. HIDE DEF f
  <2>. QED
    BY <1>0, <2>1 DEF IsRemaining
<1>2. ASSUME NEW k \in 0 .. RetryCount - 1, k \in S PROVE k + 1 \in S
  <2>1. PICK f : IsRemaining(f, k)
    BY <1>2
  <2>. DEFINE g == [a \in RetryCount - (k + 1) .. RetryCount |->
                      IF a = RetryCount THEN PostMax ELSE PostMax + Backoff[a] + f[a + 1]]
  <2>2. \A a \in RetryCount - k .. RetryCount : g[a] = f[a]
    BY <1>0, <2>1 DEF IsRemaining
  <2>3. \A a \in RetryCount - (k + 1) .. RetryCount :
          a # RetryCount => a + 1 \in RetryCount - k .. RetryCount
    BY <1>0
  <2>4. g = [a \in RetryCount - (k + 1) .. RetryCount |->
               IF a = RetryCount THEN PostMax ELSE PostMax + Backoff[a] + g[a + 1]]
    BY <2>2, <2>3
  <2>. HIDE DEF g
  <2>5. \E h : IsRemaining(h, k + 1)
    BY <2>4 DEF IsRemaining
  <2>. QED
    BY <1>0, <2>5
<1>. HIDE DEF S
<1>3. RetryCount \in S
  BY <1>0, <1>1, <1>2, UpTo
<1>. QED
  BY <1>3 DEF S

LEMMA RemainingDef ==
  /\ Remaining[RetryCount] = PostMax
  /\ \A a \in 0 .. RetryCount - 1 : Remaining[a] = PostMax + Backoff[a] + Remaining[a + 1]
<1>0. RetryCount \in Nat
  BY SenderAssumption
<1>1. IsRemaining(Remaining, RetryCount)
  <2>1. Remaining = CHOOSE f : IsRemaining(f, RetryCount)
    <3>1. RetryCount - RetryCount = 0
      BY <1>0
    <3>. QED
      BY <3>1 DEF Remaining, IsRemaining, Attempts
  <2>. QED
    BY <2>1, RemainingExists
<1>2. Remaining = [a \in 0 .. RetryCount |->
                     IF a = RetryCount THEN PostMax
                     ELSE PostMax + Backoff[a] + Remaining[a + 1]]
  BY <1>0, <1>1 DEF IsRemaining
<1>. QED
  BY <1>0, <1>2

LEMMA RemainingFacts ==
  /\ \A a \in Attempts : Remaining[a] \in Nat /\ Remaining[a] >= PostMax
  /\ \A a \in Attempts : a < RetryCount =>
       Backoff[a] \in Nat /\ a + 1 \in Attempts
       /\ Remaining[a] = PostMax + Backoff[a] + Remaining[a + 1]
  /\ RoundBound \in Nat /\ 0 \in Attempts
<1>. DEFINE S == {k \in 0 .. RetryCount : /\ Remaining[RetryCount - k] \in Nat
                                          /\ Remaining[RetryCount - k] >= PostMax}
<1>1. 0 \in Attempts /\ RetryCount \in Nat
  BY SenderAssumption DEF Attempts
<1>2. \A a \in Attempts : a < RetryCount =>
        Backoff[a] \in Nat /\ a + 1 \in Attempts
        /\ Remaining[a] = PostMax + Backoff[a] + Remaining[a + 1]
  BY SenderAssumption, RemainingDef DEF Attempts
<1>3. 0 \in S
  BY <1>1, RemainingDef, PostMaxType
<1>4. ASSUME NEW k \in 0 .. RetryCount - 1, k \in S PROVE k + 1 \in S
  <2>. DEFINE a == RetryCount - (k + 1)
  <2>1. a \in Attempts /\ a < RetryCount /\ a + 1 = RetryCount - k
    BY <1>1 DEF Attempts
  <2>2. Backoff[a] \in Nat /\ Remaining[a] = PostMax + Backoff[a] + Remaining[RetryCount - k]
    BY <1>2, <2>1
  <2>3. Remaining[a] \in Nat /\ Remaining[a] >= PostMax
    BY <1>4, <2>2, PostMaxType
  <2>. QED
    BY <1>1, <2>3
<1>. HIDE DEF S
<1>5. 0 .. RetryCount \subseteq S
  BY <1>1, <1>3, <1>4, UpTo
<1>6. ASSUME NEW a \in Attempts PROVE Remaining[a] \in Nat /\ Remaining[a] >= PostMax
  <2>1. RetryCount - a \in 0 .. RetryCount /\ RetryCount - (RetryCount - a) = a
    BY <1>1 DEF Attempts
  <2>. QED
    BY <1>5, <2>1 DEF S
<1>. QED
  BY <1>1, <1>2, <1>6 DEF RoundBound

(* i attempts took r0 - r, of which i time-outs and back-offs that add up  *)
(* to the terms of a geometric progression before x.                       *)
Geometric(b, r0, r, i, t, x) == (b - 1) * (r0 - r - i * t) = x - 1

(* One attempt more. *)
LEMMA GeometricStep ==
  ASSUME NEW b \in Int, NEW r0 \in Int, NEW r \in Int, NEW s \in Int,
         NEW x \in Int, NEW i \in Int, NEW t \in Int,
         Geometric(b, r0, r, i, t, x), r = t + x + s
  PROVE  Geometric(b, r0, s, i + 1, t, b * x)
<1>1. (i + 1) * t = i * t + t
  OBVIOUS
<1>2. r0 - s - (i + 1) * t = (r0 - r - i * t) + x
  BY <1>1
<1>3. PICK y \in Int : y = r0 - r - i * t
  OBVIOUS
<1>4. (b - 1) * (y + x) = (b - 1) * y + (b * x - x)
  OBVIOUS
<1>. QED
  BY <1>2, <1>3, <1>4 DEF Geometric

(* With n retries and back-offs 1, b, b^2, ..., which is what retry_backoff *)
(* means, the longest round is all POSTs and all back-offs of one task:     *)
(* for b = 2, 2 * Backoff[n - 1] - 1 = 2^n - 1 of them (sender.py:191).     *)
THEOREM RoundBoundClosed ==
  ASSUME NEW b \in Nat, RetryCount > 0, Backoff[0] = 1,
         \A a \in 0 .. RetryCount - 2 : Backoff[a + 1] = b * Backoff[a]
  PROVE  (b - 1) * (RoundBound - (RetryCount + 1) * PostMax)
           = b * Backoff[RetryCount - 1] - 1
<1>. DEFINE R == RetryCount
            T == PostMax
            Claim(a) == Geometric(b, Remaining[0], Remaining[a], a, T, Backoff[a])
            S == {a \in 0 .. R - 1 : Claim(a)}
<1>1. R \in Nat /\ R - 1 \in Nat /\ T \in Nat /\ Remaining[0] \in Nat /\ Remaining[R] = T
  BY SenderAssumption, PostMaxType, RemainingFacts, RemainingDef DEF Attempts
<1>2. \A a \in 0 .. R - 1 : /\ Backoff[a] \in Nat /\ Remaining[a] \in Nat /\ Remaining[a + 1] \in Nat
                            /\ Remaining[a] = T + Backoff[a] + Remaining[a + 1]
  BY <1>1, RemainingFacts DEF Attempts
<1>. HIDE DEF R, T
<1>3. \A a \in 0 .. R - 1 : a # R - 1 => Backoff[a + 1] = b * Backoff[a]
  BY <1>1 DEF R
<1>5. 0 \in S
  <2>1. Remaining[0] - Remaining[0] - 0 * T = 0
    BY <1>1
  <2>. QED
    BY <1>1, <2>1 DEF Geometric
<1>6. ASSUME NEW a \in 0 .. (R - 1) - 1, a \in S PROVE a + 1 \in S
  <2>1. a \in 0 .. R - 1 /\ a # R - 1 /\ a + 1 \in 0 .. R - 1 /\ a \in Int
    BY <1>1
  <2>2. /\ Geometric(b, Remaining[0], Remaining[a], a, T, Backoff[a])
        /\ Backoff[a] \in Int /\ Remaining[a] \in Int /\ Remaining[a + 1] \in Int
        /\ Remaining[a] = T + Backoff[a] + Remaining[a + 1]
        /\ Remaining[0] \in Int /\ T \in Int /\ b \in Int
    BY <1>1, <1>2, <1>6, <2>1
  <2>3. Geometric(b, Remaining[0], Remaining[a + 1], a + 1, T, b * Backoff[a])
    BY <2>1, <2>2, GeometricStep
  <2>. QED
    BY <1>3, <2>1, <2>3
<1>. HIDE DEF S
<1>7. R - 1 \in S
  BY <1>1, <1>5, <1>6, UpTo
<1>8. (b - 1) * (Remaining[0] - Remaining[R] - R * T) = b * Backoff[R - 1] - 1
  <2>. DEFINE a == R - 1
  <2>1. a \in 0 .. R - 1 /\ a + 1 = R /\ a \in Int
    BY <1>1
  <2>2. Claim(a)
    BY <1>7 DEF S
  <2>. HIDE DEF a
  <2>3. /\ Geometric(b, Remaining[0], Remaining[a], a, T, Backoff[a])
        /\ Backoff[a] \in Int /\ Remaining[a] \in Int /\ Remaining[a + 1] \in Int
        /\ Remaining[a] = T + Backoff[a] + Remaining[a + 1]
        /\ Remaining[0] \in Int /\ T \in Int /\ b \in Int
    BY <1>1, <1>2, <2>1, <2>2
  <2>4. Geometric(b, Remaining[0], Remaining[a + 1], a + 1, T, b * Backoff[a])
    BY <2>1, <2>3, GeometricStep
  <2>. QED
    BY <2>1, <2>4 DEF a, Geometric
<1>9. Remaining[0] - Remaining[R] - R * T = RoundBound - (R + 1) * T
  BY <1>1 DEF RoundBound
<1>. QED
  BY <1>8, <1>9 DEF R, T

LEMMA BoundedInit == Init => Bounded
BY SenderAssumption DEF Init, Bounded, TaskTime, RoundBound

LEMMA AttemptFailedKeepsBound ==
  ASSUME Tasks, Bounded, NEW p \in Peers, phase = "sending",
         step[p] \in {"ready", "posting"}, AttemptFailed(p)
  PROVE  Bounded'
<1>. USE DEF netVars
<1>0. attempt[p] \in Attempts /\ timer[p] \in Nat /\ elapsed \in Nat
      /\ elapsed + Rest(p) <= RoundBound
  BY DEF Tasks, TypeOK, Bounded, TaskTime
<1>1. CASE RetriesLeft(p)
  <2>1. /\ step' = [step EXCEPT ![p] = "backoff"]
        /\ timer' = [timer EXCEPT ![p] = Backoff[attempt[p]]]
        /\ waits' = [waits EXCEPT ![p] = 0]
        /\ UNCHANGED <<phase, attempt, elapsed>>
    BY <1>1 DEF AttemptFailed
  <2>2. step'[p] = "backoff" /\ timer'[p] = Backoff[attempt[p]]
    BY <2>1 DEF Tasks, TypeOK
  <2>3. elapsed + timer'[p] + Remaining[attempt[p] + 1] <= RoundBound
    <3>1. /\ Backoff[attempt[p]] \in Nat /\ Remaining[attempt[p] + 1] \in Nat
          /\ Remaining[attempt[p]] = PostMax + Backoff[attempt[p]] + Remaining[attempt[p] + 1]
      BY <1>0, <1>1, RemainingFacts DEF RetriesLeft
    <3>2. Remaining[attempt[p]] \in Nat /\ PostMax \in Nat /\ RoundBound \in Nat
          /\ Owed(p) \in Nat
      BY <1>0, RemainingFacts, PostMaxType, OwedType DEF Tasks
    <3>3. CASE step[p] = "ready"
      <4>1. elapsed + Remaining[attempt[p]] <= RoundBound
        BY <1>0, <3>3 DEF Rest
      <4>. QED
        BY <1>0, <2>2, <3>1, <3>2, <4>1
    <3>4. CASE step[p] = "posting"
      <4>1. Rest(p) = timer[p] + Owed(p) + Remaining[attempt[p]] - PostMax
        BY <3>4 DEF Rest
      <4>2. elapsed + (timer[p] + Owed(p) + Remaining[attempt[p]] - PostMax) <= RoundBound
        BY <1>0, <4>1
      <4>3. elapsed + Backoff[attempt[p]] + Remaining[attempt[p] + 1] <= RoundBound
        BY <1>0, <3>1, <3>2, <4>2
      <4>. QED
        BY <2>2, <4>3
    <3>. QED
      BY <3>3, <3>4
  <2>4. TaskTime(p)'
    <3>1. Rest(p)' = timer'[p] + Remaining[attempt[p] + 1]
      BY <2>1, <2>2 DEF Rest
    <3>2. timer'[p] \in Nat /\ Remaining[attempt[p] + 1] \in Nat /\ elapsed \in Nat
      BY <1>0, <1>1, <2>2, RemainingFacts DEF RetriesLeft
    <3>3. elapsed' + Rest(p)' <= RoundBound
      BY <2>1, <2>3, <3>1, <3>2
    <3>. QED
      BY <2>2, <3>3 DEF TaskTime, RoundBound
  <2>5. ASSUME NEW q \in Peers, q # p PROVE TaskTime(q)'
    BY <2>1, <2>5 DEF Tasks, TypeOK, Bounded, TaskTime, Rest, Owed, RoundBound
  <2>. QED
    BY <2>1, <2>4, <2>5 DEF Bounded, RoundBound
<1>2. CASE ~RetriesLeft(p)
  <2>1. /\ step' = [step EXCEPT ![p] = "done"]
        /\ timer' = [timer EXCEPT ![p] = 0]
        /\ waits' = [waits EXCEPT ![p] = 0]
        /\ UNCHANGED <<phase, attempt, elapsed>>
    BY <1>2 DEF AttemptFailed
  <2>2. TaskTime(p)'
    BY <2>1 DEF Tasks, TypeOK, TaskTime
  <2>3. ASSUME NEW q \in Peers, q # p PROVE TaskTime(q)'
    BY <2>1, <2>3 DEF Tasks, TypeOK, Bounded, TaskTime, Rest, Owed, RoundBound
  <2>. QED
    BY <2>1, <2>2, <2>3 DEF Bounded, RoundBound
<1>. QED
  BY <1>1, <1>2

LEMMA BoundedStep == Tasks /\ Bounded /\ [Next]_vars => Bounded'
<1>. SUFFICES ASSUME Tasks, Bounded, [Next]_vars
              PROVE  Bounded'
  OBVIOUS
<1>. USE DEF taskVars, netVars
<1>1. CASE SendToAll
  <2>1. \A p \in Peers : step'[p] = "ready" /\ attempt'[p] = 0 /\ timer'[p] = 0
    BY <1>1 DEF SendToAll
  <2>2. elapsed' = 0 /\ phase' = "sending"
    BY <1>1 DEF SendToAll
  <2>. QED
    BY <2>1, <2>2, RemainingFacts DEF Bounded, TaskTime, Rest, RoundBound
<1>2. ASSUME NEW p \in Peers, Post(p) PROVE Bounded'
  <2>1. /\ step' = [step EXCEPT ![p] = "posting"]
        /\ timer' = [timer EXCEPT ![p] = Timeout]
        /\ waits' = [waits EXCEPT ![p] = 1]
        /\ UNCHANGED <<phase, attempt, elapsed>>
    BY <1>2 DEF Post
  <2>2. TaskTime(p)'
    <3>1. step'[p] = "posting" /\ timer'[p] = Timeout /\ waits'[p] = 1 /\ step[p] = "ready"
      BY <1>2, <2>1 DEF Post, Tasks, TypeOK
    <3>2. elapsed + Remaining[attempt[p]] <= RoundBound
      BY <1>2, <3>1 DEF Post, Bounded, TaskTime, Rest
    <3>3. attempt[p] \in Attempts /\ elapsed \in Nat
      BY DEF Tasks, TypeOK
    <3>4. Timeout + (MaxWaits - 1) * Timeout = PostMax
      BY SenderAssumption DEF PostMax
    <3>5. Timeout + (MaxWaits - 1) * Timeout + Remaining[attempt[p]] - PostMax
            = Remaining[attempt[p]]
      BY <3>3, <3>4, RemainingFacts, PostMaxType
    <3>6. Rest(p)' = Remaining[attempt[p]]
      BY <2>1, <3>1, <3>5 DEF Rest, Owed
    <3>. QED
      BY <2>1, <3>1, <3>2, <3>6 DEF TaskTime, RoundBound
  <2>3. ASSUME NEW q \in Peers, q # p PROVE TaskTime(q)'
    BY <2>1, <2>3 DEF Tasks, TypeOK, Bounded, TaskTime, Rest, Owed, RoundBound
  <2>. QED
    BY <2>1, <2>2, <2>3 DEF Bounded, RoundBound
<1>3. ASSUME NEW p \in Peers, NextWait(p) PROVE Bounded'
  <2>1. /\ timer' = [timer EXCEPT ![p] = Timeout]
        /\ waits' = [waits EXCEPT ![p] = waits[p] + 1]
        /\ step[p] = "posting"
        /\ UNCHANGED <<phase, step, attempt, elapsed>>
    BY <1>3 DEF NextWait
  <2>2. TaskTime(p)'
    <3>1. timer'[p] = Timeout /\ waits'[p] = waits[p] + 1 /\ step'[p] = "posting"
      BY <2>1 DEF Tasks, TypeOK
    <3>2. /\ waits[p] \in Nat /\ timer[p] \in Nat /\ elapsed \in Nat
          /\ Remaining[attempt[p]] \in Nat
      BY SenderAssumption, RemainingFacts DEF Tasks, TypeOK
    <3>3. elapsed + (timer[p] + Owed(p) + Remaining[attempt[p]] - PostMax) <= RoundBound
      BY <1>3, <2>1 DEF NextWait, Bounded, TaskTime, Rest
    <3>4. Timeout + (MaxWaits - (waits[p] + 1)) * Timeout = Owed(p)
      BY <3>2, SenderAssumption DEF Owed
    <3>5. Rest(p)' = Owed(p) + Remaining[attempt[p]] - PostMax
      BY <2>1, <3>1, <3>4 DEF Rest, Owed
    <3>6. elapsed + Rest(p)' <= RoundBound
      BY <3>2, <3>3, <3>5, RemainingFacts, PostMaxType, OwedType DEF Tasks
    <3>. QED
      BY <2>1, <3>1, <3>6 DEF TaskTime, RoundBound
  <2>3. ASSUME NEW q \in Peers, q # p PROVE TaskTime(q)'
    BY <2>1, <2>3 DEF Tasks, TypeOK, Bounded, TaskTime, Rest, Owed, RoundBound
  <2>. QED
    BY <2>1, <2>2, <2>3 DEF Bounded, RoundBound
<1>4. ASSUME NEW p \in Peers, LocalFailure(p) PROVE Bounded'
  BY <1>4, AttemptFailedKeepsBound DEF LocalFailure
<1>5. ASSUME NEW p \in Peers, PostSucceeds(p) PROVE Bounded'
  <2>1. /\ step' = [step EXCEPT ![p] = "done"]
        /\ timer' = [timer EXCEPT ![p] = 0]
        /\ waits' = [waits EXCEPT ![p] = 0]
        /\ UNCHANGED <<phase, attempt, elapsed>>
    BY <1>5 DEF PostSucceeds
  <2>2. TaskTime(p)'
    BY <2>1 DEF Tasks, TypeOK, TaskTime
  <2>3. ASSUME NEW q \in Peers, q # p PROVE TaskTime(q)'
    BY <2>1, <2>3 DEF Tasks, TypeOK, Bounded, TaskTime, Rest, Owed, RoundBound
  <2>. QED
    BY <2>1, <2>2, <2>3 DEF Bounded, RoundBound
<1>6. ASSUME NEW p \in Peers, PostFails(p) PROVE Bounded'
  BY <1>6, AttemptFailedKeepsBound DEF PostFails
<1>7. ASSUME NEW p \in Peers, BackoffEnds(p) PROVE Bounded'
  <2>1. /\ step' = [step EXCEPT ![p] = "ready"]
        /\ attempt' = [attempt EXCEPT ![p] = attempt[p] + 1]
        /\ UNCHANGED <<phase, timer, waits, elapsed>>
    BY <1>7 DEF BackoffEnds
  <2>2. TaskTime(p)'
    <3>1. step'[p] = "ready" /\ attempt'[p] = attempt[p] + 1 /\ step[p] = "backoff"
          /\ timer[p] = 0
      BY <1>7, <2>1 DEF BackoffEnds, Tasks, TypeOK
    <3>2. attempt[p] \in Attempts /\ attempt[p] < RetryCount /\ elapsed \in Nat
      BY <3>1 DEF Tasks, TaskResult, TypeOK
    <3>3. Remaining[attempt[p] + 1] \in Nat
      BY <3>2, RemainingFacts
    <3>4. elapsed + Remaining[attempt[p] + 1] <= RoundBound
      BY <1>7, <3>1, <3>3 DEF BackoffEnds, Bounded, TaskTime, Rest
    <3>. QED
      BY <2>1, <3>1, <3>4 DEF TaskTime, Rest, RoundBound
  <2>3. ASSUME NEW q \in Peers, q # p PROVE TaskTime(q)'
    BY <2>1, <2>3 DEF Tasks, TypeOK, Bounded, TaskTime, Rest, Owed, RoundBound
  <2>. QED
    BY <2>1, <2>2, <2>3 DEF Bounded, RoundBound
<1>8. CASE RoundReturns \/ Cancel
  BY <1>8 DEF RoundReturns, Cancel, Bounded, TaskTime
<1>9. ASSUME NEW m \in sent, Arrive(m) PROVE Bounded'
  BY <1>9 DEF Arrive, Bounded, TaskTime, Rest, Owed, RoundBound
<1>10. CASE Tick
  <2>1. ASSUME NEW p \in Peers, step[p] # "done"
        PROVE  /\ step[p] \in {"posting", "backoff"}
               /\ elapsed + 1 <= RoundBound
               /\ elapsed + 1 + Rest(p)' <= RoundBound
    <3>1. timer[p] \in Nat /\ timer[p] > 0 /\ timer'[p] = timer[p] - 1
          /\ step'[p] = step[p] /\ attempt'[p] = attempt[p] /\ waits'[p] = waits[p]
      BY <1>10, <2>1 DEF Tick, Tasks, TypeOK
    <3>2. step[p] \in {"posting", "backoff"}
      BY <2>1, <3>1 DEF Bounded, TaskTime, Tasks, TypeOK, Steps
    <3>3. elapsed + Rest(p) <= RoundBound /\ elapsed \in Nat
      BY <1>10, <2>1 DEF Tick, Bounded, TaskTime, Tasks, TypeOK
    <3>4. attempt[p] \in Attempts /\ (step[p] = "backoff" => attempt[p] < RetryCount)
      BY DEF Tasks, TaskResult, TypeOK
    <3>5. CASE step[p] = "posting"
      <4>1. Remaining[attempt[p]] \in Nat /\ Remaining[attempt[p]] >= PostMax
            /\ Owed(p) \in Nat
        BY <3>4, RemainingFacts, OwedType DEF Tasks
      <4>2. /\ Rest(p) = timer[p] + Owed(p) + Remaining[attempt[p]] - PostMax
            /\ Rest(p)' = timer[p] - 1 + Owed(p) + Remaining[attempt[p]] - PostMax
        BY <3>1, <3>5 DEF Rest, Owed
      <4>. QED
        <5>1. /\ elapsed + (timer[p] + Owed(p) + Remaining[attempt[p]] - PostMax) <= RoundBound
              /\ timer[p] \in Nat /\ timer[p] > 0 /\ elapsed \in Nat
          BY <3>1, <3>3, <4>2
        <5>2. PostMax \in Nat /\ RoundBound \in Nat
          BY RemainingFacts, PostMaxType
        <5>3. /\ elapsed + 1 <= RoundBound
              /\ elapsed + 1 + (timer[p] - 1 + Owed(p) + Remaining[attempt[p]] - PostMax) <= RoundBound
          BY <4>1, <5>1, <5>2
        <5>. QED
          BY <3>2, <4>2, <5>3
    <3>6. CASE step[p] = "backoff"
      <4>1. Remaining[attempt[p] + 1] \in Nat
        BY <3>4, <3>6, RemainingFacts
      <4>2. /\ Rest(p) = timer[p] + Remaining[attempt[p] + 1]
            /\ Rest(p)' = timer[p] - 1 + Remaining[attempt[p] + 1]
        BY <3>1, <3>6 DEF Rest
      <4>. QED
        BY <3>1, <3>2, <3>3, <4>1, <4>2, RemainingFacts
    <3>. QED
      BY <3>2, <3>5, <3>6
  <2>2. elapsed' = elapsed + 1 /\ elapsed' <= RoundBound
    <3>1. elapsed <= RoundBound /\ elapsed \in Nat
      BY <1>10 DEF Tick, Bounded, Tasks, TypeOK
    <3>2. PICK p \in Peers : step[p] # "done"
      BY <1>10 DEF Tick, AllDone
    <3>3. elapsed + 1 <= RoundBound
      BY <2>1, <3>2
    <3>. QED
      BY <1>10, <3>1, <3>3, RemainingFacts DEF Tick
  <2>3. ASSUME NEW p \in Peers PROVE TaskTime(p)'
    BY <1>10, <2>1, <2>2, <2>3 DEF Tick, TaskTime, RoundBound
  <2>. QED
    BY <2>2, <2>3 DEF Bounded, RoundBound
<1>11. CASE UNCHANGED vars
  BY <1>11 DEF vars, Bounded, TaskTime, Rest, Owed, RoundBound
<1>. QED
  BY <1>1, <1>2, <1>3, <1>4, <1>5, <1>6, <1>7, <1>8, <1>9, <1>10, <1>11
  DEF Next, TaskStep

(* Whatever the peers do, a round is over within the time of all attempts, *)
(* each of as many waits as a POST has, and all back-offs.                 *)
THEOREM RoundsBounded == Spec => []RoundIsBounded
<1>1. Init => Tasks /\ Bounded
  BY TasksInit, BoundedInit
<1>2. Tasks /\ Bounded /\ [Next]_vars => (Tasks /\ Bounded)'
  BY TasksStep, BoundedStep
<1>3. Tasks /\ Bounded => RoundIsBounded
  BY DEF Bounded, RoundIsBounded
<1>. QED
  BY <1>1, <1>2, <1>3, PTL DEF Spec

(***************************************************************************)
(* Refinement.                                                             *)
(***************************************************************************)
LEMMA RoundOfPhases == /\ RoundOf("idle") = "idle"
                       /\ RoundOf("sending") = "open"
                       /\ RoundOf("cancelled") = "aborted"
BY DEF RoundOf

LEMMA AttemptFailedRefines ==
  ASSUME Tasks, NEW p \in Peers, phase = "sending", step[p] \in {"ready", "posting"},
         AttemptFailed(p)
  PROVE  Round!Next \/ UNCHANGED Round!roundVars
<1>1. UNCHANGED <<phase, round, sent, handled>>
  BY DEF AttemptFailed, netVars
<1>2. UNCHANGED <<RoundOf(phase), Reached>>
  BY <1>1 DEF Reached
<1>3. result[p] = "none"
  BY DEF Tasks, TaskResult
<1>4. CASE RetriesLeft(p)
  BY <1>2, <1>4 DEF AttemptFailed, Round!roundVars
<1>5. CASE ~RetriesLeft(p)
  BY <1>2, <1>3, <1>5, RoundOfPhases DEF AttemptFailed, Round!Next, Round!Decide
<1>. QED
  BY <1>4, <1>5

LEMMA StepRefines == Tasks /\ [Next]_vars => [Round!Next]_Round!roundVars
<1>. SUFFICES ASSUME Tasks, [Next]_vars
              PROVE  Round!Next \/ UNCHANGED Round!roundVars
  OBVIOUS
<1>. USE DEF taskVars, netVars
<1>0. ASSUME UNCHANGED <<phase, result, round, handled>>
      PROVE  UNCHANGED Round!roundVars
  BY <1>0 DEF Round!roundVars, Reached
<1>1. CASE SendToAll
  <2>1. \A m \in handled : m.round # round + 1
    BY DEF Tasks, TypeOK, NotFromTheFuture, Message
  <2>2. Reached' = {}
    BY <1>1, <2>1 DEF SendToAll, Reached
  <2>. QED
    BY <1>1, <2>2, RoundOfPhases DEF SendToAll, Round!Next, Round!Begin
<1>2. ASSUME NEW p \in Peers, Post(p) \/ NextWait(p) \/ BackoffEnds(p)
      PROVE  UNCHANGED Round!roundVars
  BY <1>0, <1>2 DEF Post, NextWait, BackoffEnds
<1>3. ASSUME NEW p \in Peers, LocalFailure(p) \/ PostFails(p)
      PROVE  Round!Next \/ UNCHANGED Round!roundVars
  BY <1>3, AttemptFailedRefines DEF LocalFailure, PostFails
<1>4. ASSUME NEW p \in Peers, PostSucceeds(p) PROVE Round!Next
  <2>1. p \in Reached /\ Reached' = Reached
    BY <1>4 DEF PostSucceeds, Arrived, Reached
  <2>2. result[p] = "none"
    BY <1>4 DEF PostSucceeds, Tasks, TaskResult
  <2>. QED
    BY <1>4, <2>1, <2>2, RoundOfPhases DEF PostSucceeds, Round!Next, Round!Decide
<1>5. CASE RoundReturns
  <2>1. \A p \in Peers : result[p] # "none"
    BY <1>5 DEF RoundReturns, AllDone, Tasks, TaskResult
  <2>2. Reached' = Reached
    BY <1>5 DEF RoundReturns, Reached
  <2>. QED
    BY <1>5, <2>1, <2>2, RoundOfPhases DEF RoundReturns, Round!Next, Round!Return
<1>6. CASE Cancel
  <2>1. Reached' = Reached
    BY <1>6 DEF Cancel, Reached
  <2>2. RoundOf(phase) \in {"idle", "open"}
    BY <1>6, RoundOfPhases DEF Cancel, Tasks, TypeOK
  <2>. QED
    BY <1>6, <2>1, <2>2, RoundOfPhases DEF Cancel, Round!Next, Round!Abort
<1>7. ASSUME NEW m \in sent, Arrive(m) PROVE Round!Next \/ UNCHANGED Round!roundVars
  <2>1. m.peer \in Peers
    BY DEF Tasks, TypeOK, Message
  <2>2. UNCHANGED <<phase, result, round>> /\ handled' = handled \cup {m}
    BY <1>7 DEF Arrive
  <2>3. CASE m.round = round
    <3>1. Reached' = Reached \cup {m.peer}
      BY <2>1, <2>2, <2>3 DEF Reached
    <3>2. Round!Arrive(m.peer)
      BY <2>2, <3>1 DEF Round!Arrive
    <3>. QED
      BY <2>1, <3>2 DEF Round!Next
  <2>4. CASE m.round # round
    <3>1. Reached' = Reached
      BY <2>2, <2>4 DEF Reached
    <3>. QED
      BY <2>2, <3>1 DEF Round!roundVars
  <2>. QED
    BY <2>3, <2>4
<1>8. CASE Tick \/ UNCHANGED vars
  BY <1>0, <1>8 DEF Tick, vars
<1>. QED
  BY <1>1, <1>2, <1>3, <1>4, <1>5, <1>6, <1>7, <1>8 DEF Next, TaskStep

(* send_to_all gives each peer one true and final verdict per round: it    *)
(* implements HeartbeatRound.                                              *)
THEOREM RoundImplemented == Spec => ImplementsRound
<1>1. Init => Round!Init
  BY RoundOfPhases DEF Init, Round!Init, Reached
<1>2. Tasks /\ [Next]_vars => [Round!Next]_Round!roundVars
  BY StepRefines
<1>. QED
  BY <1>1, <1>2, TasksAlways, PTL DEF Spec, ImplementsRound, Round!Spec

(***************************************************************************)
(* Which heartbeats verify.  HeartbeatsVerify fails as soon as the message *)
(* is signed a second time; the two theorems say how far.                  *)
(***************************************************************************)
(* Of all the heartbeats of a round, over all peers and retries, at most   *)
(* one verifies.                                                           *)
OneVerifies == \A m, n \in sent : m.round = n.round /\ m.sig = "valid" /\ n.sig = "valid"
                                 => m = n

(* Only with TLS is anything signed; once this round has sent a heartbeat  *)
(* that verifies, its message is signed.                                   *)
SignedOnce == /\ OneVerifies
              /\ \A m \in sent : m.sig = "valid" => TLS
              /\ \A m \in sent : m.round = round /\ m.sig = "valid" => signature # "none"

LEMMA SignedOnceStep == Tasks /\ SignedOnce /\ [Next]_vars => SignedOnce'
<1>. SUFFICES ASSUME Tasks, SignedOnce, [Next]_vars PROVE SignedOnce'
  OBVIOUS
<1>. USE DEF SignedOnce, OneVerifies
<1>0. CASE UNCHANGED <<sent, round, signature>>
  BY <1>0
<1>1. CASE SendToAll
  <2>1. \A m \in sent : m.round # round + 1
    BY DEF Tasks, TypeOK, NotFromTheFuture, Message
  <2>. QED
    BY <1>1, <2>1 DEF SendToAll, netVars
<1>2. ASSUME NEW p \in Peers, Post(p) PROVE SignedOnce'
  <2>1. /\ round' = round
        /\ signature' = Signed
        /\ sent' = sent \cup {Request(p, Signed)}
    BY <1>2 DEF Post
  <2>2. Request(p, Signed).round = round /\ Request(p, Signed).sig = Signed
    BY DEF Request
  <2>3. Signed = "valid" => TLS /\ signature = "none"
    BY DEF Signed
  <2>4. Signed = "none" => ~TLS
    BY DEF Signed
  <2>. QED
    BY <2>1, <2>2, <2>3, <2>4
<1>3. ASSUME NEW p \in Peers,
             \/ NextWait(p) \/ LocalFailure(p) \/ PostSucceeds(p)
             \/ PostFails(p) \/ BackoffEnds(p)
      PROVE  UNCHANGED <<sent, round, signature>>
  BY <1>3 DEF NextWait, LocalFailure, PostSucceeds, PostFails, BackoffEnds, AttemptFailed, netVars
<1>4. CASE RoundReturns \/ Cancel \/ Tick \/ UNCHANGED vars
  BY <1>0, <1>4 DEF RoundReturns, Cancel, Tick, vars, taskVars, netVars
<1>5. ASSUME NEW m \in sent, Arrive(m) PROVE UNCHANGED <<sent, round, signature>>
  BY <1>5 DEF Arrive
<1>. QED
  BY <1>0, <1>1, <1>2, <1>3, <1>4, <1>5 DEF Next, TaskStep

(* Of a round's heartbeats, whatever the number of peers and retries, at   *)
(* most one carries a signature that its receiver finds valid.             *)
THEOREM OneHeartbeatVerifies == Spec => []OneVerifies
<1>1. Init => SignedOnce
  BY DEF Init, SignedOnce, OneVerifies
<1>. QED
  BY <1>1, TasksAlways, SignedOnceStep, PTL DEF Spec, SignedOnce

(* The only task of a round without retries finds the message unsigned.    *)
FirstToSign == /\ phase = "sending" => \A p \in Peers : step[p] = "ready" => signature = "none"
               /\ \A p \in Peers : step[p] # "backoff"
               /\ TLS => \A m \in sent : m.sig = "valid"

LEMMA FirstToSignStep ==
  ASSUME RetryCount = 0, \A p, q \in Peers : p = q,
         Tasks, FirstToSign, [Next]_vars
  PROVE  FirstToSign'
<1>. USE DEF FirstToSign
<1>1. CASE SendToAll
  BY <1>1 DEF SendToAll, netVars, Tasks, TypeOK
<1>2. ASSUME NEW p \in Peers, Post(p) PROVE FirstToSign'
  <2>1. /\ sent' = sent \cup {Request(p, Signed)}
        /\ step' = [step EXCEPT ![p] = "posting"]
    BY <1>2 DEF Post
  <2>2. TLS => Signed = "valid"
    BY <1>2 DEF Post, Signed
  <2>3. Request(p, Signed).sig = Signed
    BY DEF Request
  <2>4. \A q \in Peers : step'[q] = "posting"
    BY <2>1 DEF Tasks, TypeOK
  <2>. QED
    BY <2>1, <2>2, <2>3, <2>4
<1>3. ASSUME NEW p \in Peers, LocalFailure(p) \/ PostFails(p) PROVE FirstToSign'
  <2>1. ~RetriesLeft(p)
    BY DEF RetriesLeft, Tasks, TypeOK, Attempts
  <2>2. step' = [step EXCEPT ![p] = "done"] /\ UNCHANGED <<phase, signature, sent>>
    BY <1>3, <2>1 DEF LocalFailure, PostFails, AttemptFailed, netVars
  <2>. QED
    BY <2>2 DEF Tasks, TypeOK
<1>4. ASSUME NEW p \in Peers, PostSucceeds(p) PROVE FirstToSign'
  BY <1>4 DEF PostSucceeds, netVars, Tasks, TypeOK
<1>5. ASSUME NEW p \in Peers, BackoffEnds(p) PROVE FALSE
  BY <1>5 DEF BackoffEnds
<1>6. CASE RoundReturns \/ Cancel \/ Tick \/ UNCHANGED vars
  BY <1>6 DEF RoundReturns, Cancel, Tick, vars, taskVars, netVars
<1>7. ASSUME NEW p \in Peers, NextWait(p) PROVE FirstToSign'
  BY <1>7 DEF NextWait, netVars
<1>8. ASSUME NEW m \in sent, Arrive(m) PROVE FirstToSign'
  BY <1>8 DEF Arrive, taskVars
<1>. QED
  BY <1>1, <1>2, <1>3, <1>4, <1>5, <1>6, <1>7, <1>8 DEF Next, TaskStep

(* With one peer and no retries all heartbeats verify: it takes a second   *)
(* signing of one message to break them.                                   *)
THEOREM AloneAllVerify ==
  ASSUME RetryCount = 0, \A p, q \in Peers : p = q
  PROVE  Spec => []HeartbeatsVerify
<1>1. Init => FirstToSign
  BY DEF Init, FirstToSign
<1>2. Tasks /\ FirstToSign /\ [Next]_vars => FirstToSign'
  BY FirstToSignStep
<1>3. Tasks /\ FirstToSign => HeartbeatsVerify
  BY DEF Tasks, TypeOK, FirstToSign, HeartbeatsVerify
<1>. QED
  BY <1>1, <1>2, <1>3, TasksAlways, PTL DEF Spec
=============================================================================
