--------------------------- MODULE Lifecycle_proofs ---------------------------
(***************************************************************************)
(* Proofs about Lifecycle, for every set of configuration files and any    *)
(* number of crashes: type correctness; the switches are independent;      *)
(* stop() is orderly and leaves nothing behind; short of a reload, the     *)
(* service stays down only when it was told to stop.                       *)
(***************************************************************************)
EXTENDS Lifecycle, TLAPS

(***************************************************************************)
(* What load and the constructors return.                                  *)
(***************************************************************************)
AllParts == {"metrics", "collector", "sender", "publisher", "receiver", "discovery"}

LEMMA SettingsAre ==
  /\ Settings = {"prometheus", "client", "federation", "server", "tls", "legacy"}
  /\ Default \in [Settings -> BOOLEAN]
<1>1. Settings = {"prometheus", "client", "federation", "server", "tls", "legacy"}
  BY DEF Settings, Default
<1>2. \A s \in Settings : Default[s] \in BOOLEAN
  <2>1. /\ Default.prometheus = TRUE /\ Default.client = TRUE /\ Default.server = TRUE
        /\ Default.tls = TRUE /\ Default.federation = FALSE /\ Default.legacy = FALSE
    BY DEF Default
  <2>. QED
    BY <1>1, <2>1
<1>3. Default = [s \in Settings |-> Default[s]]
  BY <1>1 DEF Default
<1>. QED
  BY <1>1, <1>2, <1>3

LEMMA LoadType ==
  ASSUME NEW file \in Files
  PROVE  Load(file) \in [Settings -> BOOLEAN]
<1>1. \A s \in DOMAIN file : file[s] \in BOOLEAN
  BY LifecycleAssumption
<1>2. \A s \in Settings : Default[s] \in BOOLEAN
  BY SettingsAre
<1>. QED
  BY <1>1, <1>2 DEF Load, Unread

LEMMA PartsType ==
  ASSUME NEW c
  PROVE  /\ Wanted(c) \subseteq AllParts
         /\ "publisher" \in Wanted(c) <=> c.server /\ mode # "client"
         /\ "sender" \in Wanted(c) <=> c.client /\ mode # "publisher"
         /\ "collector" \in Wanted(c)
BY DEF Wanted, AllParts

-----------------------------------------------------------------------------
(***************************************************************************)
(* The inductive invariant: what is constructed follows from the           *)
(* configuration and the mode; how far main() has got says what is up; and *)
(* whoever is on the way out was told to stop, or failed to start.         *)
(***************************************************************************)
Outside == pc \in {"load", "down"}

Wiring ==
  IF Outside THEN /\ parts = {} /\ clients = {}
                  /\ runner = "none" /\ serving = FALSE
             ELSE /\ "publisher" \in parts <=> config.server /\ mode # "client"
                  /\ "sender" \in parts <=> config.client /\ mode # "publisher"
                  /\ "collector" \in parts

Progress ==
  /\ pc \in {"setup", "listen"} => "publisher" \in parts /\ serving = FALSE
  /\ pc = "listen" => runner = "ready"
  /\ pc \in {"launch", "wait"} => (serving <=> "publisher" \in parts)
  /\ pc = "wait" => loop \notin {"none", "done"}
  /\ pc \in {"cleanup", "leave"} => loop \in {"none", "done"}
  /\ pc = "leave" => serving = FALSE /\ runner # "ready"

Orders ==
  /\ shutdown => asked /\ ~Outside
  /\ pc \in {"gather", "cleanup", "leave"} => failed \/ asked
  /\ pc = "down" => exit \in Failures \cup {"hangup"} \/ asked

IInv == TypeOK /\ Wiring /\ Progress /\ Orders

LEMMA InitIInv == Init => IInv
<1>. SUFFICES ASSUME Init PROVE IInv
  OBVIOUS
<1>1. TypeOK
  <2>1. config \in [Settings -> BOOLEAN]
    BY SettingsAre DEF Init
  <2>2. crashes \in 0 .. MaxCrashes
    BY LifecycleAssumption DEF Init
  <2>. QED
    BY <2>1, <2>2 DEF Init, TypeOK, Pcs
<1>2. Wiring /\ Progress /\ Orders
  BY DEF Init, Wiring, Outside, Progress, Orders
<1>. QED
  BY <1>1, <1>2 DEF IInv

(* A process that goes leaves a consistent state, if someone asked for the *)
(* end or it counts as a failure.                                          *)
LEMMA GoneStep ==
  ASSUME IInv, NEW how \in {"0", "1", "signal", "hangup", "crash"}, Gone(how),
         asked' \in BOOLEAN, crashes' \in 0 .. MaxCrashes,
         how \in Failures \cup {"hangup"} \/ asked'
  PROVE  IInv'
<1>1. TypeOK'
  BY SettingsAre DEF IInv, TypeOK, Gone, Pcs
<1>2. Wiring' /\ Progress' /\ Orders'
  BY DEF Gone, Wiring, Outside, Progress, Orders
<1>. QED
  BY <1>1, <1>2 DEF IInv

LEMMA BootStep == IInv /\ Boot => IInv'
<1>. SUFFICES ASSUME IInv, Boot PROVE IInv'
  OBVIOUS
<1>1. config' \in [Settings -> BOOLEAN]
  BY LoadType DEF Boot
<1>2. /\ parts' = Wanted(config')
      /\ pc' = (IF "publisher" \in parts' THEN "setup" ELSE "launch")
      /\ pc = "load"
      /\ UNCHANGED <<mode, world, runner, serving, loop, clients, shutdown,
                     failed, exit, asked, crashes>>
  BY DEF Boot
<1>3. /\ parts' \subseteq AllParts
      /\ "publisher" \in parts' <=> config'.server /\ mode # "client"
      /\ "sender" \in parts' <=> config'.client /\ mode # "publisher"
      /\ "collector" \in parts'
  BY <1>2, PartsType
<1>4. clients = {} /\ runner = "none" /\ serving = FALSE /\ loop = "none"
  BY <1>2 DEF IInv, Wiring, Outside, TypeOK
<1>5. TypeOK'
  BY <1>1, <1>2, <1>3, <1>4 DEF IInv, TypeOK, Pcs, AllParts
<1>6. Wiring' /\ Progress' /\ Orders'
  BY <1>2, <1>3, <1>4 DEF IInv, Wiring, Outside, Progress, Orders
<1>. QED
  BY <1>5, <1>6 DEF IInv

LEMMA MainStep == IInv /\ Main => IInv'
<1>. SUFFICES ASSUME IInv, Main PROVE IInv'
  OBVIOUS
<1>1. CASE LoadFails
  BY <1>1, GoneStep DEF LoadFails, Failures, IInv, TypeOK
<1>2. CASE Boot
  BY <1>2, BootStep
<1>3. CASE SetUpRunner
  BY <1>3 DEF SetUpRunner, IInv, TypeOK, Pcs, Wiring, Outside, Progress, Orders
<1>4. CASE Listen
  BY <1>4 DEF Listen, IInv, TypeOK, Pcs, Wiring, Outside, Progress, Orders
<1>5. CASE StartFails
  BY <1>5 DEF StartFails, components, IInv, TypeOK, Pcs, Wiring, Outside, Progress, Orders
<1>6. CASE Launch
  BY <1>6 DEF Launch, IInv, TypeOK, Pcs, Wiring, Outside, Progress, Orders
<1>7. CASE Wake
  BY <1>7 DEF Wake, components, IInv, TypeOK, Pcs, Wiring, Outside, Progress, Orders
<1>8. CASE Gathered
  BY <1>8 DEF Gathered, components, IInv, TypeOK, Pcs, Wiring, Outside, Progress, Orders
<1>9. CASE CleanUp
  BY <1>9 DEF CleanUp, IInv, TypeOK, Pcs, Wiring, Outside, Progress, Orders
<1>10. CASE Leave
  <2>1. /\ failed \/ asked
        /\ asked' = asked /\ asked \in BOOLEAN
        /\ crashes' = crashes /\ crashes \in 0 .. MaxCrashes
    BY <1>10 DEF Leave, IInv, Orders, TypeOK
  <2>. QED
    BY <1>10, <2>1, GoneStep DEF Leave, Failures
<1>. QED
  BY <1>1, <1>2, <1>3, <1>4, <1>5, <1>6, <1>7, <1>8, <1>9, <1>10 DEF Main

(* The task changes itself and what it opened, and only once launched. *)
LEMMA LoopStep == IInv /\ Loop => IInv'
<1>. SUFFICES ASSUME IInv, Loop PROVE IInv'
  OBVIOUS
<1>1. /\ UNCHANGED <<mode, world, pc, config, parts, runner, serving,
                     shutdown, failed, exit, asked, crashes>>
      /\ loop \notin {"none", "done"}
      /\ \/ /\ loop' \in {"collecting", "sending", "sleeping"} /\ pc # "gather"
            /\ clients' \subseteq clients \cup {"collector", "sender"}
         \/ /\ loop' = "done" /\ pc = "gather" /\ clients' = clients
      /\ "sender" \in clients' => "sender" \in clients \cup parts
  BY DEF Loop, LoopMoves, LoopEnds
<1>2. pc \in {"wait", "gather"}
  BY <1>1 DEF IInv, TypeOK, Progress
<1>3. clients' \subseteq parts
  BY <1>1, <1>2 DEF IInv, TypeOK, Wiring, Outside
<1>. QED
  BY <1>1, <1>2, <1>3 DEF IInv, TypeOK, Pcs, Wiring, Outside, Progress, Orders

LEMMA IInvStep == IInv /\ [Next]_vars => IInv'
<1>. SUFFICES ASSUME IInv, [Next]_vars PROVE IInv'
  OBVIOUS
<1>1. CASE Main
  BY <1>1, MainStep
<1>2. CASE Loop
  BY <1>2, LoopStep
<1>3. CASE Signal
  BY <1>3 DEF Signal, components, IInv, TypeOK, Wiring, Outside, Progress, Orders
<1>4. CASE Killed \/ Reload
  BY <1>4, GoneStep DEF Killed, Reload, IInv, TypeOK
<1>5. CASE Crash
  <2>1. crashes' \in 0 .. MaxCrashes
    BY <1>5, LifecycleAssumption DEF Crash, IInv, TypeOK
  <2>. QED
    BY <1>5, <2>1, GoneStep DEF Crash, Failures, IInv, TypeOK
<1>6. CASE Restart
  <2>1. shutdown' = shutdown /\ pc = "down" /\ pc' = "load" /\ loop = "none"
    BY <1>6 DEF Restart, IInv, TypeOK
  <2>2. TypeOK' /\ Wiring' /\ Progress'
    BY <1>6 DEF Restart, components, IInv, TypeOK, Pcs, Wiring, Outside, Progress
  <2>. QED
    BY <1>6, <2>1, <2>2 DEF Restart, components, IInv, TypeOK, Orders, Outside
<1>7. CASE WorldChanges
  BY <1>7 DEF WorldChanges, components, IInv, TypeOK, Wiring, Outside, Progress, Orders
<1>8. CASE UNCHANGED vars
  BY <1>8 DEF vars, components, IInv, TypeOK, Wiring, Outside, Progress, Orders
<1>. QED
  BY <1>1, <1>2, <1>3, <1>4, <1>5, <1>6, <1>7, <1>8 DEF Next

LEMMA Invariant == Spec => []IInv
BY InitIInv, IInvStep, PTL DEF Spec

-----------------------------------------------------------------------------
(* Values stay in their types, the task exists only between its start and  *)
(* its end, and there is no site without a runner.                         *)
THEOREM TypeCorrect == Spec => []TypeOK
<1>1. IInv => TypeOK
  BY DEF IInv
<1>. QED
  BY <1>1, Invariant, PTL

(* client.enabled and the mode decide about sending, server.enabled and    *)
(* the mode about serving, neither about producing readiness, for every    *)
(* configuration file.                                                     *)
THEOREM SwitchesIndependent == Spec => []SwitchesAreIndependent
<1>1. IInv => SwitchesAreIndependent
  BY DEF IInv, TypeOK, Wiring, Outside, Progress, SwitchesAreIndependent
<1>. QED
  BY <1>1, Invariant, PTL

(* The site is taken down only after the heartbeat task has ended.         *)
THEOREM StopIsOrderly == Spec => LoopEndsFirst
<1>1. IInv => (pc = "cleanup" /\ pc' = "leave" => loop \in {"none", "done"})
  BY DEF IInv, Progress
<1>. QED
  BY <1>1, Invariant, PTL DEF LoopEndsFirst

(* A process that ends by itself, after a start that succeeded or failed   *)
(* at any point, holds neither its address nor a running task.             *)
THEOREM NothingIsLeft == Spec => NothingLeftBehind
<1>1. ASSUME IInv, [Next]_vars, exit' \in {"0", "1"}, exit # exit'
      PROVE  ~serving /\ runner # "ready" /\ loop \in {"none", "done"}
  <2>1. LoadFails \/ Leave
    BY <1>1 DEF Next, Main, LoadFails, Boot, SetUpRunner, Listen, StartFails, Launch,
                Wake, Gathered, CleanUp, Leave, Loop, LoopMoves, LoopEnds, Signal,
                Killed, Reload, Crash, Restart, WorldChanges, Gone, vars
  <2>2. CASE LoadFails
    BY <1>1, <2>2 DEF LoadFails, IInv, TypeOK, Wiring, Outside
  <2>3. CASE Leave
    BY <1>1, <2>3 DEF Leave, IInv, Progress
  <2>. QED
    BY <2>1, <2>2, <2>3
<1>2. IInv /\ [Next]_vars =>
        (exit' \in {"0", "1"} /\ exit # exit' =>
           ~serving /\ runner # "ready" /\ loop \in {"none", "done"})
  BY <1>1
<1>. QED
  BY <1>2, Invariant, PTL DEF Spec, NothingLeftBehind

(* Short of a reload the service stays down only when it was told to stop, *)
(* however often it crashed or failed to start.                            *)
THEOREM DownWhenAsked == Spec => []StaysDownOnlyWhenAsked
<1>1. IInv => StaysDownOnlyWhenAsked
  BY DEF IInv, Orders, StaysDownOnlyWhenAsked
<1>. QED
  BY <1>1, Invariant, PTL

-----------------------------------------------------------------------------
(***************************************************************************)
(* The lives of the daemon are those of a published site.                  *)
(***************************************************************************)
Up == serving /\ pc \in {"launch", "wait"}

(* A step that takes the site neither up nor down, nor the loop with it.   *)
LEMMA SilentLife ==
  ASSUME serving' = serving, Up' = Up
  PROVE  Lives!Next
<1>1. UNCHANGED Lives!siteVars
  BY DEF Lives!siteVars, Up
<1>2. [s \in {"site"} |-> FALSE]' = [s \in {"site"} |-> FALSE]
  OBVIOUS
<1>. QED
  BY <1>1, <1>2 DEF Lives!Next, Lives!Silent

LEMMA LifeChanges ==
  ASSUME \/ serving /\ Up /\ serving' /\ ~Up'      \* Stop
         \/ serving /\ ~Up /\ ~serving' /\ ~Up'    \* Close
         \/ serving /\ ~serving' /\ ~Up'           \* Crash
         \/ ~serving /\ serving' /\ Up',           \* Restart
         serving \in BOOLEAN, serving' \in BOOLEAN
  PROVE  Lives!Next
<1>0. Up \in BOOLEAN /\ Up' \in BOOLEAN
  BY DEF Up
<1>1. CASE serving /\ Up /\ serving' /\ ~Up'
  <2>1. Lives!Stop("site")
    BY <1>1 DEF Lives!Stop, Up
  <2>. QED
    BY <2>1 DEF Lives!Next, Lives!Silent, Lives!Change
<1>2. CASE serving /\ ~serving' /\ ~Up'
  <2>1. Lives!Crash("site")
    BY <1>0, <1>2 DEF Lives!Crash, Up
  <2>. QED
    BY <2>1 DEF Lives!Next, Lives!Silent, Lives!Change
<1>3. CASE ~serving /\ serving' /\ Up'
  <2>1. Lives!Restart("site")
    BY <1>3 DEF Lives!Restart, Up
  <2>. QED
    BY <2>1 DEF Lives!Next, Lives!Silent, Lives!Change
<1>. QED
  BY <1>1, <1>2, <1>3

(* Only Listen brings the site up, for the loop that is about to start;    *)
(* Wake takes the loop down first; the site goes with CleanUp, or with the *)
(* process at any moment.                                                  *)
LEMMA StepOfALife == IInv /\ [Next]_vars => Lives!Next
<1>. SUFFICES ASSUME IInv, [Next]_vars PROVE Lives!Next
  OBVIOUS
<1>0. serving \in BOOLEAN
  BY DEF IInv, TypeOK
<1>1. ASSUME NEW how, Gone(how) PROVE Lives!Next
  <2>1. serving' = FALSE /\ ~Up'
    BY <1>1 DEF Gone, Up
  <2>2. CASE serving
    BY <1>0, <2>1, <2>2, LifeChanges
  <2>3. CASE ~serving
    BY <1>0, <2>1, <2>3, SilentLife DEF Up
  <2>. QED
    BY <2>2, <2>3
<1>2. CASE Listen
  <2>1. ~serving /\ serving' = TRUE /\ Up'
    BY <1>2 DEF Listen, IInv, Progress, Up
  <2>. QED
    BY <1>0, <2>1, LifeChanges
<1>3. CASE Wake
  <2>1. serving' = serving /\ ~Up' /\ (serving => Up)
    BY <1>3 DEF Wake, components, Up
  <2>2. CASE serving
    BY <1>0, <2>1, <2>2, LifeChanges
  <2>3. CASE ~serving
    BY <2>1, <2>3, SilentLife DEF Up
  <2>. QED
    BY <2>2, <2>3
<1>4. CASE CleanUp
  <2>1. serving' = FALSE /\ ~Up /\ ~Up'
    BY <1>4 DEF CleanUp, Up
  <2>2. CASE serving
    BY <1>0, <2>1, <2>2, LifeChanges
  <2>3. CASE ~serving
    BY <1>0, <2>1, <2>3, SilentLife DEF Up
  <2>. QED
    BY <2>2, <2>3
<1>5. CASE Boot \/ SetUpRunner \/ StartFails \/ Gathered \/ Restart
  <2>1. serving' = serving /\ (serving => ~Up /\ ~Up')
    BY <1>5 DEF Boot, SetUpRunner, StartFails, Gathered, Restart, components,
                IInv, Wiring, Outside, Progress, Up
  <2>. QED
    BY <2>1, SilentLife DEF Up
<1>6. CASE Launch \/ Loop \/ Signal \/ WorldChanges \/ UNCHANGED vars
  <2>1. serving' = serving /\ Up' = Up
    BY <1>6 DEF Launch, Loop, LoopMoves, LoopEnds, Signal, WorldChanges, vars, components, Up
  <2>. QED
    BY <2>1, SilentLife
<1>7. CASE LoadFails \/ Leave \/ Killed \/ Reload \/ Crash
  BY <1>1, <1>7 DEF LoadFails, Leave, Killed, Reload, Crash
<1>. QED
  BY <1>2, <1>3, <1>4, <1>5, <1>6, <1>7 DEF Next, Main

(* Through starts that fail, stops, crashes and restarts the daemon is to  *)
(* its peers one published site: with SiteImplemented, which is about one  *)
(* life, this is what Federation assumes of a peer.                        *)
THEOREM LivesImplemented == Spec => LivesAsASite
<1>1. Init => Lives!Init
  <2>. SUFFICES ASSUME Init PROVE Lives!Init
    OBVIOUS
  <2>1. serving = FALSE
    BY DEF Init
  <2>. QED
    BY <2>1 DEF Lives!Init
<1>2. IInv /\ [Next]_vars =>
        [Lives!Next]_<<[s \in {"site"} |-> serving /\ pc \in {"launch", "wait"}],
                       [s \in {"site"} |-> serving],
                       [s \in {"site"} |-> 1], [s \in {"site"} |-> FALSE]>>
  BY StepOfALife
<1>. QED
  BY <1>1, <1>2, Invariant, PTL DEF Spec, LivesAsASite, Lives!Spec
=============================================================================
