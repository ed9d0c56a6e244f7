------------------------------ MODULE Lifecycle ------------------------------
(***************************************************************************)
(* One daemon from its command line to its exit code, under the service    *)
(* manager: main(), start() and stop() of slurmheartbeat/main.py, with     *)
(* ClientConfig.load (client/config.py), the start and stop of             *)
(* ReadinessPublisher, HeartbeatReceiver and MetricsServer, and the life   *)
(* of the heartbeat task.  HeartbeatDaemon models what that task does.     *)
(*                                                                         *)
(* main() runs without suspending from the constructor to the publisher's  *)
(* first await, so that much is one step; a signal takes effect at awaits. *)
(* External: the files and the port (world), signals and crashes.  What    *)
(* the service manager does is systemd/slurm-heartbeat.service: it starts  *)
(* the daemon again after a failure, and to reload it sends SIGHUP, for    *)
(* which main() has no handler.                                            *)
(***************************************************************************)
EXTENDS Naturals

CONSTANTS Files,      \* what the mapping in a configuration file may say
          MaxCrashes  \* crashes considered

(* The settings that decide what is started, with their defaults. *)
Default == [prometheus |-> TRUE, client |-> TRUE, federation |-> FALSE,
            server |-> TRUE, tls |-> TRUE, legacy |-> FALSE]

Settings == DOMAIN Default

ASSUME LifecycleAssumption ==
  /\ MaxCrashes \in Nat
  /\ \A file \in Files : DOMAIN file \subseteq Settings
                         /\ \A s \in DOMAIN file : file[s] \in BOOLEAN

VARIABLES mode,      \* --mode
          world,     \* what is in order: configuration file, certificates, port
          pc,        \* where main() is
          config,    \* self.config
          parts,     \* components constructed
          runner,    \* the publisher's AppRunner
          serving,   \* its site accepts connections
          loop,      \* the heartbeat task
          clients,   \* components whose HTTP client is open
          shutdown,  \* shutdown_event
          failed,    \* start() raised
          exit,      \* how the last process ended
          asked,     \* history: the operator told this process to stop
          crashes

components == <<parts, runner, serving, loop, clients>>
vars == <<mode, world, pc, config, components, shutdown, failed, exit, asked, crashes>>

Everything == {"file", "certs", "port"}

-----------------------------------------------------------------------------
(***************************************************************************)
(* ClientConfig.load: what the file leaves out takes its default, and the  *)
(* federation switch is among what load does not read.  A file that is in  *)
(* order can be read and holds a mapping: for any other, an empty one      *)
(* included (safe_load gives None), load raises.                           *)
(***************************************************************************)
Unread == {"federation"}

Load(file) == [s \in Settings |-> IF s \in DOMAIN file \ Unread THEN file[s]
                                                                ELSE Default[s]]

(***************************************************************************)
(* start(): which components are constructed.                              *)
(***************************************************************************)
Wanted(c) ==
  {"collector"}
  \cup {x \in {"metrics"} : c.prometheus}
  \cup {x \in {"sender"} : c.client /\ mode # "publisher"}
  \cup {x \in {"publisher"} : c.server /\ mode # "client"}
  \cup {x \in {"receiver"} : c.server /\ c.legacy /\ mode = "both"}
  \cup {x \in {"discovery"} : c.federation}

-----------------------------------------------------------------------------
Init == /\ mode \in {"client", "publisher", "both"}
        /\ world \in SUBSET Everything
        /\ pc = "load" /\ config = Default
        /\ parts = {} /\ clients = {}
        /\ runner = "none" /\ serving = FALSE /\ loop = "none"
        /\ shutdown = FALSE /\ failed = FALSE
        /\ exit = "none" /\ asked = FALSE /\ crashes = 0

(* The process is gone, and what it held with it. *)
Gone(how) == /\ exit' = how /\ pc' = "down" /\ config' = Default
             /\ parts' = {} /\ clients' = {}
             /\ runner' = "none" /\ serving' = FALSE /\ loop' = "none"
             /\ shutdown' = FALSE /\ failed' = FALSE
             /\ UNCHANGED <<mode, world>>

(***************************************************************************)
(* The constructor reads the file, and an exception ends the process; the  *)
(* handlers are installed; start() constructs.  MetricsServer.start is not *)
(* called; HeartbeatReceiver.start is empty.                               *)
(***************************************************************************)
LoadFails == /\ pc = "load" /\ "file" \notin world
             /\ Gone("1")
             /\ UNCHANGED <<asked, crashes>>

Boot == /\ pc = "load" /\ "file" \in world
        /\ \E file \in Files : config' = Load(file)
        /\ parts' = Wanted(config')
        /\ pc' = IF "publisher" \in parts' THEN "setup" ELSE "launch"
        /\ UNCHANGED <<mode, world, runner, serving, loop, clients, shutdown,
                       failed, exit, asked, crashes>>

(***************************************************************************)
(* ReadinessPublisher.start: the runner, the TLS context, the port.        *)
(***************************************************************************)
SetUpRunner == /\ pc = "setup"
               /\ runner' = "ready" /\ pc' = "listen"
               /\ UNCHANGED <<mode, world, config, parts, serving, loop,
                              clients, shutdown, failed, exit, asked, crashes>>

CanListen == "port" \in world /\ (config.tls => "certs" \in world)

Listen == /\ pc = "listen" /\ CanListen
          /\ serving' = TRUE /\ pc' = "launch"
          /\ UNCHANGED <<mode, world, config, parts, runner, loop, clients,
                         shutdown, failed, exit, asked, crashes>>

(* Mutant of StartFails: the port is opened before the certificates are read. *)
StartFails_PortOpen ==
  /\ pc = "listen" /\ ~CanListen
  /\ serving' = ("port" \in world) /\ failed' = TRUE /\ pc' = "gather"
  /\ UNCHANGED <<mode, world, config, parts, runner, loop, clients, shutdown,
                 exit, asked, crashes>>

(* main() catches the exception and calls stop(); so does waking up. *)
StartFails == /\ pc = "listen" /\ ~CanListen
              /\ failed' = TRUE /\ pc' = "gather"
              /\ UNCHANGED <<mode, world, config, components, shutdown, exit,
                             asked, crashes>>

(* Mutants of Launch: client.enabled gates the loop as well; the event is  *)
(* only made here.                                                         *)
Launch_NewEvent == /\ pc = "launch"
                   /\ loop' = "created" /\ pc' = "wait" /\ shutdown' = FALSE
                   /\ UNCHANGED <<mode, world, config, parts, runner, serving,
                                  clients, failed, exit, asked, crashes>>

Launch_ClientOnly == /\ pc = "launch"
                     /\ loop' = IF config.client THEN "created" ELSE "none"
                     /\ pc' = "wait"
                     /\ UNCHANGED <<mode, world, config, parts, runner, serving,
                                    clients, shutdown, failed, exit, asked, crashes>>

Launch == /\ pc = "launch"
          /\ loop' = "created" /\ pc' = "wait"
          /\ UNCHANGED <<mode, world, config, parts, runner, serving, clients,
                         shutdown, failed, exit, asked, crashes>>

Wake == /\ pc = "wait" /\ shutdown
        /\ pc' = "gather"
        /\ UNCHANGED <<mode, world, config, components, shutdown, failed, exit,
                       asked, crashes>>

(***************************************************************************)
(* stop(): cancel the loop and wait for it; stop the receiver, which has   *)
(* no server, and the publisher, if it was constructed: the runner's       *)
(* cleanup closes the site; the metrics server was never started.  The     *)
(* clients of collector and sender are left to the end of the process.     *)
(***************************************************************************)
(* Mutants of Gathered: cancel without waiting; nothing to stop after a    *)
(* start that failed; waiting for a task even if there is none.            *)
Gathered_NeedsTask == /\ pc = "gather" /\ loop = "done"
                      /\ pc' = "cleanup"
                      /\ UNCHANGED <<mode, world, config, components, shutdown, failed,
                                     exit, asked, crashes>>

Gathered_AtOnce == /\ pc = "gather"
                   /\ pc' = "cleanup"
                   /\ UNCHANGED <<mode, world, config, components, shutdown, failed,
                                  exit, asked, crashes>>

Gathered_OnlyIfStarted ==
  /\ pc = "gather" /\ loop \in {"none", "done"}
  /\ pc' = IF failed THEN "leave" ELSE "cleanup"
  /\ UNCHANGED <<mode, world, config, components, shutdown, failed, exit,
                 asked, crashes>>

Gathered == /\ pc = "gather" /\ loop \in {"none", "done"}
            /\ pc' = "cleanup"
            /\ UNCHANGED <<mode, world, config, components, shutdown, failed, exit,
                           asked, crashes>>

(* Mutant of CleanUp: the runner goes, its site stays. *)
CleanUp_LeavesSite == /\ pc = "cleanup"
                      /\ runner' = IF runner = "none" THEN "none" ELSE "closed"
                      /\ pc' = "leave"
                      /\ UNCHANGED <<mode, world, config, parts, serving, loop,
                                     clients, shutdown, failed, exit, asked, crashes>>

CleanUp == /\ pc = "cleanup"
           /\ runner' = IF runner = "none" THEN "none" ELSE "closed"
           /\ serving' = FALSE /\ pc' = "leave"
           /\ UNCHANGED <<mode, world, config, parts, loop, clients,
                          shutdown, failed, exit, asked, crashes>>

(* Mutant of Leave: the exit code of an orderly stop, whatever led to it. *)
Leave_Zero == pc = "leave" /\ Gone("0") /\ UNCHANGED <<asked, crashes>>

Leave == /\ pc = "leave"
         /\ Gone(IF failed THEN "1" ELSE "0")
         /\ UNCHANGED <<asked, crashes>>

Main == \/ LoadFails \/ Boot \/ SetUpRunner \/ Listen \/ StartFails \/ Launch
        \/ Wake \/ Gathered \/ CleanUp \/ Leave

(***************************************************************************)
(* The heartbeat task: a round collects, sends if there is a sender and    *)
(* nothing raised, and sleeps.  Each makes its HTTP client when it first   *)
(* needs one.  A cancelled task ends at its next await, or never begins.   *)
(***************************************************************************)
LoopMoves(from, to, opened) ==
  /\ loop = from /\ pc # "gather"
  /\ loop' = to /\ clients' = clients \cup opened
  /\ UNCHANGED <<mode, world, pc, config, parts, runner, serving, shutdown,
                 failed, exit, asked, crashes>>

LoopEnds == /\ pc = "gather" /\ loop \notin {"none", "done"}
            /\ loop' = "done"
            /\ UNCHANGED <<mode, world, pc, config, parts, runner, serving,
                           clients, shutdown, failed, exit, asked, crashes>>

Loop == \/ LoopMoves("created", "collecting", {"collector"})
        \/ "sender" \in parts /\ LoopMoves("collecting", "sending", {"sender"})
        \/ LoopMoves("collecting", "sleeping", {})
        \/ LoopMoves("sending", "sleeping", {})
        \/ LoopMoves("sleeping", "collecting", {"collector"})
        \/ LoopEnds

(***************************************************************************)
(* Around the process: SIGTERM or SIGINT, for which there are handlers     *)
(* once main() has installed them; a crash; the service manager, to which  *)
(* an end by exit code 0, SIGTERM, SIGINT or SIGHUP is no failure, so that *)
(* after its own reload it leaves the daemon down; certificates, file and  *)
(* port come and go.                                                       *)
(***************************************************************************)
Signal == /\ pc \notin {"load", "down"}
          /\ shutdown' = TRUE /\ asked' = TRUE
          /\ UNCHANGED <<mode, world, pc, config, components, failed, exit, crashes>>

Killed == /\ pc = "load"
          /\ Gone("signal") /\ asked' = TRUE
          /\ UNCHANGED crashes

Crash == /\ pc # "down" /\ crashes < MaxCrashes
         /\ Gone("crash") /\ crashes' = crashes + 1
         /\ UNCHANGED asked

Reload == /\ pc # "down"
          /\ Gone("hangup")
          /\ UNCHANGED <<asked, crashes>>

Failures == {"1", "crash"}

Restart == /\ pc = "down" /\ exit \in Failures
           /\ pc' = "load" /\ exit' = "none" /\ asked' = FALSE
           /\ UNCHANGED <<mode, world, config, components, shutdown, failed, crashes>>

WorldChanges == /\ world' \in SUBSET Everything
                /\ UNCHANGED <<mode, pc, config, components, shutdown, failed, exit,
                               asked, crashes>>

Next == Main \/ Loop \/ Signal \/ Killed \/ Reload \/ Crash \/ Restart \/ WorldChanges

Spec == Init /\ [][Next]_vars

(* The event loop runs what can run, the runner's cleanup has a timeout,   *)
(* and the service manager does its part.                                  *)
FairSpec == Spec /\ WF_vars(Main) /\ WF_vars(Loop) /\ WF_vars(Restart)

-----------------------------------------------------------------------------
Pcs == {"load", "setup", "listen", "launch", "wait", "gather", "cleanup", "leave", "down"}

(* Values the code can give; the task lives from launch to gather.         *)
TypeOK ==
  /\ mode \in {"client", "publisher", "both"} /\ world \subseteq Everything
  /\ pc \in Pcs /\ config \in [Settings -> BOOLEAN]
  /\ parts \subseteq {"metrics", "collector", "sender", "publisher", "receiver", "discovery"}
  /\ clients \subseteq parts
  /\ runner \in {"none", "ready", "closed"} /\ serving \in BOOLEAN
  /\ loop \in {"none", "created", "collecting", "sending", "sleeping", "done"}
  /\ shutdown \in BOOLEAN /\ failed \in BOOLEAN /\ asked \in BOOLEAN
  /\ exit \in {"none", "0", "1", "signal", "hangup", "crash"} /\ crashes \in 0 .. MaxCrashes
  /\ loop # "none" => pc \in {"wait", "gather", "cleanup", "leave"}
  /\ serving => runner = "ready"

(* The switches are independent: the client switch and the mode decide     *)
(* about sending, the server switch and the mode about serving, and        *)
(* neither about producing readiness: a daemon that has started has a      *)
(* running loop, so the document it serves is renewed (main.py:180).       *)
SwitchesAreIndependent ==
  /\ pc = "wait" => /\ loop \notin {"none", "done"}
                    /\ serving <=> config.server /\ mode # "client"
  /\ "sender" \in clients => config.client /\ mode # "publisher"

(* The site is not taken away under a loop that still publishes into it.   *)
LoopEndsFirst ==
  [][pc = "cleanup" /\ pc' = "leave" => loop \in {"none", "done"}]_vars

(* A process that ends by itself, however far it had got and whatever      *)
(* signals came in between, has released its address and ended its task.   *)
NothingLeftBehind ==
  [][exit' \in {"0", "1"} /\ exit # exit' =>
        ~serving /\ runner # "ready" /\ loop \in {"none", "done"}]_vars

(* Short of a reload, a daemon nobody told to stop is down only until the  *)
(* service manager starts it again: no crash and no start that failed, at  *)
(* whatever point, looks like a stop (main.py:422-424).                    *)
StaysDownOnlyWhenAsked == pc = "down" /\ ~asked => exit \in Failures \cup {"hangup"}

(* The same with reloads, which the operations guide gives as a step on a  *)
(* service that goes on running (docs/OPERATIONS.md:191 and 325,           *)
(* docs/SECURITY.md:251).  The code does not give this.                    *)
ReloadKeepsRunning == pc = "down" /\ ~asked => exit \in Failures

(* A stop that was asked for is carried out, at whatever moment of start   *)
(* or of the loop it comes.                                                *)
StopIsObeyed == shutdown ~> pc = "down"

(* To its peers the daemon is one published site through all its lives:    *)
(* what accepts connections is up only from a start that succeeded until   *)
(* the loop that renews the document has been told to stop, or at once     *)
(* with the process, and comes back only with a new one.  (Ages and        *)
(* answers are HeartbeatDaemon's.)                                         *)
Lives == INSTANCE PublishedSites
           WITH Sites <- {"site"}, TTL <- 0, AgeCap <- 1,
                running <- [s \in {"site"} |-> serving /\ pc \in {"launch", "wait"}],
                serving <- [s \in {"site"} |-> serving],
                docAge <- [s \in {"site"} |-> 1],
                answered <- [s \in {"site"} |-> FALSE]

LivesAsASite == Lives!Spec

(* Once files and port stay in order, nobody stops it any more and it is   *)
(* not reloaded, the daemon gets back to work and stays there, whatever    *)
(* went wrong before.                                                      *)
RecoversOnceInOrder ==
  <>[](world = Everything /\ ~asked /\ exit # "hangup") => <>[](pc = "wait" /\ loop # "done")
=============================================================================
