# Slurm Heartbeat in TLA+

TLA+ modules, TLC configurations and TLAPS proofs about the Slurm Heartbeat
daemon (`slurmheartbeat/`): a process at each site of a federation that collects
the state of the local Slurm cluster, publishes a signed readiness document with
a time to live, pushes heartbeats to the other sites and fetches theirs.

All paths below are relative to the repository's root.

## Inventory

| Component | Source | State | Operations | Modelled in |
|---|---|---|---|---|
| SlurmCollector | `slurmheartbeat/client/collector.py` | one `ClusterMetrics` per collection | `collect` (four concurrent requests) | `SlurmCollector` |
| ReadinessNormalizer | `client/normalizer.py` | none (`fed_state` fixed at construction) | `normalize` | `Normalizer`, `SiteEvolution` |
| ReadinessPublisher, ReadinessMessage | `server/publisher.py`, `protocol/schema.py` | last document, HTTP site | `update_readiness`, `GET /readiness`, `/federated/*`, `/metrics`, `/health`, `start`, `stop` | `ReadinessPublisher`, abstractly `PublishedSites`; `start` and `stop` also in `Lifecycle` (not the read-only `/federated/peers`, `/metrics`, `/health`) |
| HeartbeatDaemon, command line | `main.py`, `__main__.py` | `_running`, the loop's task, the components, the shutdown event, the exit code | `main`, `start`, `stop`, `_heartbeat_loop`, `_check_maintenance_state` | `HeartbeatDaemon` (the loop), `Lifecycle` (the process) |
| HeartbeatSender, HeartbeatMessage | `client/sender.py`, `protocol/message.py` | HTTP client, the message being sent | `send`, `send_with_retry`, `send_to_all`, `sign` | `HeartbeatSender`, abstractly `HeartbeatRound` |
| FederationDiscovery | `federation/discovery.py` | table of peers, lock, HTTP client | `discover_peers`, `fetch_peer_capacity`, `fetch_all_peers`, `update_all_peers`, `close` | `FederationDiscovery`; with the peers, `Federation` |
| MetricsAggregator | `federation/aggregation.py` | history of aggregates | `aggregate_peer_metrics`, trend, report | `MetricsAggregator`, its state in `FederationDiscovery` (not the totals) |
| QueuePredictor | `federation/prediction.py` | none | pressure, wait, trend, confidence | `QueuePredictor`, `SiteEvolution` |
| HeartbeatReceiver, FederationState | `server/receiver.py` | peer table, lock | `update_peer`, `record_failure`, views | only when it is constructed, in `Lifecycle`: nothing calls its operations |
| MetricsServer | `monitoring/metrics.py` | Prometheus gauges | setters | the federation gauges in `FederationDiscovery`, when it is constructed in `Lifecycle` |
| Configuration | `client/config.py` | dataclasses | YAML loading | `Load` of `Lifecycle`, for the settings that decide what is started |
| Service unit | `systemd/slurm-heartbeat.service` | none | restart after a failure, reload | `Lifecycle` |
| Security helpers | `protocol/security.py` | none | TLS contexts, keys, certificates | not modelled: calls into a library |

How they interact.  One asyncio task runs the loop of `main.py`: collect, read
the maintenance file, normalize, `update_readiness`, send to all peers, sleep,
fetch all peers, aggregate, set gauges, and again.  Everything in it is awaited
in sequence, so whatever one part waits for delays the others.  Beside it, in
the same event loop, aiohttp runs the publisher's handlers, which read (and, by
signing, write) the document the loop last stored.  `stop()` cancels the task at
whatever it awaits and takes the publisher down after that.

What is hard here: the document that is served is a copy of the past and only
its time to live protects its readers; a collection is not a snapshot and its
parts fail independently and silently; timeouts and back-offs of dead peers add
up inside the loop that also renews the document; all sending tasks share and
sign one message object; requests arrive late, twice or never; two kinds of
callers fetch peers, only one of them under the lock; an exception in a round, or
in a call that holds the lock, must not end more than itself; peers stop and
crash without telling anybody; start() can fail half way, and a signal can come at
any of its awaits.
`PROJECT.json` lists these hazards with the line where each bites and the
properties that cover it.

## Modules

| Module | Role |
|---|---|
| `Normalizer` | pure operators: `Status`, `Signals`, `QueuePressure`, `CriticalPartitions` |
| `QueuePredictor` | pure operators: what another site predicts from a capacity hint |
| `SiteEvolution` (`MCSiteEvolution`) | a site changing one event at a time, judged by `Normalizer` and `QueuePredictor` |
| `SlurmCollector` | a collection, extended by `HeartbeatDaemon` |
| `ReadinessPublisher` | the published document and `GET /readiness`, extended by `HeartbeatDaemon` |
| `PublishedSites` | what a set of publishing sites promises: the abstract specification of a daemon, and the peers of `Federation` |
| `HeartbeatDaemon` (`MCHeartbeatDaemon`) | the composition: loop, publisher, Slurm, operator, clock; implements `PublishedSites` for one site |
| `HeartbeatRound` | what `send_to_all` promises |
| `HeartbeatSender` (`MCHeartbeatSender`) | `send_to_all` in detail; implements `HeartbeatRound` |
| `MetricsAggregator` | health, history and trend, extended by `FederationDiscovery` |
| `FederationDiscovery` (`MCFederationDiscovery`) | the peer table, its fetches, the federation gauges, reports, `close()` |
| `Federation` (`MCFederation`) | `FederationDiscovery` together with peers that behave as `PublishedSites` |
| `Lifecycle` (`MCLifecycle`) | one daemon from its command line to its exit code, under the service manager |
| `Induction` | induction over sets of natural numbers, as lemmas |
| `MetricsAggregator_proofs` | what the trend computes, for every history and window |
| `HeartbeatDaemon_proofs` | theorems about `HeartbeatDaemon`, with its refinement of `PublishedSites` |
| `HeartbeatSender_proofs` | theorems about `HeartbeatSender`, with its refinement of `HeartbeatRound` |
| `FederationDiscovery_proofs`, `Federation_proofs` | theorems about the discovery alone, and about it among its peers |
| `Lifecycle_proofs`, `SiteEvolution_proofs` | theorems about these modules |

### Correspondence

*Atomicity.*  An asyncio task runs undisturbed from one await to the next, so an
action is the code between two awaits: `Publish` is everything from the end of
the collection to the start of sending; `Post` is everything in `send` up to the
POST, signing included; an HTTP handler is one action.

*Normalizer.*  Each operator is the method of the same purpose, its tests in the
same order.  Ratios are compared by cross multiplication.  Reason texts, names
and identifiers are left out.

*SlurmCollector.*  `pending` is the set of requests the gather still waits for.
`Answer(r)` writes that request's part of `metrics` from the cluster as it is at
that moment; `Fail(r)` leaves the default and, like the code, tells nobody.
A node is the set of those of the four words the code looks for that its state
contains.  `CountedAs` is the chain of tests: the first word found decides, so a
node both idle and drained counts as idle, and one with none of the words for
the total only.  A job is counted by its exact code (`JobStats`).
`cluster` is external.  A cluster that is not `sane` reports a null count, which
the collector copies and the normalizer trips over.

*ReadinessPublisher.*  `doc` is `state.last_readiness` with its age instead of
`observed_at`.  A signature is `"valid"` if it covers the document with an empty
signature field (what `verify_signature` recomputes) and `"broken"` otherwise.
`Serve` signs in place on the first request that finds the document unsigned and
may fail to, in which case it serves the document unsigned, as the code does.

*HeartbeatDaemon.*  `pc` names the await the loop is in, `timer` how long that
await may still last.  A tick needs `timer > 0`, so an await ends at the latest
when its time is used up, and a sleep (`timer = 0` in the guard) not before.
`CollectMax`, `SendMax` and `FetchMax` are the longest collection, round of
sending and fetch.  httpx applies a timeout to each phase of a request and to
each read, so these constants stand for the longest time such a call takes and
not for one configured number; for sending, `HeartbeatSender` has the phases.  `maintAge` and `clusterAge` are history
variables for the properties.  The daemon modelled has a publisher; with mode
`client` there is none.

*HeartbeatSender.*  One task per peer: `ready`, `posting`, `backoff`, `done`.
`sent` holds the requests posted, `handled` those that reached the peer; nothing
forces one into the other, and a request may be handled after its sender timed
out.  A POST is several waits (to connect, for each write, for each piece of the
answer), and the configured time-out is of each of them: the code has no deadline
for the whole.  `waits` counts them, `NextWait` is the network making the client
wait once more, and the assumption that a POST ends at all is a constant,
`MaxWaits`, for the peers in `Slow`; to any other peer a POST is one wait.
`PostMax` is the longest POST under it.  `Remaining[a]` is the longest time from
the start of attempt `a`, by the recursion the retry loop follows, and
`Remaining[0]` is the `SendMax` of the daemon.

*FederationDiscovery.*  `call[c]` is what caller `c` is doing, `flight[c][p]` its
request to `p`.  The answer is produced (`PeerAnswers`, external) before it is
read (`FetchSucceeds`), and what it says ages in between.  The loop does not
take the lock, the callers of `update_all_peers` (`Updaters`) do; the daemon has
none, they are part of the class's interface.  `Raises` is the strict `zip`.
`RoundFails` is a round of the loop that raises before its fetch: the loop sleeps
and starts another, any number of times, so nothing bounds the time from one fetch
to the next.  `Gap` is the longest time to the next fetch or failure, and `lost`
counts the failures since the gauges were last set, which `GaugesKeepUpUntilExclusion`
allows for; counted up to `MaxLost`, beyond which it says nothing.  `FetchTimeout`
is the longest fetch, as in the daemon.
`Report` is the state change of `GET /federated/metrics`: it aggregates, and so
appends to the history, as a round does.  `StopLoop` and `CloseClient` are the
daemon's `stop()` and `close()`, after which `_http_client` still refers to the
closed client.

*MetricsAggregator.*  `Recorded` appends and then cuts, `LastOf(s, 0)` being the
slice `[-0:]`.  `PartialSums` is Python's `sum` as a recursive function, which the
prover can follow.  `Trend` is the slope of the regression line over the range of the
values, as a fraction; `TrendAgrees` compares it with the normal equations.

*Federation.*  The peers are `PublishedSites` with `Sites <- Peers`, and
`PeerReplies` is the only place where the two meet: a peer answers when
`PublishedSites` lets it, with the age its document has.  A peer's change and a
step of the discovery are separate steps; a tick is a tick for all.  At first any
of the peers may be up or not up yet.

*PublishedSites.*  `docAge` stands at `AgeCap` for a site without a document as
for one whose document is that old, since neither is handed out.  For the daemon,
`answered` is whether the last reply was a 200.  It is implemented twice:
`HeartbeatDaemon` is one life of a site, with its documents and answers, and
`Lifecycle` (`LivesAsASite`) the sequence of lives, in which `running` is a site
whose loop is wanted, and ages and answers stand still.  Together they are why
`Federation` may take peers to be `PublishedSites`.

*Lifecycle.*  `pc` is where `main()` awaits.  `Boot` is everything from reading the
file to the first await of `ReadinessPublisher.start`; `StartFails` is an
exception there, caught by `main()`, whose `finally` calls `stop()` as it does
after a signal.  `Load` drops what `ClientConfig.load` does not read; a file that cannot be
read or holds no mapping, as an empty one, makes it raise: `LoadFails`, in a `world`
without `"file"`.  `Reload`, `Failures` and `Restart` are the service unit: a reload
sends SIGHUP, which kills the process, since `main()` has no handler for it, and
`Restart=on-failure` counts that as a clean end.  It is not a request to stop:
`asked` stays as it was.  `world` (file, certificates, port) is external and may change between
any two steps.  `loop` only says what the task awaits; its rounds are
`HeartbeatDaemon`.  A daemon with a discovery would close it in `stop()` as well,
which is `CloseClient` above.

## Runs

| Run | Expect | Question |
|---|---|---|
| `site_evolution` | pass | is the verdict monotone in node losses and in demand, is *ready* justified, does the predicted wait follow the load? |
| `daemon` | pass | staleness, maintenance, signatures, renewal, shutdown, `PublishedSites` |
| `daemon_live` | pass | does publishing go on after a failed round? |
| `daemon_defaults` | violation | does sending leave readiness alone? |
| `daemon_outage` | violation | is an outage of slurmrestd reported? |
| `sender` | pass | verdicts, unsigned heartbeats, bound and end of a round, `HeartbeatRound` |
| `sender_verify` | violation | do all heartbeats of a round verify? |
| `discovery` | pass | among peers that come and go: freshness of healthy peers, departure of a peer, order of the data, gauges, exclusion; the trend against its definition |
| `discovery_updaters` | pass | the same table with overlapping callers, reports and `close()`: failures and history bounded, no peer healthy after `close()`, fetches end, the lock is handed on |
| `discovery_gauges` | violation | do the gauges follow every fetch when a peer is down? |
| `lifecycle` | pass | which parts run for which settings, orderly stop, nothing left behind, exit code and restart, `PublishedSites`, stops obeyed, recovery |
| `lifecycle_reload` | violation | does a reload keep the daemon running? |

### Bounds and why they are enough

* `site_evolution`: five nodes put each unhealthy count on one or the other side
  of 20% and 50% and on 20% exactly (one of five), and every job level is next to a threshold (100, 500,
  1000; ratios 0.5, 0.7, 0.9).  The four partition tables are the four outcomes
  the code distinguishes.
* `daemon`: three nodes, so that losing most of them changes the verdict, one of them
  idle and drained at once.  Each wait may last one tick, so that a document served may be
  fresh, within or beyond its time to live (`TTL = 1`) in each place the loop can
  be; the whole cycle is four ticks and `AgeCap = 5` keeps ages apart up to
  there.  Slurm is healthy, mostly down or silent.  One authorized client and one
  without certificate.
* `daemon_defaults`: ticks of ten seconds with the default numbers: time to live
  90 s, interval 10 s, a round of up to 130 s (4 * 30 + 1 + 2 + 4 = 127, rounded
  up), collection of up to 20 s.
* `sender`: two peers, so that tasks interleave and share the message; one of them
  may hold a POST for two waits, which is where a time-out starts again; two attempts; two rounds, so that a heartbeat of the first can arrive in the second.
* `discovery`: two peers, so that one can be excluded while the other answers; the
  order of the times is the code's, a time to live (0 ticks) shorter than the
  window of `is_healthy` (1 tick), and a fetch lasts up to one tick, so that an
  answer is read late, a peer leaves with an answer under way and a peer ages out
  between two fetches.  Up to two rounds in a row that raise; `AgeCap = 4` is past the age
  at which the gauges are late after one of them.  Histories of up to five values from 0 to 3 and windows
  from 0 to 6 for the trend: shorter, equal and longer than the history.
* `discovery_updaters`: one peer and three callers, two of them under the lock;
  `Gap` and the window are 0, because only fetches, and the time since `close()`
  against one fetch, matter there.  A history of one, so that it is cut at every
  second aggregate.
* `lifecycle`: every mode; files that name none of these settings, that change one
  of the defaults, or that have all but one off; one crash at any moment, which is
  followed by a life without one.
* `failures` is not capped: `FailuresBounded` is what bounds it.

### Fairness

`daemon_live`: the event loop runs what is ready (`WF(Loop)`) and time passes
(`WF(Tick)`); nothing is assumed of Slurm, of clients or of the operator.
`sender`: each task that can run does, the gather returns, time passes; of the network
nothing is assumed but that no answer comes in pieces for ever (`MaxWaits`), for which
the code has no guard.  `discovery_updaters`: every request gets an outcome, the
client's timeout at the latest, and callers that can run do; the lock is acquired
under strong fairness because `asyncio.Lock` queues its waiters in order.
`lifecycle`: the event loop runs what can run (`WF(Main)`, `WF(Loop)`; the runner's
cleanup has a timeout in aiohttp), and the service manager restarts what failed
(`WF(Restart)`, `Restart=on-failure`); nothing is assumed of signals, crashes, files
or the port, `RecoversOnceInOrder` says in its premise that they calm down: from some
time on everything is in order, no stop is wanted and the last end was no reload.
A stopped daemon and a cancelled round rest for good, hence
`CHECK_DEADLOCK FALSE` in the runs of `HeartbeatDaemon` and `HeartbeatSender`; the
other runs check for deadlock.

### Violations: where the code disagrees with what is written about it

1. `OutageIsReported` (`collector.py:131`): a collection all of whose requests
   failed has `collect_success` true, so the site is published as reachable and
   accepting jobs.
2. `SendingDoesNotDelayReadiness` (`main.py:280`): a peer that accepts the
   connection and never answers holds the loop for 127 s with the defaults (one that
   answers piece by piece, longer), and the document expires after 90 s.
   `FittingCycle` proves that it holds where the cycle fits in the time to live.
3. `HeartbeatsVerify` (`message.py:242`): signatures cover the signature another
   peer's task or an earlier attempt left in the shared message.  Of a round's
   heartbeats at most one verifies (`OneHeartbeatVerifies`); with one peer and no
   retries all do (`AloneAllVerify`).
4. `GaugesKeepUp` (`discovery.py:199`): from the first excluded peer on,
   `fetch_all_peers` raises and no gauge is updated any more.
5. `ReloadKeepsRunning` (`systemd/slurm-heartbeat.service:22` and `:25`): `systemctl
   reload` ends the daemon, without `stop()`, and it is not started again, while
   the guides use it on a service that goes on (`docs/OPERATIONS.md:191`, `:325`,
   `docs/SECURITY.md:251`).  `StaysDownOnlyWhenAsked` says that nothing but that
   does so.

### Seen while reading, not in a run

* Maintenance gives `limited`, not `draining` (`normalizer.py:136`, `README.md:362`),
  and precedes the majority-down rule (`normalizer.py:135`, `README.md:363`).
* A site whose partitions are all empty is *unavailable* but becomes *limited* when
  more than a fifth of its nodes fail (`normalizer.py:146-153`), which is why
  `NodeLossNeverHelps` excludes it.
* `ClientConfig.load` reads neither `client.federation.enabled`, `peer_timeout_seconds`
  and the aggregation settings (`config.py:205`), nor `server.maintenance_path` and
  the server's `tls.signing_key_file` (`config.py:224`).  So no deployed daemon has a
  discovery, although `README.md:245` says how to enable it; `Lifecycle` has this in
  `Unread`.  And if it had one, the publisher would have been given the components
  before they exist (`main.py:133`).  `FederationDiscovery` and
  `Federation` model the classes as the loop uses them.
* The discovery's HTTP client has no certificate (`discovery.py:132`), so a publisher
  with the default TLS settings refuses it; `Federation` assumes peers that do not.
* Outside the loop nothing keeps the order of answers: with callers of
  `update_all_peers`, `HintNeverGoesBack` and `GaugesKeepUpUntilExclusion` fail.
* `max_history_size` of the configuration is not handed to `MetricsAggregator()`
  (`main.py:149`); the size of a trend depends on the window, since the slope per
  entry is divided by the range over all of them.
* The comment on the health gauge (`metrics.py:206`) and its map give different
  numbers for *unhealthy* and *no_peers*.  `record_readiness_update` and
  `update_peer_status` share one gauge.
* `stop()` does not close the HTTP clients of collector and sender (`clients` of
  `Lifecycle` is emptied by the end of the process only).
* A peer stays healthy, and its capacity in use, for 120 s after its answer was read
  (`discovery.py:41`), whatever the document's 90 s say, while
  `docs/EFP_HEARTBEAT_RECOMMENDATION.md:100` wants expired data treated as unknown.
  `HealthyIsFresh` has the tolerance the code gives.
* The directory of the maintenance file must be readable, or
  `_check_maintenance_state` returns false (`main.py:380`): the model assumes it is.

## Proofs

All theorems hold for every value of the constants that satisfies the named
assumptions of the modules: `FedStateAssumption`, `ClusterStatesAssumption`,
`PublisherAssumption`, `DaemonAssumption` and `NoDocAssumption` for the daemon,
`SenderAssumption` for the sender, `HistoryAssumption` and `DiscoveryAssumption` for
the discovery, `LifecycleAssumption` and `SiteAssumption` (with `FedStateAssumption`)
for the modules they are in.  Theorems that need more (`GaugesKeepUpAlone`,
`HintsGetNewer`, `FittingCycle`, `AloneAllVerify`, `RoundBoundClosed`)
say so after ASSUME.  Every safety property and every refinement of the passing
runs is proved, but for `TrendIsSound`, which is one instance of `TrendIsRegression`.

`Induction`: `SetInduction` and `UpTo`.  Induction stated for sets instead of
predicates is a fact a leaf can cite; to prove something of a recursive function,
define the set of the arguments at which it holds.

`MetricsAggregator_proofs`:

* `TrendIsRegression`: `TrendAgrees` for every set of integer histories and of
  windows.  `PartialSums` is shown to be what its recursion says
  (`SumsExist`, `PartialSumsDef`) and linear; with the sums of 1, 2, ..., n and of
  their squares the normal equations follow (`SlopeIsRegression`).  The sign and the
  clamp use another form of the numerator: the k + 1st value adds to it what it
  exceeds the average of the first k by, times k (`SpreadByExcess`).  Values that do
  not fall add nothing negative (`SpreadSign`), and no value adds more than k times
  the range, so the slope is within [-1, 1] before it is clamped (`SlopeNotClamped`).

`HeartbeatDaemon_proofs`:

* `TypeCorrect`: the type invariant, which also says that no request is
  outstanding outside a collection.
* `MaintenanceHonoured`: `MaintenanceIsHonoured`.  It is not inductive: nothing in
  it says how old a document that disagrees with the file can be.  The
  strengthening `MaintenanceInv` adds that such a document is at least as old as
  the file's last change (it agreed when it was built, and both age together),
  that a document saying maintenance never says ready or accepting, and that a
  200 carries a document within its time to live.
* `SignaturesVerify`: `ServedSignatureVerifies`, from `SignatureInv`: the stored
  document never has a broken signature, because signing is skipped once it has
  one and publishing starts from an empty one.
* `StopIsFinal`: `NothingPublishedAfterStop`, from `LoopEnds`: once the daemon is
  not running its loop is nowhere any more.
* `Renewal`: `RenewedInTime`.  `RenewalInv` bounds, at each await of the loop, the
  document's age plus what is left of the await by the parts of the cycle up to
  there; the proof needs that no round fails, which is where well-formed answers
  come in.
* `CapacityNotStale`: `NoStaleCapacity`.  `CapacityInv` says the same twice: counts
  being collected are older than the cluster's last change by no more than the
  part of the collection that has passed (`SampleInTime`), and those published by
  no more than the document's age and a collection (`HintInTime`).
* `FittingCycle`: `SendingDoesNotDelayReadiness` where `CycleBound <= TTL`, from
  `Renewal`.
* `SiteImplemented`: `Spec => ImplementsSite`.  Every step maps to a step of
  `PublishedSites` or to its silent step.  The proof needs `LoopEnds`: a daemon that
  is not running publishes nothing, which is what lets `Stop` of the abstract site
  be final.

`HeartbeatSender_proofs`:

* `TypeCorrect`, `VerdictsEarned`, `FailClosed`: from one inductive invariant,
  `Tasks`: the type invariant, that a message posted belongs to no later round,
  what the state of a task says about its result (a task that backs off has an
  attempt left; a finished one has a result), and the two properties themselves.
* `RoundsBounded`: `RoundIsBounded`.  `Bounded` adds for each task that the time
  elapsed and the longest time it may still take (`Rest`) stay within
  `RoundBound`.  A POST may still take what is left of its wait and the waits not begun
  (`Owed`); another wait trades one of these for a new time-out.  A failed
  attempt trades what is left of its POST for a back-off and the remaining attempts, by the recursion of `Remaining`, which
  `RemainingDef` and `RemainingFacts` show to have its solution in `Nat`; a tick takes one from `Rest` and adds it to `elapsed`.
* `RoundImplemented`: `Spec => ImplementsRound`.  Every step maps to a step of
  `HeartbeatRound` or a stutter; the step that records a verdict needs `Tasks`.
* `RoundBoundClosed`: with the back-offs 1, b, b^2, ... of `send_with_retry` the
  bound is the POSTs of all attempts and a geometric series.
* `OneHeartbeatVerifies`, `AloneAllVerify`: how far `HeartbeatsVerify` fails.  The
  first needs that a round which has sent a valid signature has a signed message
  (`SignedOnce`), the second that the only task, which never backs off, finds the
  message unsigned (`FirstToSign`).

`FederationDiscovery_proofs`:

* `TypeCorrect`: the type invariant for any set of peers and callers.
* `HealthyIsKnown`: `HealthyIsFresh`.  It is not inductive, because nothing in it
  says how old an answer under way is.  `Freshness` adds that such an answer's age
  and the time left for reading it stay within the time to live and one fetch, and
  that a hint is older than the reading by no more than that.
* `SilenceAfterClose`: `SilentAfterClose`, from `Closing`: after `close()` no new
  answer is produced, and those under way run out within a fetch.
* `HistoryBounded`: `HistoryIsBounded` is inductive given types.
* `ExclusionIsFinal`: `OnlyAnAnswerReadmits`, from the type invariant.
* `FailuresStayBounded`: `FailuresBounded` is inductive; each landing trades a
  request under way for a failure, and a new request needs a peer below the limit.
* `GaugesKeepUpAlone`: `GaugesKeepUpUntilExclusion`, assuming `Updaters = {}`.
  `Alone` bounds the gauges' age plus what is left of the await by one period of the
  loop and a `Gap` for each round that raised since (`lost`), and says that
  whatever a fetch left out is still excluded, so that a fetch without excluded
  peers does not raise.  With other callers a peer may be readmitted by an answer of
  theirs while the loop's fetch has left it out, and the property fails.

`Federation_proofs`:

* `DiscoveryAmongPeers`: `FedSpec => Spec`: the answers of publishing peers are
  among those `FederationDiscovery` allows, so that its theorems hold here.
* `DepartureIsNoticed`: `GoneIsNoticed`, from `Departure`: what a peer that is gone
  had answered runs out within a fetch, and its last reading is no younger than
  its departure by more than that.
* `HintsGetNewer`: `HintNeverGoesBack`, assuming `Updaters = {}`.  `Newer` orders
  what a peer can still hand out, what it has under way and what is known of it.
* `TrendOfHealthyPeers`: the trend of the recorded numbers of healthy peers agrees
  with its definition in every reachable state: `TrendIsRegression` applied to what
  the type invariant says of the history.

`Lifecycle_proofs` (all from one invariant `IInv`, the conjunction of `TypeOK` and
`Wiring`, which ties components to configuration and mode, `Progress`, which says
how far a process with a runner, a site or a task has come, and `Orders`, by which
whoever is on the way out was signalled or failed to start):

* `TypeCorrect`, `SwitchesIndependent`, `StopIsOrderly`, `NothingIsLeft`.
* `DownWhenAsked`: `StaysDownOnlyWhenAsked`: an exit code 0 takes a process that got
  the signal, because `Orders` ties waking up to `shutdown` and `shutdown` to `asked`.
* `LivesImplemented`: `Spec => LivesAsASite`.  Only `Listen` brings the site up, and
  `Progress` says that it was not up before; `Wake` ends the wish for a loop before
  `CleanUp` takes the site; every way the process ends is a crash of the site if it
  was up and silent if not.

`SiteEvolution_proofs`:

* `ReadySites`, `LossNeverHelps`, `DemandIsHeard`, `WaitIsMonotone`: the verdict's
  monotonicity for every number of nodes and jobs.  They rest on `SiteType` (the
  node counts never exceed the total), on `Verdict`, the ladder of
  `_determine_status` as a function of its conditions, and on multiplying out the
  ratios.

Only model-checked: the liveness properties (`KeepsPublishing`, `RoundEnds`,
`FetchEnds`, `UpdaterIsServed`, `StopIsObeyed`, `RecoversOnceInOrder`) and the absence
of deadlock: liveness under fairness and ENABLED are beyond the prover and stay
with TLC.

## Not modelled

* `protocol/security.py`: sequences of calls into the cryptography library, without
  state; whether they succeed is a choice where they are used.
* `HeartbeatReceiver`'s table: nothing in the program changes it (its handlers are
  placeholders, nothing calls `update_peer` or `record_failure`).
* `/federated/peers`, `/metrics`, `/health`, `get_federation_summary`,
  `get_metrics_for_prometheus` and the totals of an aggregate: they format or sum
  state modelled elsewhere.
* The contents of heartbeats and the texts of reasons and errors.

## Plan

1. The totals of the aggregate and of the summary: that they count the same peers
   whatever lands between the two.
2. `ReceiverState`, if its operations get callers.
3. A discovery with the publisher's components given after they exist, should the
   loader learn to enable it: `Lifecycle` and `Federation` composed.
4. Proofs: from the cluster's change to the capacity another site uses, the bounds
   of `CapacityNotStale` and `HealthyIsKnown` in one statement.
