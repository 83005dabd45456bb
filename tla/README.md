# Fusillade in TLA+

This directory holds a formal model of Fusillade, the load-testing engine in
`src/`: TLA+ modules translated from the Rust source, TLC configurations that
check them on small instances, and TLAPS proofs that the safety properties hold
at every size. Line numbers refer to the files under `src/src/`;
`PROJECT.json` maps every definition to the lines it stands for.

## 1. The system

One process runs one load test (or, as a cluster worker, one test after another).

| Part | Source | State | Operations | Interacts through |
|---|---|---|---|---|
| Test thread | `engine/mod.rs` 345–2204 (`run_load_test`) | elapsed time, pool of workers, dynamic target, schedule | handle commands, scale, report, stop, merge, thresholds | command queue, running flags, metric channel, shards |
| Worker coroutines | `engine/mod.rs` 1727–1886 and one copy per executor | JS runtime, iteration count | run the script, send metrics, watch flags | running flag, `ControlState`, metric channel |
| Metric path | `engine/mod.rs` 346–448, `stats/mod.rs` 20–166 | bounded channel, shards, remote batch | send, recv, add, post, merge | `tx`/`rx`, one lock per shard |
| Scenario executors | `engine/mod.rs` 574–1567 | one thread per scenario, its pool, its counters | dispatch, scale, poll, signal, join | shared counters, iteration channel, flags |
| Schedule | `engine/mod.rs` 2206–2238 | none | interpolate target and rate | called by the loops |
| Memory monitor | `engine/memory.rs` 140–207 | `warned`; `memory_throttle`, `memory_critical` | sample, warn, critical | two atomics read by the test thread |
| Control state | `engine/control.rs` | five atomics, tags | pause, resume, stop, target, total_paused | read by workers, TUI and test thread |
| TUI | `tui/mod.rs`, `tui/ui.rs` | input mode, text, scroll | keys, drawing, leaving | command queue, `ControlState`, `TUI_ACTIVE` |
| Cluster | `cluster/mod.rs`, `engine/distributed.rs`, `main.rs` 1020–1049 | worker registry, streams, `control_tx` | register, dispatch, start, stop, finish | gRPC stream, HTTP metrics |
| Statistics and thresholds | `stats/mod.rs` 170–1060 | counters and histograms per name | add, merge, report, evaluate | called by shards and the test thread |
| HTTP bridge | `bridge/http_sync.rs`, `engine/io_bridge.rs` | cookie jar, segment and sleep tracker in thread-locals | request, redirect, retry, time out | coroutine ↔ tokio pool, response sink |
| Stream clients | `bridge/{mqtt,amqp,grpc}.rs` | connection, `running` flag, background thread, bounded queue | open, subscribe, publish, recv, close | queue between the background thread and the script |
| Socket clients | `bridge/{ws,sse}.rs` | connection, retry options, lines read so far | connect, send, recv, close, reconnect | the peer |
| Browser | `bridge/browser.rs`, `bridge/check.rs` | pages, `CurrentPage` | open, navigate, wait, close; screenshot of a failed check | `CurrentPage` |
| Shared script state | `bridge/{data,utils,mod}.rs` | data sets behind a lock, id counter, log filter | load once, draw an id, log | lock, atomic, thread-locals |
| Exporters and history | `stats/{csv,db,html,otlp,statsd}.rs` | none over time | format a report, pack it, save it | called by `run` |
| Command line | `main.rs`, `cli/` | options, configuration, watch loop, recorder | `run`, `run --watch`, `record`, generators | console thread, engine |

**What is hard here.** Several consumer threads drain one bounded channel while
reports merge shards lock by lock. Workers look at a flag and act on it later,
so pausing and stopping race with iterations in progress. Several workers claim
from one counter. A dispatcher and its workers share a bounded queue whose
overflow must be accounted for. The TUI reads three atomics one by one while the
test thread updates them, and acts on values that are stale when its command is
handled. A cluster worker may receive a second test before the first has ended,
or vanish. Coroutines of different workers share the thread-locals of a carrier
thread. A client's background thread blocks on the queue the script does not
read. A console thread, a failing validation or a breached threshold ends a
command at a point where the terminal or the artifacts are not settled yet.
`PROJECT.json` lists each of these hazards at its line.

**What makes each part correct**

- Metric path: nothing lost, nothing counted or posted twice, reports that only grow.
- Test thread: every live worker stays reachable; a ramp takes effect in one
  pass; a stop ends in a report and leaves no coroutine behind.
- Executors: the pool is overdrawn by at most one iteration per worker; every
  iteration number is dropped, queued, running or completed; everybody ends.
- Control state and TUI: paused time is overstated by no more than the header is
  late in looking at the clock; both threads get out.
- Cluster: a stop finds the running test; a reported end means the worker is ready.
- Statistics: the merge of the shards is what one aggregator would have counted;
  reports and verdicts are about requests; a scenario is judged by what was
  recorded under its name and by nothing else.
- HTTP: a script gets the end of its redirect chain, a retry happens only while
  there is no answer, a cookie goes to its host or the hosts of the domain it named,
  every call returns.
- Clients: what arrived is handed out once and in order; background threads whose
  peer answers or breaks off end.
- Command line: the exit code tells what happened, the command ends, the last
  edit is the one that runs.

## 2. The modules

| Module | Models | Correspondence |
|---|---|---|
| `MetricLedger` | what the metric path promises | a metric is emitted, later counted, and stays counted; every emitted metric is eventually counted |
| `MetricPipeline` | channel, aggregator threads, shards, merge, remote batch | one action per operation: `Send`, `Recv`, `Add` (under the shard's lock), `Post`, `KeepTx` (the clones of `tx` in a JS runtime, which is forgotten and never drops them), `DropTx`, `AggExit`, `MergeStart`, `MergeShard` (one shard's lock at a time) |
| `Schedule` | `calculate_target`, `calculate_rate` | recursive functions over the list of stages |
| `MCSchedule` | every small schedule, walked tick by tick | checks `Schedule` against a reference reading |
| `MemoryMonitor` | the monitor thread and its two flags | `MonitorCheck` is one turn of the thread; `SpawnBlocked` and `ClearThrottle` are the main loop's use of the flags |
| `LoadTest` | the test thread of a single-scenario run and its workers | extends the three modules above. The main loop is cut at its phases (`TopOfLoop`, `HandleCommand`, `Scale`, `PeriodicReport`, `Sleep`), the end of the run at `Finish`, `GracefulStop`, `FinalMerge`, `MergeStep`, `Return`; a worker at each flag it reads and each metric it sends |
| `ClosedModel` | constant-workers, per-worker-iterations, shared-iterations | scenario thread `Poll`, `Signal`, `Join`; workers as above, with the claim from the shared counter in `WorkerLimit` |
| `ArrivalRate` | constant- and ramping-arrival-rate | `Dispatch`, `Close`, `Report`, `NextHandle`, `Joined`; workers take numbers from the queue |
| `RampingWorkers` | ramping-workers | `Grow`, `Hold`, `Sleep` per second, then `Signal` and `Join` |
| `Console` | `ControlState` and the TUI | each load or store of an atomic the other thread sees is an action, and so is each look at the clock (`DrawStarted` loads, `DrawClock` reads the clock); keys in the three input modes |
| `Cluster` | registration, dispatch, the worker process's command loop and test tasks | one action per message sent or received and per step of a test task |
| `HttpRequest` | `http.*` from the call to its response | a coroutine runs on a carrier until it yields (a bridged request, a sleep) and goes on with `Resume`; one action per hop (`SendHop`, `FollowRedirect`), answer, timeout, back-off and sleep; jar, segment and tracker belong to the carrier; a cookie is kept for a host or for a domain (`Site`, with hosts `Members`) |
| `StreamClients` | MQTT, AMQP and gRPC objects | one action per method of the object, per step of the pump thread (`PumpChecks`, `PumpTakes`, `PumpForwards`, `PumpEnds`; `BidiResponds` for the call a bidi thread awaits before its loop) and per thing the server or the network does (`NetworkFails`, `NetworkReturns`) |
| `SocketClients` | WebSocket and SSE objects | a call is cut at each attempt to connect and at each line read; the server ends a stream at any line |
| `ScriptThreads` | `SharedArray`, `SharedCSV`, `sequentialId`, log filter | double-checked loading cut at its two locks; a blocked lock blocks the carrier |
| `BrowserPages` | browser, pages, `check()` | one action per method; `Poll` is one look of `waitForResponse` |
| `MCBridges` | one script with one of these objects | picks the object in the initial state and instantiates the four modules |
| `Statistics` | `StatsAggregator`, merge, report, thresholds, exporters | `Add` and `Merge` are functions on an aggregator; `AddMetric` puts one metric into one shard |
| `RunCommand` | `fusillade run` around the engine | main thread and console thread, cut at each hook, artifact, flag and exit; the cost prompt is `Asked` until the user answers it (`Answer`), if ever |
| `Commands` | `run --watch`, `record` | watch loop against a file that changes; proxy handlers against Ctrl+C |
| `MCCommands` | one command or function per behaviour | instantiates `MCSchedule`, `Statistics`, `RunCommand`, `Commands` |
| `LoadTestProofs`, `ClosedModelProofs`, `ArrivalRateProofs`, `ClusterProofs`, `CommandProofs`, `CalculationProofs`, `HttpRequestProofs`, `BridgeProofs` | theorems about `MetricPipeline` and `LoadTest`; `ClosedModel`; `ArrivalRate`; `Cluster`; `Console`, `RunCommand` and `Commands`; `MCSchedule` and `Statistics`; `HttpRequest`; `MCBridges` and the four modules it instantiates | section 5 |

`LoadTest` composes `MetricPipeline`, `MemoryMonitor` and `Schedule` by
`EXTENDS`: a step of the run that sends a metric *is* `MetricPipeline!Send`
conjoined with the worker's own step. Its property `ImplementsPipeline` checks
that the composition respects the pipeline's specification, liveness included,
and the theorem `RunsUseThePipeline` proves its safety part for every size, so
what is proved of the pipeline holds of a run (`RunCountsEveryMetric`). `MetricPipeline` in turn implements
`MetricLedger` with `sent <- Sent, counted <- Stored`.

**Abstractions.** A metric is its sender and a sequence number; what a shard
accumulates is the set of metrics it took in. A merge reads shards in order, one
step each. Time in `LoadTest` is a tick per pass of the main loop (its 100 ms
sleep); in the executors the end of a duration or of a grace period is an event
that may come at any moment, which covers every duration. A pause is counted up
to `MaxPause` ticks: only the difference of the two clocks matters to the code.
Interpolation is exact over the rationals and floored like the cast in the code;
the rounding of `f64` is not modelled. Memory usage is one of the three bands
the thresholds cut out. A script's iteration is one step that returns or throws,
which have the same effect on the state modelled. In the executors the metrics of an iteration are part of
that step. Each `HandleCommand` takes one command, because users may add to the
queue while the loop drains it. `tag` and `status` commands change nothing
modelled. A worker's running flag is written by its owner only and read by that
worker only; lowering all flags in one step is therefore equivalent to lowering
them one by one. In `ArrivalRate` a number's dispatch interval is left out, so
any relative speed of dispatcher and workers is covered. Ids of workers grow and
are never reused, as in the code.

In `HttpRequest` a URL is its host: every path is `/`, and `Secure`, expiry and
`Path` of cookies are left out. A cookie is kept for its host or for the domain
it named, and carries the host and the worker it came from. Both clients give the
bridge the first `Set-Cookie` header of a response only (`Seen`). In the clients a message is its number on its connection; what
JS, JSON and protobuf values are turned into is left out. In `Statistics` a
duration is a number of microseconds, a histogram keeps the buckets of
hdrhistogram at the values used, and a threshold compares fractions exactly;
bytes and connection timings are sums like the total duration and left out. In
`RunCommand` what the workers did is a result that may be any; `LoadTest` and
the executors say how it comes about. An export may fail, which is only printed
(`main.rs` 944–963); the test thread waits three seconds at most for the console,
so `AwaitTui` may go on whatever the console does.

Definitions headed "Faulty variant" are the plausible bugs the properties are
tried against; no specification uses them.

## 3. The runs

`tlc -config <cfg> <module>`. Deadlock is checked in every run but three: in
`cluster` the controller may have nothing left to dispatch and no process left
to serve, a script of `bridges` may hold no object any more and have nothing left
to do, and the commands and functions of `commands` come to an end.

| Run | Bounds | What it shows |
|---|---|---|
| `pipeline` | 2 producers of 2 metrics, 2 aggregators, 2 shards, channel of 2, batch of 2 | nothing lost (`Conservation`), nothing counted twice (`CountedOnce`), reports sound (`ReportSound`), the ledger implemented (`ImplementsLedger`, liveness included) |
| `load_control` | 3 workers, 2 of the interactive commands, moving memory usage | `NoOrphans`, `RampReached` |
| `load_metrics` | 1 worker with 2 iterations, channel of 1, 2 shards, 2 of pause, resume, stop | `OneIterationPerPause`, `StopEndsRun`, `ImplementsPipeline` |
| `console` | 15 keys, any 3 of them, clock of 4 ms | the header's paused time exceeds the real one by no more than what passes between its last load and its look at the clock and, unless a pause was repeated, nothing of it is missing between commands (`PausedTimeHonest`); `BothGetOut` |
| `closed` | 2 workers, limits none, 0 and 2 under each executor | `Overdraw`, `PoolDrained`, `ScenarioCompletes` |
| `arrival` | 2 workers, queue of 4, 5 numbers, limits none and 3, 1 pause | `Accounting`, `InOrder`, `NobodyLeftInGrace`, `ScenarioCompletes` |
| `ramping` | 3 workers, up to 2, down to 0, up to 1, 1 pause | `EverybodyEnds` |
| `cluster` | 2 processes (1 without the token), 3 tests, 2 stops, command queue of 1, 2 runtime threads | `StopFindsTest`, `FinishedMeansReady`, `TestReported`, `GoneUnregistered` |
| `http` | 1 worker, 3 hosts of which 2 make a domain, 1 cookie name with and without `Domain`, redirect limit 1, 1 retry | `RedirectsFollowed`, `RetriedWhileUnanswered`, `SentWhereSet`, `RequestReturns` |
| `bridges` | each kind of object; queue of 1, 2 messages a connection, 2 connections, 2 retries, 2 events of 2 lines, 3 workers of 2 scenarios on 2 carriers, 2 pages | `StreamsDeliver`, `RetriedBeforeFailing`, `EventsWhole`, `SharedIsOne`, `CurrentIsOpen`, `PumpsEnd` |
| `commands` | schedules of up to 3 stages with durations and targets up to 3; any 3 of 14 metrics over 2 shards; every combination of the options of `run`; 4 edits; 3 recorded requests | `TargetIsOnTheLine`, `MergeIsWhole`, `ReportIsOfRequests`, `JudgedBySegments`, `ExitTells`, `CommandEnds`, `LastEditRuns` |
| `load_grace` | the smallest instance | refutes a statement of a comment and of the documentation (section 4) |

A configuration that passes stands beside the runs: `CommandsMore.cfg`
(`MCCommands`: exporters agree on every measure, hooks come in order, a recorded
flow is complete, stages meet their targets and never move away from them). Each module of threads, clients and processes has a type invariant; those of
`MetricPipeline`, `LoadTest`, the two executors with proofs, `Cluster` and
`HttpRequest` are theorems, and all have been checked at the bounds above.

**Why the bounds are enough.** Two aggregators and two shards are the least at
which an aggregator skips a shard, a shard has two writers over time and a merge
can be overtaken between shards; a channel of one or two is full at once. Three
workers let a ramp shrink by more than one. Two commands (three keys) let a
second one meet the effects of the first; more of them only repeat these
combinations. Two iterations are the least at which a paused worker could begin
one too many. Five numbers against a queue of four and two workers make the
queue both overflow and drain. A third test lets a dispatch meet a queue that is
full and one that has just been emptied. A redirect limit of one has chains
below, at and beyond it; three hosts let a chain cross from a host to another of
its domain and out of it, and the script may set and delete cookies before the
call. A queue of one
with two messages is full and drained in turn, and two connections let the thread
of the first outlive it. Three metrics over two shards are the least at which a
shard holds two of a name while the other holds a third; the fourteen metrics
cover every kind, requests of 0 µs and beyond the histogram's range, a segment
nested in another and a worker of one scenario in a segment named as the other. Four edits fall
before, during and after a run of the watch loop. Every bound is a named constant marked
`BOUND`; it stops the environment or the count of iterations, never a handler.

**Fairness.** Weak fairness except where said below. The test thread, scenario threads,
aggregators, the monitor and the TUI are OS threads; workers are coroutines of
`may`, whose scheduler runs every one that is ready; cluster tasks are scheduled
by tokio. A script's iteration is assumed to return where a property depends on
it, as a separate conjunct (`CallsReturn` in `ArrivalRate`; `HangingSpec` does
without). Time passes in the executors. Nothing is assumed of users, keys,
memory usage, dispatches, stops or crashes. `Console` owes the handling of
commands already sent, not the natural end of a test. In `HttpRequest` the timeout
of a request comes and a ready coroutine is resumed; the latter is strong fairness,
since carriers become free and busy again while `may` queues ready coroutines
first in, first out. In `StreamClients` only
the pump threads are fair, and strongly for the poll of a connection that has
ended, since a poll of at most 100 ms comes back again and again and the step is
possible only while it lasts. Servers, brokers, peers and the network owe nothing:
a broker may stay away and a call unanswered for ever, which `PumpsEnd` therefore
excepts. `CallSpec`, of the claims in `BridgesClaims.cfg`, adds that an event
loop takes a waiting request between two polls and that a blocked call goes on
when it can. The main thread, the console thread and the watch
loop are scheduled; the user and the file owe nothing, so a command whose cost
prompt is left open need not end (`CommandEnds` says so).

## 4. Disagreements between code and documentation

One has a listed run:

- **The graceful stop does not wait** (`LoadTestGrace.cfg`). The clean-up lowers
  every running flag (`engine/mod.rs` 2006–2015) and then waits for the flags to
  be low (2029–2039), so it never waits for an iteration in progress.

The others are kept as counterexamples one can run beside the listed ones; TLC
reports each of these properties as violated (a configuration that names several
stops at the first; leave out the ones seen, or use `-continue`). Where no document is quoted, the
property is what a user would expect and the code does not promise.

| Configuration, module | Property | What the code does |
|---|---|---|
| `PipelineUnreported.cfg`, `MetricPipeline` | `RemoteSeesEverything` | only aggregator 0 batches for the controller, and nothing posts its last, incomplete batch (`engine/mod.rs` 415) |
| `LoadTestStages.cfg`, `MCLoadTest` | `AggregatorsEnd` | `tx` is cloned into closures of the JS globals (`engine/mod.rs` 1765) and the runtime is forgotten (1881–1884), so the channel never closes and the aggregator threads of a run stay; the comment at 447 says they detect the close |
| `ClosedTotals.cfg`, `ClosedModel` | `FixedTotal` | a worker claims after it has run the iteration (1486): a `shared-iterations` total (DOCUMENTATION.md:262) is exceeded by up to one iteration per worker, which `Overdraw` bounds |
| `ClusterOverlap.cfg`, `Cluster` | `EveryTestStoppable` | the end of a test clears `control_tx` even when it belongs to the next one (`engine/distributed.rs` 210–214); without overlap it cannot happen (`StopFindsTest`) |
| `LoadTestStages.cfg`, `MCLoadTest` | `StagesFollowed` | without a ramp command the pool of a single-scenario run never shrinks (1893); DOCUMENTATION.md:133 shows a stage `// Ramp down` |
| `LoadTestMemory.cfg`, `MCLoadTest` | `ThrottledAboveWarn` | a jump past 95 % sets only `memory_critical` (`memory.rs` 177) |
| `LoadTestMemory.cfg`, `MCLoadTest` | `CriticalShedsWorkers` | `memory_critical` is never acted upon; `cli/config.rs` 126 says existing workers are gradually stopped |
| `ConsoleKeys.cfg`, `Console` | `TotalPausedIsTotal` | a second `pause()` restarts the pause and loses the time before it (`control.rs` 54–58) |
| `ConsoleKeys.cfg`, `Console` | `NeverOverstated` | the header loads the start of the pause and reads the clock afterwards (`control.rs` 75–77): it counts what passes in between as paused even after a `resume()` |
| `ConsoleKeys.cfg`, `Console` | `PlusAddsTen` | two quick `+` keys read the same target (`tui/mod.rs` 160) |
| `ConsoleKeys.cfg`, `Console` | `CtrlCQuits` | while a tag is typed Ctrl+C is a letter (`tui/mod.rs` 232) |
| `ArrivalRunOrTracked.cfg`, `ArrivalJoinTimesOut.cfg`, `ArrivalRate` | `RunOrTracked`, `JoinTimesOut` | numbers left in the queue are neither run nor counted as dropped (889); the join has no time limit (928) |
| `ClosedTotals.cfg`, `ClosedModel`; `RampingEnd.cfg`, `MCRampingWorkers` | `ExactlyIterations`, `NobodyLeft`, `AllStages` | a scenario without a duration ends after 10 s, whatever its iterations or stages (612–614); popped workers are not joined (1249) |
| `HttpClaims.cfg`, `HttpRequest` | `JarIsOwn`, `SegmentIsOwn`, `SleepIsOwn` | jar, segment name and sleep tracker are thread-local (`http_sync.rs` 639), so coroutines of one carrier thread share them; DOCUMENTATION.md:974 says cookies are per worker |
| `HttpClaims.cfg`, `HttpRequest` | `EveryCookieStored` | of several `Set-Cookie` headers one is kept: ureq's are read by name, one value each (`http_sync.rs` 486), and the bridged client drops those that repeat a name (`http_client.rs` 320–324); CHANGELOG.md:52 |
| `HttpClaims.cfg`, `HttpRequest` | `TypeFitsBody` | the `Content-Type` of a file upload is written into the headers object the next call uses too (`http_sync.rs` 1592) |
| `BridgesClaims.cfg`, `MCBridges` | `SendReturns` | the MQTT thread blocks in `send` on the full queue (`mqtt.rs` 116) although the comment says it is ignored; a publish then waits for it |
| `BridgesClaims.cfg`, `MCBridges` | `ReconnectsAfterDrop` | only a received close frame makes the next call reconnect (`ws.rs` 111); DOCUMENTATION.md:1077 |
| `BridgesClaims.cfg`, `MCBridges` | `EventsComplete` | a stream that ends inside an event hands out its part (`sse.rs` 139–146), and a read timeout there drops the lines read so far (90); the comment at 154 says an event ends with an empty line |
| `BridgesClaims.cfg`, `MCBridges` | `ThreadsExit` | a bidi thread awaits its call without a limit and without reading its flag (`grpc.rs` 975–982), and with an unreachable broker the MQTT poll returns errors for ever (`mqtt.rs` 119–121), so the thread of an object that reconnects or is dropped without `close()`, which leaves the flag up, goes on; the comments at `mqtt.rs` 314 and `amqp.rs` 499 say the thread exits |
| `BridgesClaims.cfg`, `MCBridges` | `CsvShared` | every context loads its own copy (`data.rs` 203); DOCUMENTATION.md:1419 says data is shared |
| `BridgesClaims.cfg`, `MCBridges` | `OnlyMatchingLogs` | the log filter is set in the main thread's thread-local only (`bridge/mod.rs` 197); DOCUMENTATION.md:1691 |
| `BridgesFactory.cfg`, `MCBridges` | `DataComes` | a factory that yields keeps the write lock, on which a coroutine of its own carrier may then block (`data.rs` 115) |
| `BridgesClaims.cfg`, `MCBridges` | `ResponseSeen` | the poll's result is an object, which comes back without a value (`browser.rs` 606); DOCUMENTATION.md:1474 |
| `CommandsClaims.cfg`, `MCCommands` | `ScenarioSeesRequests` | a scenario's thresholds see only requests whose name begins with `scenario::` (`stats/mod.rs` 906), which no request outside a group of that name has |
| `CommandsClaims.cfg`, `MCCommands` | `FailedRateIsOfRequests` | failed iterations are counted among the errors divided by the requests (980) |
| `CommandsClaims.cfg`, `MCCommands` | `GaugeIsLast` | the merge keeps the last shard's value, not the last one set (147) |
| `CommandsClaims.cfg`, `MCCommands` | `FlagsEnforced` | a threshold without spaces is skipped (955), which is how `main.rs` 204 and DOCUMENTATION.md:1688 write them |
| `CommandsClaims.cfg`, `MCCommands` | `ArtifactsOnFailure` | `abort_on_fail` returns an error before the artifacts are written (`engine/mod.rs` 2164) |
| `CommandsClaims.cfg`, `MCCommands` | `SavedOnce` | the engine saves every run and `--save-history` saves it again (`main.rs` 969); DOCUMENTATION.md:1936 |
| `CommandsClaims.cfg`, `MCCommands` | `SetupCleanedUp` | a script that fails its validation is not torn down after its setup (`engine/mod.rs` 340) |
| `CommandsClaims.cfg`, `MCCommands` | `SummaryVisible`, `TerminalRestored` | the console is declared gone before it leaves the alternate screen (`tui/mod.rs` 264; CHANGELOG.md:12); an engine that returns an error leaves the console thread running (`main.rs` 932) |

Read but not modelled: a cluster worker posts its batches to `{url}/metrics`
(`engine/mod.rs` 430) although the URL it is given ends in `/metrics` already
(`engine/distributed.rs` 396), a path the controller does not serve;
DOCUMENTATION.md:388 describes `abort_on_fail` as ending a run early, while
thresholds are evaluated at its end only; `--capture-errors` (1715) captures
nothing, and the configured `user_agent` and `insecure` are not used.

## 5. What is proved

Each theorem holds for every value of its module's constants, the ones marked
`BOUND` included, from the assumption named in that module. Most state a
property that a run checks as well. These have no listed run: the type theorems,
`ReportsNeverShrink`, `PostedAtMostOnce`, `OwnLimitKept`,
`ReportedCountersAgree`, `PauseHolds` of the arrival rate, `HooksCalledInOrder`,
`RecordedFlowIsComplete`, `RateOutlivesTarget` and `TargetMovesOneWay`, whose proofs
have taken the place of a run (`CommandsMore.cfg` still checks the two on the
schedule); `RunInvariant`, `TxOutlivesWorkers` and `RunCountsEveryMetric`, which say of a
run what the inductive invariant and the pipeline's theorems give.

| Module | Theorem | Statement |
|---|---|---|
| `ClosedModelProofs` | `TypeCorrect` | `Spec => []TypeOK` |
| | `OwnLimitKept` | `Spec => []OwnLimit` |
| | `PoolOverdraw` | `Spec => []Overdraw` |
| | `PoolRun` | `Spec => []PoolDrained` |
| `ArrivalRateProofs` | `TypeCorrect` | `Spec => []TypeOK` |
| | `CountersExplainEverything` | `Spec => []Accounting` |
| | `ReportedCountersAgree` | `Spec => []ReportConsistent` |
| | `NumbersInOrder` | `Spec => []InOrder` |
| | `PauseHolds` | `Spec => []OneIterationPerPause` |
| | `GraceCoversWorkers` | `Spec => []NobodyLeftInGrace` |
| `ClusterProofs` | `TypeCorrect` | `Spec => []TypeOK` |
| | `FinishedIsFinal` | `Spec => []FinishedMeansReady` |
| | `StopReachesTest` | `Spec => []StopFindsTest` |
| `LoadTestProofs` | `TypeCorrect` | `PipeSpec => []PipeTypeOK` |
| | `NothingLost` | `PipeSpec => []Conservation` |
| | `NothingCountedTwice` | `PipeSpec => []CountedOnce` |
| | `ReportsSound` | `PipeSpec => []ReportSound` |
| | `ReportsNeverShrink` | `PipeSpec => ReportsGrow` |
| | `PostedAtMostOnce` | `PipeSpec => []PostedOnce` |
| | `StepsOfTheLedger` | initial states and steps map to those of `MetricLedger` |
| | `RunInvariant` | `Spec => []RunInv` (contains `TypeOK`) |
| | `EveryWorkerReachable` | `Spec => []NoOrphans` |
| | `PauseHolds` | `Spec => []OneIterationPerPause` |
| | `RampIsReached` | `Spec => RampReached` |
| | `TxOutlivesWorkers` | `Spec => [](TxHeld /\ AggregatorsHeld)` |
| | `RunsUseThePipeline` | `Spec => PipeInit /\ [][PipeNext]_pipeVars` |
| | `RunCountsEveryMetric` | `Spec => [](Conservation /\ CountedOnce /\ ReportSound)` |
| `CommandProofs` | `PausedTimeIsHonest` | `ConsoleSpec => []PausedTimeHonest` |
| | `ExitCodeTells` | `Spec => []ExitTells` of `MCCommands` |
| | `HooksCalledInOrder` | `Spec => []HooksInOrder` of `MCCommands` |
| | `RecordedFlowIsComplete` | `Spec => []FlowComplete` of `MCCommands` |
| `CalculationProofs` | `ScheduleIsOnTheLine` | `Spec => []TargetIsOnTheLine` of `MCCommands` |
| | `RateOutlivesTarget` | `Spec => []EndsDiffer` of `MCCommands` |
| | `TargetMovesOneWay` | `Spec => MovesTowardsStageTarget` of `MCCommands` |
| | `StatisticsAddUp` | `Spec => []MergeIsWhole` of `MCCommands` |
| | `ReportTells` | `Spec => []ReportIsOfRequests` of `MCCommands` |
| | `ScenariosJudged` | `Spec => []JudgedBySegments` of `MCCommands` |
| `HttpRequestProofs` | `TypeCorrect` | `Spec => []TypeOK` |
| | `ChainsEndWhereTheyShould` | `Spec => []RedirectsFollowed` |
| | `RetriedOnlyUnanswered` | `Spec => []RetriedWhileUnanswered` |
| | `CookiesSentWhereSet` | `Spec => []SentWhereSet` |
| `BridgeProofs` | `StreamsAreDelivered` | `BridgeSpec => []StreamsDeliver` |
| | `FailsAfterRetries` | `BridgeSpec => []RetriedBeforeFailing` |
| | `EventsArriveWhole` | `BridgeSpec => []EventsWhole` |
| | `WorkersShareOne` | `BridgeSpec => []SharedIsOne` |
| | `ShownPageIsOpen` | `BridgeSpec => []CurrentIsOpen` |

**Metric path.** The inductive invariant `IInv` is the type invariant,
`Conservation`, `CountedOnce` and `HandsFull`: an aggregator about to add holds
exactly one metric and any other none. `CountedOnce` alone is not inductive:
`Send` keeps it only because the new metric is in no place yet, which needs
`Conservation` (every metric in a place was sent) and sequence numbers that only
grow; `Recv` keeps it only because the receiving aggregator's hands were empty,
which is `HandsFull`. `ReportsNeverShrink` needs a second invariant,
`ReportCovered`: while a merge is under way, what it has collected and the shards
it has still to read together contain the last report. It holds because shards
only grow, and when no shard is left to read it says that the new report contains
the old one. `PostedOnce` follows from `IInv` and the metric being new to the
batch. Assumed: `Main` is a producer; at least one shard, aggregator, channel
slot and metric of a batch.

**Closed model.** `Overdraw` is not inductive: `Drawn` relates the two counters
to where the workers are. Every finished iteration is claimed or its worker is
about to claim it (`executed = claims + |Unclaimed|`), and each claim beyond the
pool was its worker's last step (`claims <= Total + |Exited|`). The two sets are
disjoint, hence at most one iteration too many per worker. A third part says that
a thread that stopped polling unprompted saw the pool used up, from which
`PoolDrained` follows. `OwnLimit` needs `ShortOfLimit`: whoever may begin another
iteration is strictly below its limit. Assumed: finitely many workers.

**Arrival rate.** `Accounting` is inductive; a step moves one number between the
channel, a busy worker and `completed`. `InOrder` needs `Ordered`: waiting
numbers lie strictly between the last one taken and the next one to give out, and
no worker runs a newer one than the last taken. `OneIterationPerPause` needs
`HeldByPause`: a worker that began an iteration in this pause is in it, at the
head of its loop or gone. `NobodyLeftInGrace` needs `JoinedSoFar`: within the
grace period every handle before `next` has been joined. Assumed: at least one
worker.

**Cluster.** That `TestFinished` is taken for what it is needs `RegisterFirst`:
a registration is the first message of its stream and there is no other. The
invariant `ReadyAt` of a connection says that a test waits in a worker's command
queue at most once and before the worker knows of it, and that a test reported,
or on its way to be, is over and not the owner of `control_tx`; it needs the
first part because a second `StartTest` of the same test would take `control_tx`
back. `OneTestAt` adds that, as long as no dispatch overlapped, a worker has at
most one test the controller has not heard the end of, and `control_tx` is its
own: that is why the clearing after one test cannot hit the next. Crashes, lost
messages and any number of tests, stops and threads are covered.

**A run.** `RunInv` is the conjunction of the types, `NoOrphans`,
`OneIterationPerPause` and what they need. `NoOrphans` is inductive with the
types: `Spawn` raises only flags of ids it has appended, `Shrink` lowers the
flags of exactly those it cuts off, and `Finish` lowers the whole pool.
`OneIterationPerPause` needs `HeldByPause`: a worker that began an iteration in
this pause is not at the gate, and cannot come back to it while the pause lasts.
The types need two facts of their own: an iteration is counted only by a worker
that began it below the bound (`IterationsLeft`), and a pause's time is kept only
while it lasts (`PauseNoted`). `TxHeld` ties every `tx` a worker owns to its
place, and says who keeps clones in a forgotten JS runtime: whoever got as far as
its globals. While one is kept the channel is open, so from the first such worker
on no aggregator thread ends (`TxOutlivesWorkers`). A step of a run is `PipeNext` or leaves `pipeVars` alone, with the
bound on ids giving that a clone goes to a producer; that, with the invariants
of the metric path, is `RunCountsEveryMetric`. `RampReached` follows from
the types, a case for each branch of `Scale`. Assumed: the ids of workers and the
test thread are the producers; numbers in the schedule and in `ramp` commands are
naturals. In `Scale` the number of workers to spawn is a natural up to the room
left and either the number missing or that room, whatever the schedule's target is.

**Schedule.** An induction over the stages, for schedules of any number of them.
`FoldLeft` is a `CHOOSE` of a function on sets of indices: `FoldExists` shows that
there is one, so `WalkSteps` and `LengthSteps` may unroll the walk and the length
stage by stage. `WalkedOver` is the loop's invariant before the stage that contains
the time, `WalkFinds` that the walk stops there, with the length of the stages
before it and the target of the last of them, and `WalkEnds` that there is such a
stage exactly until the end. In the stage, the target is a quotient, so it is the
integer below the line, and two of them are in the order of their times. Induction
is used as a statement about sets of naturals (`Induction`), from the well-founded
order of the naturals.

**Statistics.** What an aggregator counts, all of it but gauges and log lines, is a
record of sums and tables (`Core`), and putting two of them together (`Both`) is
associative and commutative with a new aggregator as its zero: the smallest and
the largest duration included, and `None`, for no request yet, is no number. A
metric adds a fixed record of its own (`Unit`, lemma `AddIs`). So the invariant
`StatInv` is that the counts folded over the shards are those folded over the log:
adding a metric to any one shard adds its unit to both (`MergeGrows`, an induction
over the shards behind that one). This is where `MergeIsWhole` would break if the
merge dropped a field or treated an empty shard's minimum as one. A gauge is only
required to be one that was sent, since the merge takes the last shard's, which
need not be the last value.
`ReportInv` says of the aggregator that saw the log that its total, minimum and
maximum are those of the requests and its histogram counts them by bucket
(`Describes`); by `StatInv` the same holds of the merge. The percentile rests on
three facts: a bucket is at most one part in 128 wide and buckets are in the order
of the durations (`BucketIs`, `BucketsInOrder`, from the powers of two a unit may
be), a table's total is the number of requests in its buckets (`TotalCounts`,
by induction over sets of keys), and the first bucket whose running total reaches
the rank holds a request that no more than the rank's share are faster than
(`PercentileIs`). It is stated, as in the run, for requests within `HistMax`: a
longer one is left out of the histogram. The verdict follows because the
truncation to milliseconds keeps the order. A limit on the slowest or fastest is also
breached when there is no request and 0 breaks it. `ScenarioInv` says that each
group of the aggregator that saw everything holds what was recorded under its
name; joining the groups that begin with a scenario's name, in whatever order,
gives one count of what was recorded under them (`JudgedBySegments`), nested
segments and requests of other scenarios' workers included.
These theorems are for every number of shards, every set of metrics workers can
send, every set of criteria and every sequence of metrics; `MaxMetrics` bounds the
log, not the proofs. Assumed: `Shards` is a natural and `HistMax` a positive one
below 2^32, which is what the buckets cover (`HistogramAssumption`; the code asks
for an hour, 3 600 000 000 µs),
`None` is neither a number nor a fraction, and the metrics are of the code's kinds with
durations and values that are naturals (`MetricAssumption`): 0 is a duration, and
so is one beyond `HistMax`. The histogram takes 0 as 1 (`Micros`).

**Control state.** The header reads three atomics one by one, so its bound needs
one that holds between any two of the stores of `pause()` and `resume()`. What is
pending is the pause in `pause_started_ms` or, after the swap, in `resume()`'s
local; `ReadEarlier` bounds what the header has loaded so far, and `DelayCounted`
what it adds when it looks at the clock after a `resume()`; `Covered` says that counted and pending time is at most the time that was
paused, `Complete` that it is at least that unless a pause was repeated, and
`StartKept` where the start of a pause is at each place of the two calls.

**Exit code.** `JudgedIsMissed` carries the verdict from `Judge` to `ExitCode`
through the join of the console and the exports, and `SummaryOfFull` keeps the
estimate, which runs through the same code, from being taken for the run.
Assumed: `None` is no way to exit. `HooksInOrder` says too little of the past to
be inductive: `HooksInv` says that what has been called is the whole life of an
estimate, or nothing, followed by exactly the hooks of the current run up to the
place of the main thread. The recorder's flow is complete because a request is
on the list whenever its handler is past the first step, and the list stops
growing when it is saved.

**HTTP.** The invariant is about one call's record at each place of the call:
while a request is under way its chain has only redirects, no longer than the
limit, and method and body are those of the first hop as the redirects so far
have changed them; a completed call has a chain whose last hop ends it; a waiting
retry has had no answer. `JarByDomain` says that a carrier's jar holds a cookie
in the place of the host that set it or of a domain that host is in, whichever
worker's response that was; with it
`SentWhereSet` survives the redirects and the change of carrier. Assumed:
limits are naturals.

**Script objects.** An object the script does not use keeps its initial state, so
the invariants of the four modules are proved one beside the other. For streams,
what was sent is, in order, what was taken, followed by what is in the channel,
in the pump's hand and on the wire (`NothingDropped`); `ClosedMeansAll` needs
that the pump of a held receiver ends only when the wire is empty (`HeldRuns`) and
that nothing comes after "closed" (`ClosedStays`). For event streams `InOrder` says that
the part of an event already read and the inbox together are what the server
wrote since that event began, less what a read that timed out has taken of it
(`lost` keeps which events that were); a stream that ends inside an event hands
out what there is. `EventsArriveWhole` therefore says of every event handed out
that it is the lines of one event from its first one on, and all of them unless
one of these two has happened to it. Ids are unique because each is the worker's base plus a
count below `Stride`, and the ranges of two workers do not meet. Assumed: bounds
are naturals, workers are numbered, `None` is neither a number nor a worker.

**Left to TLC.** Liveness (every emitted metric is counted; runs, scenarios,
tests, requests, background threads and commands end), since fairness and ENABLED
are out of the prover's reach. The type
invariants of `Console`, whose typed number is a fold over keys, and of the modules
`MCBridges` and `MCCommands` instantiate, of which the proofs use the part they need.

## 6. Not modelled

- Several scenarios under one main loop: the executors are modelled one at a
  time. They read the shared control state and never write it, and each has its
  own workers, counters and queue.
- In the statistics: byte counts, connection timings, `no_endpoint_tracking`, the
  printed tables. In the exporters: HTML, JSON and the queries on the history,
  which are formatting and I/O.
- In the HTTP bridge: script hooks, `http.batch`, `FormData`, HTTP/2 details.
- Conversions of message contents (JS, JSON, protobuf), among them the width of
  integer fields; cryptography, encodings, random data, file access: stateless.
- Of the command line the generators (`init`, `har`, `openapi`), `validate`,
  `replay`, the cloud client and the parsing of options: sequential I/O.
- The TUI's tables, scrolling and drawing; `MemoryInfo`'s parsing.
- The HTTP worker server `/start`, the `report_metrics` stream and the read-only
  routes of the dashboard.

## 7. Plan

Order: what the largest part of the system depends on comes first.

1. Done: the metric path, then the test thread that composes it, schedule and
   memory monitor, the executors, control state and TUI, cluster.
2. Done: statistics and exporters, the HTTP bridge, the clients of the other
   protocols, the state scripts share, the commands.
3. Done: proofs of every safety invariant the runs check, the walk over the
   schedule and the sums of the statistics included; and of `RampReached`.
4. Next: that the exporters agree (`ExportersAgree`); the type invariant and the
   joining of `RampingWorkers`, what a worker of `Cluster` owes after a lost
   connection, and the types of the script objects.
