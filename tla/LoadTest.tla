------------------------------ MODULE LoadTest ------------------------------
(***************************************************************************)
(* A single-scenario ("legacy") run of Engine::run_load_test: the test     *)
(* thread's main loop, the worker coroutines it spawns and signals, the    *)
(* control commands of a user, the metric path (MetricPipeline), the       *)
(* memory monitor (MemoryMonitor) and the schedule (Schedule).             *)
(*                                                                         *)
(* One pass of the main loop takes one tick (its 100 ms sleep) and time    *)
(* advances only there; the control commands one pass finds in the queue   *)
(* are handled one step each, because users and TUI may add to the queue   *)
(* in between.                                                             *)
(***************************************************************************)
EXTENDS MetricPipeline, MemoryMonitor, Schedule

CONSTANTS
  MaxWorkers,     \* BOUND: workers spawned in a behaviour
  StageSchedule,  \* schedule_legacy
  MaxIterations,  \* config.iterations; 0 stands for None
  IterBound,      \* BOUND: iterations one worker begins
  GraceTicks,     \* config.stop, in ticks
  Commands,       \* control commands a user may send
  MaxCommands,    \* BOUND: commands sent in a behaviour
  MaxPause        \* BOUND: pauses longer than this count as this long

Workers == 1 .. MaxWorkers

ASSUME LoadTestAssumption ==
  /\ Main = 0
  /\ Producers = {Main} \cup Workers
  /\ MaxWorkers \in Nat
  /\ IsSchedule(StageSchedule)
  /\ MaxPerProducer = 2 * IterBound
  /\ MaxIterations \in Nat /\ IterBound \in Nat
  /\ GraceTicks \in Nat /\ MaxCommands \in Nat /\ MaxPause \in Nat
  /\ \A c \in Commands : c.op = "ramp" => c.n \in Nat

NoRamp  == -1   \* dynamic_target_legacy = None
NoPause == -1   \* pause_started_ms = 0

VARIABLES
  epc,       \* where the test thread is
  cmds,      \* queue of control commands
  issued,    \* commands sent so far (bound only)
  paused,    \* ControlState.paused
  stopped,   \* ControlState.stopped
  ran,       \* ticks since the start, less the accumulated total_paused_ms
  pausing,   \* ticks since pause_started_ms, or NoPause
  dyn,       \* dynamic_target_legacy
  active,    \* active_legacy_workers, the ids in spawn order
  nextId,    \* next_worker_id
  running,   \* the running flag of each worker
  wpc,       \* where each worker is
  iters,     \* iteration_count of each worker
  begun,     \* history: iterations a worker began since the last pause, up to 2
  waited     \* ticks the graceful stop has waited

engineVars  == <<epc, dyn, active, nextId, waited>>
controlVars == <<cmds, issued, paused, stopped, ran, pausing>>
workerVars  == <<running, wpc, iters, begun>>
runVars     == <<engineVars, controlVars, workerVars>>
vars        == <<pipeVars, memoryVars, runVars>>

Duration == ScheduleLength(StageSchedule)

\* start_time.elapsed() - control_state.total_paused()
Elapsed == ran - (IF paused /\ pausing # NoPause THEN pausing ELSE 0)

Target == IF dyn # NoRamp THEN dyn ELSE CalculateTarget(StageSchedule, Elapsed)

Init ==
  /\ PipeInit
  /\ MemoryInit
  /\ epc = "top"
  /\ cmds = <<>> /\ issued = 0
  /\ paused = FALSE /\ stopped = FALSE
  /\ ran = 0 /\ pausing = NoPause
  /\ dyn = NoRamp
  /\ active = <<>> /\ nextId = 1
  /\ running = [w \in Workers |-> FALSE]
  /\ wpc = [w \in Workers |-> "unborn"]
  /\ iters = [w \in Workers |-> 0]
  /\ begun = [w \in Workers |-> 0]
  /\ waited = 0

-----------------------------------------------------------------------------
(* Users: stdin in interactive mode, the TUI, or a controller's StopTest.  *)

Command(c) ==
  /\ issued < MaxCommands
  /\ cmds' = Append(cmds, c)
  /\ issued' = issued + 1
  /\ UNCHANGED <<pipeVars, memoryVars, engineVars, workerVars,
                 paused, stopped, ran, pausing>>

-----------------------------------------------------------------------------
(* The test thread.                                                        *)

\* Head of 'main_loop: leave it at the natural end, or when stopped.
TopOfLoop ==
  /\ epc = "top"
  /\ epc' = IF Elapsed >= Duration \/ stopped THEN "finish" ELSE "commands"
  /\ UNCHANGED <<pipeVars, memoryVars, controlVars, workerVars,
                 dyn, active, nextId, waited>>

\* ControlState::pause: note the time, raise the flag.
Pause ==
  /\ paused' = TRUE
  /\ pausing' = 0
  /\ begun' = IF paused THEN begun ELSE [w \in Workers |-> 0]
  /\ UNCHANGED <<epc, dyn, ran, stopped>>

\* ControlState::resume: lower the flag, add the pause to the total.
Resume ==
  /\ paused' = FALSE
  /\ pausing' = NoPause
  /\ ran' = IF pausing # NoPause THEN ran - pausing ELSE ran
  /\ UNCHANGED <<epc, dyn, stopped, begun>>

\* Ramp(0) returns to the schedule, Ramp(n) overrides it.
Ramp(n) ==
  /\ dyn' = IF n = 0 THEN NoRamp ELSE n
  /\ UNCHANGED <<epc, paused, pausing, ran, stopped, begun>>

\* Faulty variant: the command is taken from the queue and not acted upon.
StopIgnored ==
  UNCHANGED <<epc, stopped, dyn, paused, pausing, ran, begun>>

\* Stop raises the flag and leaves the main loop at once.
Stop ==
  /\ stopped' = TRUE
  /\ epc' = "finish"
  /\ UNCHANGED <<dyn, paused, pausing, ran, begun>>

\* One command of `while let Ok(cmd) = rx.try_recv()`.  Tag and Status change
\* nothing this module tracks.
HandleCommand ==
  /\ epc = "commands"
  /\ cmds # <<>>
  /\ cmds' = Tail(cmds)
  /\ LET c == Head(cmds) IN
       \/ c.op = "ramp" /\ Ramp(c.n)
       \/ c.op = "pause" /\ Pause
       \/ c.op = "resume" /\ Resume
       \/ c.op = "stop" /\ Stop
       \/ c.op \in {"tag", "status"}
          /\ UNCHANGED <<epc, stopped, dyn, paused, pausing, ran, begun>>
  /\ UNCHANGED <<pipeVars, memoryVars, issued, active, nextId, waited,
                 running, wpc, iters>>

NoMoreCommands ==
  /\ epc = "commands"
  /\ cmds = <<>>
  /\ epc' = "scale"
  /\ UNCHANGED <<pipeVars, memoryVars, controlVars, workerVars,
                 dyn, active, nextId, waited>>

\* Spawn k workers: each gets a running flag and a clone of tx.
Spawn(k) ==
  LET born == nextId .. nextId + k - 1 IN
  /\ active' = active \o [i \in 1 .. k |-> nextId + i - 1]
  /\ nextId' = nextId + k
  /\ running' = [w \in Workers |-> w \in born \/ running[w]]
  /\ wpc' = [w \in Workers |-> IF w \in born THEN "init" ELSE wpc[w]]
  /\ CloneTx(born)
  /\ UNCHANGED <<iters, begun>>

\* Faulty variant: workers above the target are forgotten, not signalled.
ShrinkForgets(k) ==
  /\ active' = SubSeq(active, 1, k)
  /\ UNCHANGED <<pipeVars, nextId, running, wpc, iters, begun>>

\* Keep the k oldest workers; pop the others and lower their flags.
Shrink(k) ==
  /\ active' = SubSeq(active, 1, k)
  /\ running' = [w \in Workers |->
                   running[w] /\ \A i \in k + 1 .. Len(active) : active[i] # w]
  /\ UNCHANGED <<pipeVars, nextId, wpc, iters, begun>>

\* The legacy scaling block.  Growing follows the target; shrinking happens
\* for a ramp command only.  A throttled pass skips the rest of the loop.
Scale ==
  /\ epc = "scale"
  /\ LET missing == Target - Len(active)
         room    == MaxWorkers - nextId + 1
     IN  \/ /\ missing > 0 /\ SpawnBlocked
            /\ epc' = "sleep"
            /\ UNCHANGED <<pipeVars, memoryVars, active, nextId, workerVars>>
         \/ /\ missing > 0 /\ ~SpawnBlocked
            /\ epc' = "report"
            /\ ClearThrottle
            /\ \E k \in 0 .. room : (k = missing \/ (k = room /\ room < missing)) /\ Spawn(k)
         \/ /\ missing <= 0 /\ dyn # NoRamp /\ dyn < Len(active)
            /\ epc' = "report"
            /\ Shrink(dyn)
            /\ UNCHANGED memoryVars
         \/ /\ missing <= 0 /\ (dyn = NoRamp \/ dyn >= Len(active))
            /\ epc' = "report"
            /\ UNCHANGED <<pipeVars, memoryVars, active, nextId, workerVars>>
  /\ UNCHANGED <<controlVars, dyn, waited>>

\* Every 5 s a run with a metrics URL merges the shards and posts the totals.
PeriodicReport ==
  /\ epc = "report"
  /\ \/ Remote /\ MergeStart /\ epc' = "merging"
     \/ epc' = "sleep" /\ UNCHANGED pipeVars
  /\ UNCHANGED <<memoryVars, controlVars, workerVars, dyn, active, nextId, waited>>

\* sleep(100 ms).  A pause that has lasted MaxPause ticks stops both clocks,
\* whose difference is all that counts.
Sleep ==
  /\ epc = "sleep"
  /\ epc' = "top"
  /\ LET frozen == paused /\ pausing = MaxPause IN
       /\ ran' = IF frozen THEN ran ELSE ran + 1
       /\ pausing' = IF frozen \/ pausing = NoPause THEN pausing ELSE pausing + 1
  /\ UNCHANGED <<pipeVars, memoryVars, cmds, issued, paused, stopped,
                 workerVars, dyn, active, nextId, waited>>

\* control_state.stop(), then (after the TUI has left) every flag is lowered.
Finish ==
  /\ epc = "finish"
  /\ stopped' = TRUE
  /\ running' = [w \in Workers |-> running[w] /\ \A i \in DOMAIN active : active[i] # w]
  /\ epc' = "grace"
  /\ UNCHANGED <<pipeVars, memoryVars, cmds, issued, paused, ran, pausing,
                 wpc, iters, begun, dyn, active, nextId, waited>>

AllFlagsDown == \A i \in DOMAIN active : ~running[active[i]]

\* The graceful stop polls the flags, every 100 ms, for at most GraceTicks.
GracefulStop ==
  /\ epc = "grace"
  /\ IF AllFlagsDown \/ waited = GraceTicks
     THEN epc' = "merge" /\ UNCHANGED waited
     ELSE waited' = waited + 1 /\ UNCHANGED epc
  /\ UNCHANGED <<pipeVars, memoryVars, controlVars, workerVars, dyn, active, nextId>>

\* The merge for the final report begins.
FinalMerge ==
  /\ epc = "merge"
  /\ MergeStart
  /\ epc' = "final"
  /\ UNCHANGED <<memoryVars, controlVars, workerVars, dyn, active, nextId, waited>>

\* One shard of a merge; the last one lets the test thread go on.
MergeStep ==
  /\ epc \in {"merging", "final"}
  /\ MergeShard
  /\ epc' = IF mpos + 1 < NumShards THEN epc
            ELSE IF epc = "merging" THEN "sleep" ELSE "done"
  /\ UNCHANGED <<memoryVars, controlVars, workerVars, dyn, active, nextId, waited>>

\* The test thread returns the report; its tx and the monitor are dropped.
Return ==
  /\ epc = "done"
  /\ epc' = "returned"
  /\ DropTx(Main)
  /\ MonitorDrop
  /\ UNCHANGED <<controlVars, workerVars, dyn, active, nextId, waited>>

Engine ==
  \/ TopOfLoop \/ HandleCommand \/ NoMoreCommands \/ Scale \/ PeriodicReport
  \/ Sleep \/ Finish \/ GracefulStop \/ FinalMerge \/ MergeStep \/ Return

-----------------------------------------------------------------------------
(* Worker coroutines.                                                      *)

workerFrame == <<memoryVars, engineVars, controlVars, running>>

Goto(w, pc) == wpc' = [wpc EXCEPT ![w] = pc]

\* The coroutine returns.  It forgets its runtime, and the clones of tx in the
\* globals of that runtime are never dropped.
Leave(w) ==
  /\ Goto(w, "exited")
  /\ UNCHANGED pipeVars

\* Create the JS runtime, register the globals and load the script; any failure
\* ends the worker, but only one without a runtime drops its tx.
WorkerInit(w) ==
  /\ wpc[w] = "init"
  /\ \/ KeepTx(w) /\ (Goto(w, "head") \/ Goto(w, "exited"))
     \/ DropTx(w) /\ Goto(w, "exited")
  /\ UNCHANGED <<workerFrame, iters, begun>>

\* Faulty variant: no pause check.
WorkerHeadNoPause(w) ==
  /\ wpc[w] = "head"
  /\ \/ ~running[w] /\ Leave(w)
     \/ running[w] /\ Goto(w, "gate") /\ UNCHANGED pipeVars
  /\ UNCHANGED <<workerFrame, iters, begun>>

\* Head of the iteration loop: a lowered flag ends it; a paused worker sleeps
\* here as long as its flag is up.
WorkerHead(w) ==
  /\ wpc[w] = "head"
  /\ \/ ~running[w] /\ Leave(w)
     \/ running[w] /\ ~paused /\ Goto(w, "gate") /\ UNCHANGED pipeVars
  /\ UNCHANGED <<workerFrame, iters, begun>>

\* Past the pause: stop, or begin an iteration.
WorkerGate(w) ==
  /\ wpc[w] = "gate"
  /\ \/ /\ stopped \/ ~running[w]
        /\ Leave(w)
        /\ UNCHANGED begun
     \/ /\ ~stopped /\ running[w]
        /\ iters[w] < IterBound
        /\ Goto(w, "call")
        /\ begun' = [begun EXCEPT ![w] = IF paused /\ @ < 2 THEN @ + 1 ELSE @]
        /\ UNCHANGED pipeVars
  /\ UNCHANGED <<workerFrame, iters>>

\* The script's function returns (or throws).
WorkerCall(w) ==
  /\ wpc[w] = "call"
  /\ Goto(w, "iteration")
  /\ UNCHANGED <<pipeVars, workerFrame, iters, begun>>

\* tx.send of the metric `iteration`.
SendIteration(w) ==
  /\ wpc[w] = "iteration"
  /\ Send(w)
  /\ Goto(w, "iteration_total")
  /\ UNCHANGED <<workerFrame, iters, begun>>

\* Faulty variant: the second metric bypasses the capacity of the channel.
SendIterationTotalForced(w) ==
  /\ wpc[w] = "iteration_total"
  /\ produced' = [produced EXCEPT ![w] = @ + 1]
  /\ channel' = Append(channel, [from |-> w, seq |-> produced[w] + 1])
  /\ iters' = [iters EXCEPT ![w] = @ + 1]
  /\ Goto(w, "limit")
  /\ UNCHANGED <<txVars, mergeVars, consumerVars, workerFrame, begun>>

\* tx.send of the metric `iteration_total`; the iteration counts.
SendIterationTotal(w) ==
  /\ wpc[w] = "iteration_total"
  /\ Send(w)
  /\ iters' = [iters EXCEPT ![w] = @ + 1]
  /\ Goto(w, "limit")
  /\ UNCHANGED <<workerFrame, begun>>

\* A worker that has done its config.iterations returns.
WorkerLimit(w) ==
  /\ wpc[w] = "limit"
  /\ IF MaxIterations > 0 /\ iters[w] >= MaxIterations
     THEN Leave(w)
     ELSE Goto(w, "head") /\ UNCHANGED pipeVars
  /\ UNCHANGED <<workerFrame, iters, begun>>

Worker(w) ==
  \/ WorkerInit(w) \/ WorkerHead(w) \/ WorkerGate(w) \/ WorkerCall(w)
  \/ SendIteration(w) \/ SendIterationTotal(w) \/ WorkerLimit(w)

-----------------------------------------------------------------------------
AggregatorStep(a) == Aggregate(a) /\ UNCHANGED <<memoryVars, runVars>>
MemoryStep == (UsageChanges \/ MonitorCheck) /\ UNCHANGED <<pipeVars, runVars>>

\* The run is over: every worker and the test thread have ended, and the
\* aggregators have, too, or wait for a tx that nobody uses any more.
Ended ==
  /\ epc = "returned"
  /\ \A w \in Workers : wpc[w] \in {"unborn", "exited"}
  /\ \A a \in Aggregators : Drained(a)
  /\ UNCHANGED vars

Next ==
  \/ \E c \in Commands : Command(c)
  \/ Engine
  \/ \E w \in Workers : Worker(w)
  \/ \E a \in Aggregators : AggregatorStep(a)
  \/ MemoryStep
  \/ Ended

\* The test thread and the aggregators are OS threads, the coroutines are
\* scheduled by `may`; an iteration of the script is assumed to end.
Fairness ==
  /\ WF_vars(Engine)
  /\ \A w \in Workers : WF_vars(Worker(w))
  /\ \A a \in Aggregators : WF_vars(AggregatorStep(a))
  /\ WF_vars(MonitorCheck /\ UNCHANGED <<pipeVars, runVars>>)

Spec == Init /\ [][Next]_vars /\ Fairness

-----------------------------------------------------------------------------
TypeOK ==
  /\ PipeTypeOK
  /\ MemoryTypeOK
  /\ epc \in {"top", "commands", "scale", "report", "merging", "sleep", "finish",
              "grace", "merge", "final", "done", "returned"}
  /\ cmds \in Seq(Commands) /\ issued \in 0 .. MaxCommands
  /\ {paused, stopped} \subseteq BOOLEAN
  /\ ran \in Int /\ pausing \in NoPause .. MaxPause
  /\ dyn \in Nat \cup {NoRamp}
  /\ active \in Seq(Workers) /\ nextId \in 1 .. MaxWorkers + 1
  /\ running \in [Workers -> BOOLEAN]
  /\ wpc \in [Workers -> {"unborn", "init", "head", "gate", "call", "iteration",
                          "iteration_total", "limit", "exited"}]
  /\ iters \in [Workers -> 0 .. IterBound]
  /\ begun \in [Workers -> 0 .. 2]
  /\ waited \in 0 .. GraceTicks

InPool(w) == \E i \in DOMAIN active : active[i] = w

\* The test thread can reach every worker that may still begin iterations:
\* a raised flag belongs to a worker of active_legacy_workers, so scaling down
\* and the final clean-up signal everybody (pop + running.store(false)).
NoOrphans == \A w \in Workers : running[w] => InPool(w)

\* Pause lets a worker that had passed the pause check begin one more
\* iteration, and no worker a second one before the next pause
\* (the pause loop at the head of the workers' iteration loop).
OneIterationPerPause == \A w \in Workers : begun[w] <= 1

\* One pass of the main loop brings the pool to a ramp command's target, up
\* or down, however many commands came in between.  Growing may be put off
\* while memory is high, but not by a throttle that has outlived its cause
\* (the legacy scaling block and the memory monitor's flags).
RampReached ==
  [][(Scale /\ dyn # NoRamp /\ (dyn < Len(active) \/ usage = "low" \/ ~memory_throttle)) =>
       (Len(active') = dyn \/ (Len(active') < dyn /\ nextId' > MaxWorkers))]_vars

\* A stop command ends the run with a report, whatever state of pausing,
\* ramping or back-pressure it meets, and after the end of a run no coroutine
\* stays behind, not even one that was paused or waited in tx.send.
StopEndsRun ==
  ((\E i \in DOMAIN cmds : cmds[i].op = "stop") \/ epc = "finish") ~>
    (epc = "returned" /\ \A w \in Workers : wpc[w] \in {"unborn", "exited"})

\* A run uses the metric path as MetricPipeline allows: tx only while it
\* holds one, within the capacity, merging shard by shard.
ImplementsPipeline == PipeSpec

-----------------------------------------------------------------------------
(* What documentation and comments say and the code does not do.           *)

\* "Wait time for active iterations to finish": the report is not merged
\* before the workers are done or the wait is over.
GracefulStopWaits ==
  epc = "merge" => \/ waited = GraceTicks
                   \/ \A w \in Workers : wpc[w] \notin {"call", "iteration", "iteration_total"}

\* "... so aggregator threads can detect channel close": they end with the run.
AggregatorsEnd ==
  (epc = "returned" /\ \A w \in Workers : wpc[w] \in {"unborn", "exited"}) ~>
    (\A a \in Aggregators : apc[a] = "exited")

\* "Ramp down": without a ramp command the pool follows the stages, also down.
StagesFollowed ==
  (epc = "sleep" /\ dyn = NoRamp) => Len(active) <= Target

\* "When system memory exceeds 85%, new worker spawning is paused".
ThrottledAboveWarn ==
  [][(monitoring /\ usage # "low" /\ MonitorCheck) => memory_throttle']_vars

\* "When memory exceeds 95%, existing workers are gradually stopped".
CriticalShedsWorkers ==
  \A k \in Workers :
    (usage = "critical" /\ Len(active) = k) ~>
      (usage # "critical" \/ Len(active) # k \/ stopped)
=============================================================================
