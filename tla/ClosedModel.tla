---------------------------- MODULE ClosedModel ----------------------------
(***************************************************************************)
(* One scenario of a multi-scenario run under a closed-model executor      *)
(* (engine/mod.rs): constant-workers, per-worker-iterations and            *)
(* shared-iterations.  The scenario thread starts all workers at once,     *)
(* polls until its duration is over, the run is stopped or the shared pool *)
(* is used up, lowers every worker's flag and joins the coroutines.        *)
(*                                                                         *)
(* Lowering the flags is one step: a worker reads its own flag only, so a  *)
(* flag lowered late is a worker that looks late.  The end of the duration *)
(* is an event.  The script and its metrics are the single step WorkerCall *)
(* (MetricPipeline models the metrics).                                    *)
(***************************************************************************)
EXTENDS Integers, FiniteSets

CONSTANTS
  Workers,     \* the workers of the scenario
  Limits,      \* values of scenario_config.iterations, besides None
  IterBound,   \* BOUND: iterations one worker begins
  MaxToggles   \* BOUND: pause and resume commands

NoLimit == -1

ASSUME ClosedModelAssumption ==
  /\ IsFiniteSet(Workers)
  /\ Limits \subseteq Nat
  /\ IterBound \in Nat
  /\ MaxToggles \in Nat

VARIABLES
  shared,      \* configuration: executor == SharedIterations
  iterations,  \* configuration: scenario_config.iterations, or NoLimit
  spc,      \* where the scenario thread is
  expired,  \* start_time.elapsed() >= scenario_duration
  paused,   \* ControlState.paused
  stopped,  \* ControlState.stopped
  toggles,  \* pause and resume commands so far (bound only)
  flag,     \* the running flag of each worker
  wpc,      \* where each worker is
  count,    \* iteration_count of each worker
  claims,   \* shared_iteration_counter
  executed  \* history: iterations finished by all workers

config == <<shared, iterations>>
control == <<config, expired, paused, stopped, toggles>>
vars == <<spc, control, flag, wpc, count, claims, executed>>

\* total_shared_iterations
Total == IF ~shared THEN 0
         ELSE IF iterations = NoLimit THEN 10 * Cardinality(Workers)
         ELSE iterations

Exited == {w \in Workers : wpc[w] = "exited"}

Init ==
  /\ shared \in BOOLEAN /\ iterations \in Limits \cup {NoLimit}
  /\ spc = "poll"
  /\ expired = FALSE /\ paused = FALSE /\ stopped = FALSE /\ toggles = 0
  /\ flag = [w \in Workers |-> TRUE]
  /\ wpc = [w \in Workers |-> "init"]
  /\ count = [w \in Workers |-> 0]
  /\ claims = 0 /\ executed = 0

-----------------------------------------------------------------------------
(* The run around the scenario: time, and the main loop's commands.        *)

TimeUp ==
  /\ ~expired
  /\ expired' = TRUE
  /\ UNCHANGED <<config, spc, paused, stopped, toggles, flag, wpc, count, claims, executed>>

TogglePause ==
  /\ toggles < MaxToggles
  /\ toggles' = toggles + 1
  /\ paused' = ~paused
  /\ UNCHANGED <<config, spc, expired, stopped, flag, wpc, count, claims, executed>>

StopRun ==
  /\ ~stopped
  /\ stopped' = TRUE
  /\ UNCHANGED <<config, spc, expired, paused, toggles, flag, wpc, count, claims, executed>>

-----------------------------------------------------------------------------
(* The scenario thread.                                                    *)

PoolUsedUp == shared /\ claims >= Total

\* Faulty variant: the pool counts as used up while its last claims are open.
PollEarly ==
  /\ spc = "poll"
  /\ expired \/ stopped \/ (shared /\ claims + Cardinality(Workers) >= Total)
  /\ spc' = "signal"
  /\ UNCHANGED <<control, flag, wpc, count, claims, executed>>

\* The 100 ms polling loop ends.
Poll ==
  /\ spc = "poll"
  /\ expired \/ stopped \/ PoolUsedUp
  /\ spc' = "signal"
  /\ UNCHANGED <<control, flag, wpc, count, claims, executed>>

\* Lower every flag.  The graceful stop after it waits for flags to be low:
\* they are, so it ends at its first look.
Signal ==
  /\ spc = "signal"
  /\ flag' = [w \in Workers |-> FALSE]
  /\ spc' = "join"
  /\ UNCHANGED <<control, wpc, count, claims, executed>>

\* Join every coroutine, without a time limit.
Join ==
  /\ spc = "join"
  /\ Exited = Workers
  /\ spc' = "complete"
  /\ UNCHANGED <<control, flag, wpc, count, claims, executed>>

Scenario == Poll \/ Signal \/ Join

-----------------------------------------------------------------------------
(* The worker coroutines.                                                  *)

Goto(w, pc) == wpc' = [wpc EXCEPT ![w] = pc]

\* Create the JS runtime and load the script; any failure ends the worker.
WorkerInit(w) ==
  /\ wpc[w] = "init"
  /\ Goto(w, "head") \/ Goto(w, "exited")
  /\ UNCHANGED <<spc, control, flag, count, claims, executed>>

\* Faulty variant: a paused worker does not look at its flag.
WorkerHeadDeaf(w) ==
  /\ wpc[w] = "head"
  /\ ~paused
  /\ Goto(w, IF flag[w] THEN "gate" ELSE "exited")
  /\ UNCHANGED <<spc, control, flag, count, claims, executed>>

\* Head of the loop: a low flag ends it, a pause holds it while the flag is up.
WorkerHead(w) ==
  /\ wpc[w] = "head"
  /\ \/ ~flag[w] /\ Goto(w, "exited")
     \/ flag[w] /\ ~paused /\ Goto(w, "gate")
  /\ UNCHANGED <<spc, control, flag, count, claims, executed>>

\* Past the pause: stop, or begin an iteration.
WorkerGate(w) ==
  /\ wpc[w] = "gate"
  /\ \/ (stopped \/ ~flag[w]) /\ Goto(w, "exited")
     \/ ~stopped /\ flag[w] /\ count[w] < IterBound /\ Goto(w, "call")
  /\ UNCHANGED <<spc, control, flag, count, claims, executed>>

\* The script's function returns or throws and its metrics are sent.
WorkerCall(w) ==
  /\ wpc[w] = "call"
  /\ count' = [count EXCEPT ![w] = @ + 1]
  /\ executed' = executed + 1
  /\ Goto(w, "limit")
  /\ UNCHANGED <<spc, control, flag, claims>>

\* Faulty variant: only one's own iterations are held against the pool.
WorkerLimitOwn(w) ==
  /\ wpc[w] = "limit"
  /\ claims' = IF shared THEN claims + 1 ELSE claims
  /\ Goto(w, IF shared /\ count[w] > Total THEN "exited" ELSE "head")
  /\ UNCHANGED <<spc, control, flag, count, executed>>

\* Faulty variant: the worker's limit is compared after one more iteration.
WorkerLimitLate(w) ==
  /\ wpc[w] = "limit"
  /\ claims' = IF shared THEN claims + 1 ELSE claims
  /\ Goto(w, IF \/ shared /\ claims >= Total
                \/ ~shared /\ iterations # NoLimit /\ count[w] > iterations
             THEN "exited" ELSE "head")
  /\ UNCHANGED <<spc, control, flag, count, executed>>

\* Faulty variant: the counter counts what is left of the pool, and wraps.
WorkerLimitWraps(w) ==
  /\ wpc[w] = "limit"
  /\ claims' = IF shared THEN claims - 1 ELSE claims
  /\ Goto(w, IF shared /\ Total + claims <= 0 THEN "exited" ELSE "head")
  /\ UNCHANGED <<spc, control, flag, count, executed>>

\* After the iteration: fetch_add on the shared counter and leave if the pool
\* was used up before, or leave at the worker's own limit.
WorkerLimit(w) ==
  /\ wpc[w] = "limit"
  /\ claims' = IF shared THEN claims + 1 ELSE claims
  /\ Goto(w, IF \/ shared /\ claims >= Total
                \/ ~shared /\ iterations # NoLimit /\ count[w] >= iterations
             THEN "exited" ELSE "head")
  /\ UNCHANGED <<spc, control, flag, count, executed>>

Worker(w) ==
  \/ WorkerInit(w) \/ WorkerHead(w) \/ WorkerGate(w)
  \/ WorkerCall(w) \/ WorkerLimit(w)

-----------------------------------------------------------------------------
Complete == spc = "complete" /\ UNCHANGED vars

Next ==
  \/ TimeUp \/ TogglePause \/ StopRun
  \/ Scenario
  \/ \E w \in Workers : Worker(w)
  \/ Complete

\* Time passes; threads and coroutines are scheduled; an iteration ends.
Fairness ==
  /\ WF_vars(TimeUp)
  /\ WF_vars(Scenario)
  /\ \A w \in Workers : WF_vars(Worker(w))

Spec == Init /\ [][Next]_vars /\ Fairness

-----------------------------------------------------------------------------
TypeOK ==
  /\ shared \in BOOLEAN /\ iterations \in Limits \cup {NoLimit}
  /\ spc \in {"poll", "signal", "join", "complete"}
  /\ expired \in BOOLEAN /\ paused \in BOOLEAN /\ stopped \in BOOLEAN
  /\ toggles \in 0 .. MaxToggles
  /\ flag \in [Workers -> BOOLEAN]
  /\ wpc \in [Workers -> {"init", "head", "gate", "call", "limit", "exited"}]
  /\ count \in [Workers -> Nat]
  /\ claims \in Nat /\ executed \in Nat

\* The shared pool is overdrawn by at most one iteration per worker: the
\* fetch_add that finds the pool used up is a worker's last.
Overdraw == shared => executed <= Total + Cardinality(Workers)

\* A worker runs no more than its own limit (iterations 0 is run once: the
\* limit is compared after the call).
OwnLimit ==
  (~shared /\ iterations # NoLimit) =>
    \A w \in Workers : count[w] <= IF iterations = 0 THEN 1 ELSE iterations

\* A scenario that ends neither by time nor by a stop has really run its pool:
\* no claim is counted before its iteration has finished.
PoolDrained ==
  (shared /\ spc = "complete" /\ ~expired /\ ~stopped) => executed >= Total

\* A scenario completes with no worker left, also one that is paused and never
\* resumed.
ScenarioCompletes == <>[](spc = "complete" /\ Exited = Workers)

-----------------------------------------------------------------------------
(* What documentation says and the code does not do.                       *)

\* "All workers share a pool of iterations | Fixed total iterations".
FixedTotal == shared => executed <= Total

\* "Each worker runs exactly 100 iterations", in a configuration that names no
\* duration (10 s then applies), whose script loads and that nobody stops.
ExactlyIterations ==
  (~shared /\ spc = "complete" /\ ~stopped) =>
    \A w \in Workers : count[w] > 0 => count[w] = iterations
=============================================================================
