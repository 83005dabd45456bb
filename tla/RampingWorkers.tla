--------------------------- MODULE RampingWorkers ---------------------------
(***************************************************************************)
(* One scenario under the ramping-workers executor (engine/mod.rs): once a *)
(* second the scenario thread moves the pool to the schedule's target,     *)
(* spawning workers or popping the youngest and lowering their flags, and  *)
(* sends the pool's size as the gauge `vus`.                               *)
(*                                                                         *)
(* One tick is one turn of the loop.  The script and its metrics are the   *)
(* single step WorkerCall.                                                 *)
(***************************************************************************)
EXTENDS Schedule, FiniteSets

CONSTANTS
  MaxWorkers,  \* BOUND: workers spawned in a behaviour
  Stages,      \* workers_schedule
  Duration,    \* scenario_duration: config.duration, or 10 s
  Iterations,  \* scenario_config.iterations, or NoLimit
  IterBound,   \* BOUND: iterations one worker begins
  MaxToggles   \* BOUND: pause and resume commands

NoLimit == -1
Workers == 1 .. MaxWorkers

ASSUME RampingAssumption ==
  /\ MaxWorkers \in Nat
  /\ IsSchedule(Stages)
  /\ Duration \in Nat
  /\ Iterations \in Nat \cup {NoLimit}
  /\ IterBound \in Nat /\ MaxToggles \in Nat

VARIABLES
  rpc,      \* where the scenario thread is
  elapsed,  \* ticks since start_time
  paused,   \* ControlState.paused
  stopped,  \* ControlState.stopped
  toggles,  \* pause and resume commands so far (bound only)
  active,   \* active_workers, the ids in spawn order
  nextId,   \* next_worker_id
  vus,      \* the last value of the gauge
  flag,     \* the running flag of each worker
  wpc,      \* where each worker is
  count     \* iteration_count of each worker

control == <<paused, stopped, toggles>>
pool    == <<active, nextId, vus>>
wvars   == <<wpc, count>>
vars    == <<rpc, elapsed, control, pool, flag, wvars>>

InPool(w) == \E i \in DOMAIN active : active[i] = w
Ended(w)  == wpc[w] \in {"unborn", "exited"}

Init ==
  /\ rpc = "loop" /\ elapsed = 0
  /\ paused = FALSE /\ stopped = FALSE /\ toggles = 0
  /\ active = <<>> /\ nextId = 1 /\ vus = 0
  /\ flag = [w \in Workers |-> FALSE]
  /\ wpc = [w \in Workers |-> "unborn"]
  /\ count = [w \in Workers |-> 0]

-----------------------------------------------------------------------------
(* The main loop's commands.                                               *)

TogglePause ==
  /\ toggles < MaxToggles
  /\ toggles' = toggles + 1
  /\ paused' = ~paused
  /\ UNCHANGED <<rpc, elapsed, stopped, pool, flag, wvars>>

StopRun ==
  /\ ~stopped
  /\ stopped' = TRUE
  /\ UNCHANGED <<rpc, elapsed, paused, toggles, pool, flag, wvars>>

-----------------------------------------------------------------------------
(* The scenario thread.                                                    *)

Target == CalculateTarget(Stages, elapsed)

LoopOver ==
  /\ rpc = "loop"
  /\ elapsed >= Duration \/ stopped
  /\ rpc' = "signal"
  /\ UNCHANGED <<elapsed, control, pool, flag, wvars>>

\* Too few workers: spawn the missing ones.
Grow ==
  /\ rpc = "loop" /\ elapsed < Duration /\ ~stopped
  /\ Len(active) < Target
  /\ LET missing == Target - Len(active)
         room    == MaxWorkers - nextId + 1
         k       == IF missing < room THEN missing ELSE room
         born    == nextId .. nextId + k - 1
     IN  /\ active' = active \o [i \in 1 .. k |-> nextId + i - 1]
         /\ nextId' = nextId + k
         /\ flag' = [w \in Workers |-> w \in born \/ flag[w]]
         /\ wpc' = [w \in Workers |-> IF w \in born THEN "init" ELSE wpc[w]]
  /\ vus' = Len(active')
  /\ rpc' = "sleep"
  /\ UNCHANGED <<elapsed, control, count>>

\* Faulty variant: popped workers keep their flag.
HoldForgets ==
  /\ rpc = "loop" /\ elapsed < Duration /\ ~stopped
  /\ Len(active) >= Target
  /\ active' = SubSeq(active, 1, Target)
  /\ vus' = Len(active')
  /\ rpc' = "sleep"
  /\ UNCHANGED <<elapsed, control, nextId, flag, wvars>>

\* Faulty variant: the gauge is sent the change of the pool's size.
HoldReportsChange ==
  /\ rpc = "loop" /\ elapsed < Duration /\ ~stopped
  /\ Len(active) >= Target
  /\ active' = SubSeq(active, 1, Target)
  /\ flag' = [w \in Workers |->
                flag[w] /\ \A i \in Target + 1 .. Len(active) : active[i] # w]
  /\ vus' = Target - Len(active)
  /\ rpc' = "sleep"
  /\ UNCHANGED <<elapsed, control, nextId, wvars>>

\* Enough workers: pop the youngest above the target and lower their flags.
Hold ==
  /\ rpc = "loop" /\ elapsed < Duration /\ ~stopped
  /\ Len(active) >= Target
  /\ active' = SubSeq(active, 1, Target)
  /\ flag' = [w \in Workers |->
                flag[w] /\ \A i \in Target + 1 .. Len(active) : active[i] # w]
  /\ vus' = Len(active')
  /\ rpc' = "sleep"
  /\ UNCHANGED <<elapsed, control, nextId, wvars>>

\* Faulty variant: time spent paused does not count.
SleepPauses ==
  /\ rpc = "sleep"
  /\ elapsed' = IF paused THEN elapsed ELSE elapsed + 1
  /\ rpc' = "loop"
  /\ UNCHANGED <<control, pool, flag, wvars>>

\* sleep(1 s)
Sleep ==
  /\ rpc = "sleep"
  /\ elapsed' = elapsed + 1
  /\ rpc' = "loop"
  /\ UNCHANGED <<control, pool, flag, wvars>>

\* Lower every flag of the pool; the graceful stop that follows finds them low
\* and ends at its first look.
Signal ==
  /\ rpc = "signal"
  /\ flag' = [w \in Workers |-> flag[w] /\ ~InPool(w)]
  /\ rpc' = "join"
  /\ UNCHANGED <<elapsed, control, pool, wvars>>

\* Join the workers still in the pool.
Join ==
  /\ rpc = "join"
  /\ \A w \in Workers : InPool(w) => wpc[w] = "exited"
  /\ rpc' = "complete"
  /\ UNCHANGED <<elapsed, control, pool, flag, wvars>>

Scenario == LoopOver \/ Grow \/ Hold \/ Sleep \/ Signal \/ Join

-----------------------------------------------------------------------------
(* The worker coroutines.                                                  *)

wframe == <<rpc, elapsed, control, pool, flag>>

Goto(w, pc) == wpc' = [wpc EXCEPT ![w] = pc]

\* Create the JS runtime and load the script; any failure ends the worker.
WorkerInit(w) ==
  /\ wpc[w] = "init"
  /\ Goto(w, "head") \/ Goto(w, "exited")
  /\ UNCHANGED <<wframe, count>>

\* Head of the loop: a low flag ends it, a pause holds it while the flag is up.
WorkerHead(w) ==
  /\ wpc[w] = "head"
  /\ \/ ~flag[w] /\ Goto(w, "exited")
     \/ flag[w] /\ ~paused /\ Goto(w, "gate")
  /\ UNCHANGED <<wframe, count>>

\* Past the pause: stop, or begin an iteration.
WorkerGate(w) ==
  /\ wpc[w] = "gate"
  /\ \/ (stopped \/ ~flag[w]) /\ Goto(w, "exited")
     \/ ~stopped /\ flag[w] /\ count[w] < IterBound /\ Goto(w, "call")
  /\ UNCHANGED <<wframe, count>>

\* The function returns, its metrics are sent; at its limit the worker leaves.
WorkerCall(w) ==
  /\ wpc[w] = "call"
  /\ count' = [count EXCEPT ![w] = @ + 1]
  /\ Goto(w, IF Iterations # NoLimit /\ count'[w] >= Iterations THEN "exited" ELSE "head")
  /\ UNCHANGED wframe

Worker(w) == WorkerInit(w) \/ WorkerHead(w) \/ WorkerGate(w) \/ WorkerCall(w)

-----------------------------------------------------------------------------
AllEnded == rpc = "complete" /\ (\A w \in Workers : Ended(w)) /\ UNCHANGED vars

Next ==
  \/ TogglePause \/ StopRun
  \/ Scenario
  \/ \E w \in Workers : Worker(w)
  \/ AllEnded

\* Threads and coroutines are scheduled; an iteration ends.
Fairness == WF_vars(Scenario) /\ \A w \in Workers : WF_vars(Worker(w))

Spec == Init /\ [][Next]_vars /\ Fairness

-----------------------------------------------------------------------------
TypeOK ==
  /\ rpc \in {"loop", "sleep", "signal", "join", "complete"}
  /\ elapsed \in 0 .. Duration
  /\ paused \in BOOLEAN /\ stopped \in BOOLEAN /\ toggles \in 0 .. MaxToggles
  /\ active \in Seq(Workers) /\ nextId \in 1 .. MaxWorkers + 1 /\ vus \in Nat
  /\ flag \in [Workers -> BOOLEAN]
  /\ wpc \in [Workers -> {"unborn", "init", "head", "gate", "call", "exited"}]
  /\ count \in [Workers -> Nat]

\* Every worker that may go on is one the scenario thread will signal and
\* join: popping a worker and lowering its flag go together.
NoOrphans == \A w \in Workers : flag[w] => InPool(w)

\* The scenario ends and so does every worker it ever spawned, popped or
\* paused.
EverybodyEnds == <>[](rpc = "complete" /\ \A w \in Workers : Ended(w))

-----------------------------------------------------------------------------
(* What documentation and comments say and the code does not do.           *)

\* "Wait for workers to finish".
NobodyLeft == rpc = "complete" => \A w \in Workers : Ended(w)

\* "Gradually adjust worker count through stages", in a scenario with stages
\* and no duration of its own.
AllStages == (rpc = "complete" /\ ~stopped) => elapsed >= ScheduleLength(Stages)
=============================================================================
