---------------------------- MODULE ArrivalRate ----------------------------
(***************************************************************************)
(* One scenario under an arrival-rate executor (engine/mod.rs,             *)
(* constant-arrival-rate and ramping-arrival-rate): a dispatcher hands     *)
(* iteration numbers to a pool of worker coroutines over a bounded channel *)
(* of twice the pool's size, and drops the number when the channel is full.*)
(*                                                                         *)
(* The rate only sets how long the dispatcher sleeps between two numbers   *)
(* (Schedule models CalculateRate), so it does not appear here; the end of *)
(* the duration and of the graceful stop are events.  The script and its   *)
(* metrics are the single step WorkerCall.                                 *)
(***************************************************************************)
EXTENDS Integers, Sequences, FiniteSets

CONSTANTS
  NumWorkers,   \* workers of the scenario
  Limits,       \* values of scenario_config.iterations, besides None
  MaxDispatch,  \* BOUND: iteration numbers dispatched
  MaxPauses     \* BOUND: pause commands

NoLimit == -1
NoNumber == -1

ASSUME ArrivalRateAssumption ==
  /\ NumWorkers \in Nat \ {0}
  /\ Limits \subseteq Nat
  /\ MaxDispatch \in Nat
  /\ MaxPauses \in Nat

Workers == 1 .. NumWorkers
Buffer  == 2 * NumWorkers   \* crossbeam_channel::bounded(workers * 2)

VARIABLES
  iterations, \* configuration: scenario_config.iterations, or NoLimit
  dpc,        \* where the scenario thread is
  next,       \* the handle it joins next
  expired,    \* start_time.elapsed() >= scenario_duration
  graceOver,  \* stop_start.elapsed() >= grace
  paused,     \* ControlState.paused
  pauses,     \* pause commands so far (bound only)
  stopped,    \* ControlState.stopped
  running,    \* the scenario's running flag
  sending,    \* iter_tx is alive
  queue,      \* iteration numbers in the channel
  counter,    \* iteration_counter
  started,    \* iterations_started
  dropped,    \* dropped_iterations
  completed,  \* iterations_completed
  reported,   \* the counters sent as metrics: what was read of each
  wpc,        \* where each worker is
  number,     \* the iteration number a worker runs, or NoNumber
  latest,     \* history: the greatest number taken from the channel
  begun       \* history: iterations a worker began since the last pause, up to 2

control  == <<iterations, expired, graceOver, paused, pauses, stopped>>
counters == <<counter, started, dropped>>
wvars    == <<wpc, number, latest, completed, begun>>
vars     == <<dpc, next, control, running, sending, queue, counters, reported, wvars>>

Exited == {w \in Workers : wpc[w] = "exited"}
Busy   == {w \in Workers : wpc[w] = "call"}

Init ==
  /\ iterations \in Limits \cup {NoLimit}
  /\ dpc = "dispatch" /\ next = 1
  /\ expired = FALSE /\ graceOver = FALSE
  /\ paused = FALSE /\ pauses = 0 /\ stopped = FALSE
  /\ running = TRUE /\ sending = TRUE
  /\ queue = <<>>
  /\ counter = 0 /\ started = 0 /\ dropped = 0 /\ completed = 0
  /\ reported = [started |-> 0, completed |-> 0, dropped |-> 0]
  /\ wpc = [w \in Workers |-> "init"]
  /\ number = [w \in Workers |-> NoNumber]
  /\ latest = NoNumber
  /\ begun = [w \in Workers |-> 0]

-----------------------------------------------------------------------------
(* The run around the scenario: time, and the main loop's commands.        *)

frame == <<iterations, dpc, next, running, sending, queue, counters, reported>>

TimeUp ==
  /\ ~expired
  /\ expired' = TRUE
  /\ UNCHANGED <<frame, graceOver, paused, pauses, stopped, wvars>>

GraceUp ==
  /\ dpc \in {"join", "joining"}
  /\ ~graceOver
  /\ graceOver' = TRUE
  /\ UNCHANGED <<frame, expired, paused, pauses, stopped, wvars>>

PauseRun ==
  /\ pauses < MaxPauses
  /\ pauses' = pauses + 1
  /\ paused' = TRUE
  /\ begun' = IF paused THEN begun ELSE [w \in Workers |-> 0]
  /\ UNCHANGED <<frame, expired, graceOver, stopped, wpc, number, latest, completed>>

ResumeRun ==
  /\ paused
  /\ paused' = FALSE
  /\ UNCHANGED <<frame, expired, graceOver, pauses, stopped, wvars>>

StopRun ==
  /\ ~stopped
  /\ stopped' = TRUE
  /\ UNCHANGED <<frame, expired, graceOver, paused, pauses, wvars>>

-----------------------------------------------------------------------------
(* The scenario thread.                                                    *)

Goes == ~expired /\ running /\ ~stopped

\* The dispatch loop is not entered again.
DispatchOver ==
  /\ dpc = "dispatch"
  /\ ~Goes
  /\ dpc' = "close"
  /\ UNCHANGED <<next, control, running, sending, queue, counters, reported, wvars>>

LimitReached(n) == iterations # NoLimit /\ n >= iterations

\* Faulty variant: a number that finds the channel full counts as started too.
DispatchCountsAll ==
  /\ dpc = "dispatch" /\ Goes /\ counter < MaxDispatch
  /\ IF Exited = Workers
     THEN dpc' = "close" /\ UNCHANGED <<queue, counters>>
     ELSE /\ started' = started + 1
          /\ IF Len(queue) < Buffer
             THEN queue' = Append(queue, counter) /\ UNCHANGED dropped
             ELSE dropped' = dropped + 1 /\ UNCHANGED queue
          /\ counter' = counter + 1
          /\ dpc' = IF LimitReached(counter') THEN "close" ELSE dpc
  /\ UNCHANGED <<next, control, running, sending, reported, wvars>>

\* Faulty variant: the newest number is served first.
DispatchNewestFirst ==
  /\ dpc = "dispatch" /\ Goes /\ counter < MaxDispatch
  /\ IF Exited = Workers
     THEN dpc' = "close" /\ UNCHANGED <<queue, counters>>
     ELSE /\ IF Len(queue) < Buffer
             THEN queue' = <<counter>> \o queue /\ started' = started + 1 /\ UNCHANGED dropped
             ELSE dropped' = dropped + 1 /\ UNCHANGED <<queue, started>>
          /\ counter' = counter + 1
          /\ dpc' = IF LimitReached(counter') THEN "close" ELSE dpc
  /\ UNCHANGED <<next, control, running, sending, reported, wvars>>

\* One turn of the loop: try_send the number; without receivers leave, else
\* count it as started or dropped, and leave at the iteration limit.
Dispatch ==
  /\ dpc = "dispatch" /\ Goes /\ counter < MaxDispatch
  /\ IF Exited = Workers
     THEN dpc' = "close" /\ UNCHANGED <<queue, counters>>
     ELSE /\ IF Len(queue) < Buffer
             THEN queue' = Append(queue, counter) /\ started' = started + 1 /\ UNCHANGED dropped
             ELSE dropped' = dropped + 1 /\ UNCHANGED <<queue, started>>
          /\ counter' = counter + 1
          /\ dpc' = IF LimitReached(counter') THEN "close" ELSE dpc
  /\ UNCHANGED <<next, control, running, sending, reported, wvars>>

\* Faulty variant: the sender goes, the flag stays up.
CloseKeepsRunning ==
  /\ dpc = "close"
  /\ sending' = FALSE
  /\ dpc' = "report"
  /\ UNCHANGED <<next, control, running, queue, counters, reported, wvars>>

\* running.store(false), drop(iter_tx).
Close ==
  /\ dpc = "close"
  /\ running' = FALSE
  /\ sending' = FALSE
  /\ dpc' = "report"
  /\ UNCHANGED <<next, control, queue, counters, reported, wvars>>

\* The three counters are read and sent as metrics, before the join.  Nobody
\* but this thread writes `started` and `dropped`, so the three reads are one
\* step, that of `completed`.
Report ==
  /\ dpc = "report"
  /\ reported' = [started |-> started, completed |-> completed, dropped |-> dropped]
  /\ dpc' = "join"
  /\ UNCHANGED <<next, control, running, sending, queue, counters, wvars>>

\* Faulty variant: one handle too many.
NextHandlePastEnd ==
  /\ dpc = "join"
  /\ IF next > NumWorkers + 1 THEN dpc' = "complete" /\ UNCHANGED next
     ELSE IF graceOver THEN next' = next + 1 /\ UNCHANGED dpc
     ELSE dpc' = "joining" /\ UNCHANGED next
  /\ UNCHANGED <<control, running, sending, queue, counters, reported, wvars>>

\* Next handle: join it while some of the grace period remains, else let go of it.
NextHandle ==
  /\ dpc = "join"
  /\ IF next > NumWorkers THEN dpc' = "complete" /\ UNCHANGED next
     ELSE IF graceOver THEN next' = next + 1 /\ UNCHANGED dpc
     ELSE dpc' = "joining" /\ UNCHANGED next
  /\ UNCHANGED <<control, running, sending, queue, counters, reported, wvars>>

\* Faulty variant: any worker's exit ends the join.
JoinedAny ==
  /\ dpc = "joining"
  /\ Exited # {}
  /\ next' = next + 1
  /\ dpc' = "join"
  /\ UNCHANGED <<control, running, sending, queue, counters, reported, wvars>>

\* handle.join() returns when the coroutine has ended.
Joined ==
  /\ dpc = "joining"
  /\ next \in Exited
  /\ next' = next + 1
  /\ dpc' = "join"
  /\ UNCHANGED <<control, running, sending, queue, counters, reported, wvars>>

Dispatcher == DispatchOver \/ Dispatch \/ Close \/ Report \/ NextHandle \/ Joined

-----------------------------------------------------------------------------
(* The worker coroutines.                                                  *)

wframe == <<dpc, next, control, running, sending, counters, reported>>

Goto(w, pc) == wpc' = [wpc EXCEPT ![w] = pc]

\* Create the JS runtime and load the script; any failure ends the worker.
WorkerInit(w) ==
  /\ wpc[w] = "init"
  /\ Goto(w, "head") \/ Goto(w, "exited")
  /\ UNCHANGED <<wframe, queue, number, latest, completed, begun>>

\* Head of the loop: the flag, the pause, and the flag and the stop again.
WorkerHead(w) ==
  /\ wpc[w] = "head"
  /\ \/ ~running /\ Goto(w, "exited")
     \/ running /\ ~paused /\ Goto(w, "gate")
  /\ UNCHANGED <<wframe, queue, number, latest, completed, begun>>

WorkerGate(w) ==
  /\ wpc[w] = "gate"
  /\ Goto(w, IF stopped \/ ~running THEN "exited" ELSE "recv")
  /\ UNCHANGED <<wframe, queue, number, latest, completed, begun>>

\* recv_timeout returns the oldest number.
WorkerTakes(w) ==
  /\ wpc[w] = "recv"
  /\ queue # <<>>
  /\ queue' = Tail(queue)
  /\ number' = [number EXCEPT ![w] = Head(queue)]
  /\ latest' = Head(queue)
  /\ begun' = [begun EXCEPT ![w] = IF paused /\ @ < 2 THEN @ + 1 ELSE @]
  /\ Goto(w, "call")
  /\ UNCHANGED <<wframe, completed>>

\* recv_timeout gives up after 100 ms, or the channel is closed and empty.
WorkerTakesNothing(w) ==
  /\ wpc[w] = "recv"
  /\ queue = <<>>
  /\ Goto(w, IF sending THEN "head" ELSE "exited")
  /\ UNCHANGED <<wframe, queue, number, latest, completed, begun>>

\* Faulty variant: a worker that has work goes straight for more.
WorkerCallGreedy(w) ==
  /\ wpc[w] = "call"
  /\ completed' = completed + 1
  /\ number' = [number EXCEPT ![w] = NoNumber]
  /\ Goto(w, "recv")
  /\ UNCHANGED <<wframe, queue, latest, begun>>

\* Faulty variant: an iteration that throws is not counted as completed.
WorkerCallThrows(w) ==
  /\ wpc[w] = "call"
  /\ completed' \in {completed, completed + 1}
  /\ number' = [number EXCEPT ![w] = NoNumber]
  /\ Goto(w, "head")
  /\ UNCHANGED <<wframe, queue, latest, begun>>

\* The script's function returns or throws, its metrics are sent, it counts.
WorkerCall(w) ==
  /\ wpc[w] = "call"
  /\ completed' = completed + 1
  /\ number' = [number EXCEPT ![w] = NoNumber]
  /\ Goto(w, "head")
  /\ UNCHANGED <<wframe, queue, latest, begun>>

WorkerElse(w) ==
  WorkerInit(w) \/ WorkerHead(w) \/ WorkerGate(w) \/ WorkerTakes(w) \/ WorkerTakesNothing(w)

-----------------------------------------------------------------------------
Ended == dpc = "complete" /\ Exited = Workers /\ UNCHANGED vars

Next ==
  \/ TimeUp \/ GraceUp \/ PauseRun \/ ResumeRun \/ StopRun
  \/ Dispatcher
  \/ \E w \in Workers : WorkerElse(w) \/ WorkerCall(w)
  \/ Ended

Scheduling ==
  /\ WF_vars(TimeUp)
  /\ WF_vars(GraceUp)
  /\ WF_vars(Dispatcher)
  /\ \A w \in Workers : WF_vars(WorkerElse(w))

CallsReturn == \A w \in Workers : WF_vars(WorkerCall(w))

\* Scripts that may run for ever.
HangingSpec == Init /\ [][Next]_vars /\ Scheduling

\* Scripts whose function returns.
Spec == HangingSpec /\ CallsReturn

-----------------------------------------------------------------------------
TypeOK ==
  /\ iterations \in Limits \cup {NoLimit}
  /\ dpc \in {"dispatch", "close", "report", "join", "joining", "complete"}
  /\ next \in 1 .. NumWorkers + 1
  /\ expired \in BOOLEAN /\ graceOver \in BOOLEAN /\ paused \in BOOLEAN
  /\ stopped \in BOOLEAN /\ running \in BOOLEAN /\ sending \in BOOLEAN
  /\ pauses \in 0 .. MaxPauses
  /\ queue \in Seq(Nat)
  /\ counter \in Nat /\ started \in Nat /\ dropped \in Nat /\ completed \in Nat
  /\ reported \in [started : Nat, completed : Nat, dropped : Nat]
  /\ wpc \in [Workers -> {"init", "head", "gate", "recv", "call", "exited"}]
  /\ number \in [Workers -> Nat \cup {NoNumber}]
  /\ latest \in Nat \cup {NoNumber}
  /\ begun \in [Workers -> 0 .. 2]

\* The three counters always explain every iteration number: it was dropped,
\* or it was started, and then it waits in the channel, is being run, or is
\* completed; whatever the script throws and whoever has left the pool.
Accounting ==
  /\ counter = started + dropped
  /\ started = Len(queue) + Cardinality(Busy) + completed

\* Numbers reach the script in the order of dispatch and no number twice:
\* what waits is newer than anything taken, and no two workers share one.
InOrder ==
  /\ \A i \in DOMAIN queue : queue[i] > latest
  /\ \A i, j \in DOMAIN queue : i < j => queue[i] < queue[j]
  /\ \A v, w \in Busy : number[v] = number[w] => v = w

\* The reported totals never claim more work than was handed out, although
\* workers go on while the counters are read one after the other.
ReportConsistent ==
  dpc \in {"join", "joining", "complete"} =>
    /\ reported.completed <= reported.started
    /\ reported.started + reported.dropped = counter

\* A paused worker that waits for a number when the pause begins may still
\* take one; it takes no second one.
OneIterationPerPause == \A w \in Workers : begun[w] <= 1

\* While the grace period lasts a scenario does not complete over workers
\* that still run.
NobodyLeftInGrace == (dpc = "complete" /\ ~graceOver) => Exited = Workers

\* A scenario completes and its workers end, also one that is paused and
\* never resumed and one whose workers all failed to start.
ScenarioCompletes == <>[](dpc = "complete" /\ Exited = Workers)

-----------------------------------------------------------------------------
(* What documentation and comments say and the code does not do.           *)

\* "available workers execute them.  If all workers are busy, iterations are
\* dropped (tracked as `dropped_iterations` metric)".
RunOrTracked ==
  (dpc = "complete" /\ Exited = Workers) => counter = completed + reported.dropped

\* "Join with timeout": the end of the grace period ends the join.
JoinTimesOut == (dpc = "joining" /\ graceOver) ~> dpc # "joining"
=============================================================================
