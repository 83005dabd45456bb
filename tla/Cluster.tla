------------------------------ MODULE Cluster ------------------------------
(***************************************************************************)
(* Distributed mode: the controller's register stream, worker registry and *)
(* dispatch (cluster/mod.rs), and the worker process that connects to it,  *)
(* runs the tests it is sent and stops them (engine/distributed.rs).       *)
(*                                                                         *)
(* A worker process that loses its stream ends, and a new process takes a  *)
(* new uuid, so an element of Conns is a process, its connection and its   *)
(* id at once.  Each direction of the stream is a FIFO that a broken       *)
(* connection empties at any time.  A run of a test is one activity here   *)
(* (LoadTest models it): it ends by itself or at its Stop command.         *)
(***************************************************************************)
EXTENDS Integers, Sequences, FiniteSets

CONSTANTS
  Conns,       \* worker processes
  Trusted,     \* those that present the controller's cluster token
  NumTests,    \* BOUND: tests dispatched
  MaxStops,    \* BOUND: StopTest commands (this repository's controller sends none)
  CmdCap,      \* mpsc::channel(100) of commands to one worker
  Threads      \* worker threads of a worker process's tokio runtime

ASSUME ClusterAssumption ==
  /\ IsFiniteSet(Conns)
  /\ Trusted \subseteq Conns
  /\ NumTests \in Nat /\ MaxStops \in Nat
  /\ CmdCap \in Nat \ {0} /\ Threads \in Nat \ {0}

Tests   == 1 .. NumTests
NoTest  == 0
StopCmd  == -1             \* commands: a test's number is its StartTest
Register == -2             \* messages: a test's number is its TestFinished

VARIABLES
  ctask,     \* the controller's task for each connection
  registry,  \* WorkerRegistry
  tested,    \* tests dispatched so far
  stops,     \* StopTest commands sent so far (bound only)
  reported,  \* tests whose TestFinished arrived, by connection
  node,      \* the worker process
  up,        \* messages on their way to the controller
  down,      \* commands on their way to the worker
  ctl,       \* control_tx: the test it stops, or NoTest
  run,       \* what has become of each test on each worker
  asked,     \* runs whose Stop command is in their queue
  overlapped \* history: a test was dispatched before the one before it was reported finished

ctrlVars == <<ctask, registry, tested, stops, reported, overlapped>>
nodeVars == <<node, ctl, run, asked>>
vars     == <<ctrlVars, up, down, nodeVars>>

Running(c) == {t \in Tests : run[c][t] = "running"}
Live(c)    == {t \in Tests : run[c][t] \in {"spawned", "running"}}

\* A run blocks the runtime thread it is on; while none is left nobody serves
\* the connection.
Served(c) == Cardinality(Running(c)) < Threads

Linked(c) == node[c] \in {"linked", "up"}

Init ==
  /\ ctask = [c \in Conns |-> "none"]
  /\ registry = {} /\ tested = 0 /\ stops = 0
  /\ reported = [c \in Conns |-> {}]
  /\ node = [c \in Conns |-> "unborn"]
  /\ up = [c \in Conns |-> <<>>] /\ down = [c \in Conns |-> <<>>]
  /\ ctl = [c \in Conns |-> NoTest]
  /\ run = [c \in Conns |-> [t \in Tests |-> "none"]]
  /\ asked = {} /\ overlapped = FALSE

-----------------------------------------------------------------------------
(* The worker process.                                                     *)

Node(c, s) == node' = [node EXCEPT ![c] = s]
Run(c, t, s) == run' = [run EXCEPT ![c][t] = s]

\* Faulty variant: the token is not looked at.
ConnectUnchecked(c) ==
  /\ node[c] = "unborn"
  /\ Node(c, "linked")
  /\ ctask' = [ctask EXCEPT ![c] = "first"]
  /\ UNCHANGED <<overlapped, registry, tested, stops, reported, up, down,
                 ctl, run, asked>>

\* client.register(..): check_auth, then the controller spawns the stream's
\* task and answers at once.  A refused process ends.
Connect(c) ==
  /\ node[c] = "unborn"
  /\ IF c \in Trusted
     THEN Node(c, "linked") /\ ctask' = [ctask EXCEPT ![c] = "first"]
     ELSE Node(c, "dead") /\ UNCHANGED ctask
  /\ UNCHANGED <<overlapped, registry, tested, stops, reported, up, down,
                 ctl, run, asked>>

\* tx.send(RegisterRequest)
SendRegister(c) ==
  /\ node[c] = "linked"
  /\ Node(c, "up")
  /\ up' = [up EXCEPT ![c] = Append(@, Register)]
  /\ UNCHANGED <<ctrlVars, down, ctl, run, asked>>

\* Faulty variant: the sender of the control channel is not stored.
ReceiveStartNoControl(c) ==
  /\ node[c] = "up" /\ Served(c)
  /\ down[c] # <<>> /\ Head(down[c]) # StopCmd
  /\ down' = [down EXCEPT ![c] = Tail(@)]
  /\ Run(c, Head(down[c]), "spawned")
  /\ UNCHANGED <<ctrlVars, up, node, ctl, asked>>

\* StartTest: a control channel replaces the one there was, a task is spawned.
ReceiveStart(c) ==
  /\ node[c] = "up" /\ Served(c)
  /\ down[c] # <<>> /\ Head(down[c]) # StopCmd
  /\ down' = [down EXCEPT ![c] = Tail(@)]
  /\ ctl' = [ctl EXCEPT ![c] = Head(down[c])]
  /\ Run(c, Head(down[c]), "spawned")
  /\ UNCHANGED <<ctrlVars, up, node, asked>>

\* StopTest: Stop to the control channel, or "No test currently running".
ReceiveStop(c) ==
  /\ node[c] = "up" /\ Served(c)
  /\ down[c] # <<>> /\ Head(down[c]) = StopCmd
  /\ down' = [down EXCEPT ![c] = Tail(@)]
  /\ asked' = IF ctl[c] # NoTest THEN asked \cup {<<c, ctl[c]>>} ELSE asked
  /\ UNCHANGED <<ctrlVars, up, node, ctl, run>>

\* A runtime thread takes the task up and stays in run_load_test.
RunBegins(c, t) ==
  /\ node[c] = "up" /\ Served(c)
  /\ run[c][t] = "spawned"
  /\ Run(c, t, "running")
  /\ UNCHANGED <<ctrlVars, up, down, node, ctl, asked>>

\* Faulty variant: a failed run returns early and is not reported.
RunEndsQuietly(c, t) ==
  /\ run[c][t] = "running"
  /\ Run(c, t, "over")
  /\ ctl' = [ctl EXCEPT ![c] = NoTest]
  /\ UNCHANGED <<ctrlVars, up, down, node, asked>>

\* run_load_test returns (at its end, or because it was asked to stop).
RunEnds(c, t) ==
  /\ run[c][t] = "running"
  /\ Run(c, t, "returned")
  /\ UNCHANGED <<ctrlVars, up, down, node, ctl, asked>>

\* Faulty variant: TestFinished goes out before the control sender is cleared.
RunClearsLate(c, t) ==
  /\ run[c][t] = "returned"
  /\ Run(c, t, "cleared")
  /\ up' = [up EXCEPT ![c] = IF node[c] = "up" THEN Append(@, t) ELSE @]
  /\ UNCHANGED <<ctrlVars, down, node, ctl, asked>>

\* *control_tx = None, whichever test it is for.
RunClears(c, t) ==
  /\ run[c][t] = "returned"
  /\ Run(c, t, "cleared")
  /\ ctl' = [ctl EXCEPT ![c] = NoTest]
  /\ UNCHANGED <<ctrlVars, up, down, node, asked>>

\* TestFinished is sent; without a stream it goes nowhere.
RunReports(c, t) ==
  /\ run[c][t] = "cleared"
  /\ Run(c, t, "over")
  /\ up' = [up EXCEPT ![c] = IF node[c] = "up" THEN Append(@, t) ELSE @]
  /\ UNCHANGED <<ctrlVars, down, node, ctl, asked>>

\* The command loop ends with its stream.  Dropping the runtime drops tasks
\* that have not begun and waits for the threads that are in a run.
NodeLeaves(c) ==
  /\ Linked(c)
  /\ Node(c, "leaving")
  /\ down' = [down EXCEPT ![c] = <<>>]
  /\ run' = [run EXCEPT ![c] = [t \in Tests |-> IF @[t] = "spawned" THEN "over" ELSE @[t]]]
  /\ UNCHANGED <<ctrlVars, up, ctl, asked>>

NodeEnds(c) ==
  /\ node[c] = "leaving"
  /\ \A t \in Tests : run[c][t] \in {"none", "over"}
  /\ Node(c, "dead")
  /\ UNCHANGED <<ctrlVars, up, down, ctl, run, asked>>

\* The process is killed.
Crash(c) ==
  /\ node[c] \in {"linked", "up", "leaving"}
  /\ Node(c, "dead")
  /\ down' = [down EXCEPT ![c] = <<>>]
  /\ run' = [run EXCEPT ![c] = [t \in Tests |-> IF @[t] = "none" THEN @[t] ELSE "over"]]
  /\ UNCHANGED <<ctrlVars, up, ctl, asked>>

\* What was under way on a dead or abandoned stream may be lost.
Lose(c) ==
  /\ node[c] \in {"leaving", "dead"}
  /\ up[c] # <<>>
  /\ up' = [up EXCEPT ![c] = <<>>]
  /\ UNCHANGED <<ctrlVars, down, nodeVars>>

-----------------------------------------------------------------------------
(* The controller.                                                         *)

Task(c, s) == ctask' = [ctask EXCEPT ![c] = s]

\* The first message must be the registration.
Registered(c) ==
  /\ ctask[c] = "first"
  /\ up[c] # <<>>
  /\ up' = [up EXCEPT ![c] = Tail(@)]
  /\ IF Head(up[c]) = Register
     THEN Task(c, "serving") /\ registry' = registry \cup {c}
     ELSE Task(c, "ended") /\ UNCHANGED registry
  /\ UNCHANGED <<overlapped, tested, stops, reported, down, nodeVars>>

\* Later messages: TestFinished is printed.
Message(c) ==
  /\ ctask[c] = "serving"
  /\ up[c] # <<>>
  /\ up' = [up EXCEPT ![c] = Tail(@)]
  /\ reported' = [reported EXCEPT ![c] = @ \cup {Head(up[c])}]
  /\ UNCHANGED <<overlapped, ctask, registry, tested, stops, down, nodeVars>>

\* Faulty variant: the task ends without removing the worker.
GoneUnnoticed(c) ==
  /\ ctask[c] \in {"first", "serving"}
  /\ ~Linked(c) /\ up[c] = <<>>
  /\ Task(c, "ended")
  /\ UNCHANGED <<overlapped, registry, tested, stops, reported, up, down, nodeVars>>

\* The stream ends: the worker is removed if it was registered.
Gone(c) ==
  /\ ctask[c] \in {"first", "serving"}
  /\ ~Linked(c) /\ up[c] = <<>>
  /\ Task(c, "ended")
  /\ registry' = IF ctask[c] = "serving" THEN registry \ {c} ELSE registry
  /\ UNCHANGED <<overlapped, tested, stops, reported, up, down, nodeVars>>

Idle(c) ==
  /\ \A i \in DOMAIN down[c] : down[c][i] = StopCmd
  /\ \A t \in Tests : run[c][t] = "none" \/ t \in reported[c] \/ ~Linked(c)

\* try_send succeeds while the queue has room; once the stream is gone the
\* queue takes nothing any more.
Accepts(c) == Linked(c) /\ Len(down[c]) < CmdCap

\* dispatch_test_to_workers, under the registry's read lock.
Dispatch ==
  /\ tested < NumTests
  /\ registry # {}
  /\ overlapped' = (overlapped \/ \E c \in Conns : ~Idle(c))
  /\ tested' = tested + 1
  /\ down' = [c \in Conns |-> IF c \in registry /\ Accepts(c)
                              THEN Append(down[c], tested + 1) ELSE down[c]]
  /\ UNCHANGED <<ctask, registry, stops, reported, up, nodeVars>>

\* A StopTest command to a registered worker.
SendStop(c) ==
  /\ stops < MaxStops
  /\ c \in registry /\ Accepts(c)
  /\ stops' = stops + 1
  /\ down' = [down EXCEPT ![c] = Append(@, StopCmd)]
  /\ UNCHANGED <<overlapped, ctask, registry, tested, reported, up, nodeVars>>

-----------------------------------------------------------------------------
NodeStep(c) ==
  Connect(c) \/ SendRegister(c) \/ ReceiveStart(c) \/ ReceiveStop(c) \/ NodeEnds(c)
RunStep(c, t) == RunBegins(c, t) \/ RunEnds(c, t) \/ RunClears(c, t) \/ RunReports(c, t)
CtrlStep(c) == Registered(c) \/ Message(c) \/ Gone(c)

Next ==
  \/ \E c \in Conns : NodeStep(c) \/ NodeLeaves(c) \/ Crash(c) \/ Lose(c)
  \/ \E c \in Conns, t \in Tests : RunStep(c, t)
  \/ \E c \in Conns : CtrlStep(c) \/ SendStop(c)
  \/ Dispatch

\* Tasks are scheduled and a run ends; nobody has to dispatch, stop, or break.
Fairness ==
  /\ \A c \in Conns : WF_vars(NodeStep(c)) /\ WF_vars(CtrlStep(c))
  /\ \A c \in Conns, t \in Tests : WF_vars(RunStep(c, t))

Spec == Init /\ [][Next]_vars /\ Fairness

-----------------------------------------------------------------------------
TypeOK ==
  /\ ctask \in [Conns -> {"none", "first", "serving", "ended"}]
  /\ registry \subseteq Trusted
  /\ tested \in 0 .. NumTests /\ stops \in 0 .. MaxStops
  /\ reported \in [Conns -> SUBSET Tests]
  /\ node \in [Conns -> {"unborn", "linked", "up", "leaving", "dead"}]
  /\ \A c \in Conns : up[c] \in Seq(Tests \cup {Register})
  /\ down \in [Conns -> Seq(Tests \cup {StopCmd})]
  /\ ctl \in [Conns -> Tests \cup {NoTest}]
  /\ run \in [Conns -> [Tests -> {"none", "spawned", "running", "returned", "cleared", "over"}]]
  /\ asked \subseteq Conns \X Tests
  /\ overlapped \in BOOLEAN

\* As long as tests are dispatched one after the other, a StopTest finds the
\* test a worker has: while one has been started and has not returned,
\* control_tx belongs to it (the clearing that follows a test never hits the
\* next one).
StopFindsTest == ~overlapped => \A c \in Conns : Live(c) # {} => ctl[c] \in Live(c)

\* The controller hears of a test's end only when the worker is ready for the
\* next one: nothing of the old run is left to interfere.
FinishedMeansReady ==
  \A c \in Conns : \A t \in reported[c] : run[c][t] = "over" /\ ctl[c] # t

\* A test a live worker was sent is reported finished, or its process is lost.
TestReported ==
  \A c \in Conns, t \in Tests :
    (run[c][t] # "none") ~> (t \in reported[c] \/ node[c] \in {"leaving", "dead"})

\* A worker that is gone does not stay registered, so later dispatches count
\* live workers only.
GoneUnregistered ==
  \A c \in Conns : (node[c] = "dead") ~> [](c \notin registry)

-----------------------------------------------------------------------------
(* What comments and messages say and the code does not do.                *)

\* "Create control channel for graceful stop": every running test can be
\* stopped, also one dispatched before the end of another.
EveryTestStoppable == \A c \in Conns : Live(c) # {} => ctl[c] \in Live(c)
=============================================================================
