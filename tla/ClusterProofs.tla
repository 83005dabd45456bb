--------------------------- MODULE ClusterProofs ---------------------------
(***************************************************************************)
(* Proofs about Cluster, for every number of worker processes, tests, stop *)
(* commands and runtime threads and every capacity of the command channel, *)
(* with crashes and lost messages: what the controller may conclude from   *)
(* TestFinished, and which test a StopTest reaches.                        *)
(***************************************************************************)
EXTENDS Cluster, TLAPS

Commands == Tests \cup {StopCmd}
Messages == Tests \cup {Register}
RunState == {"none", "spawned", "running", "returned", "cleared", "over"}

\* The marks are no tests.
LEMMA Marks == NoTest \notin Tests /\ StopCmd \notin Tests /\ Register \notin Tests
  BY DEF Tests, NoTest, StopCmd, Register

-----------------------------------------------------------------------------
(* The elements of a queue.                                                *)

Elements(q) == {q[i] : i \in DOMAIN q}

\* No element of S is in the queue twice.
NoRepeats(q, S) == \A i, j \in DOMAIN q : q[i] = q[j] /\ q[i] \in S => i = j

\* What is appended to a queue joins its elements.
LEMMA AppendElements ==
  ASSUME NEW S, NEW q \in Seq(S), NEW e \in S, NEW R
  PROVE  /\ Append(q, e) \in Seq(S)
         /\ Elements(Append(q, e)) = Elements(q) \cup {e}
         /\ NoRepeats(q, R) /\ (e \in R => e \notin Elements(q)) => NoRepeats(Append(q, e), R)
  <1> DEFINE r == Append(q, e)
  <1>1. r \in Seq(S) /\ Len(r) = Len(q) + 1
    OBVIOUS
  <1>2. DOMAIN r = DOMAIN q \cup {Len(q) + 1} /\ Len(q) + 1 \notin DOMAIN q
    OBVIOUS
  <1>3. \A i \in DOMAIN q : r[i] = q[i]
    OBVIOUS
  <1>4. r[Len(q) + 1] = e
    OBVIOUS
  <1>5. Elements(r) = Elements(q) \cup {e}
    BY <1>2, <1>3, <1>4 DEF Elements
  <1>6. NoRepeats(q, R) /\ (e \in R => e \notin Elements(q)) => NoRepeats(r, R)
    BY <1>2, <1>3, <1>4 DEF Elements, NoRepeats
  <1> QED
    BY <1>1, <1>5, <1>6

\* What is taken from a queue is one of its elements, and the others stay.
LEMMA TailElements ==
  ASSUME NEW S, NEW q \in Seq(S), q # << >>, NEW R
  PROVE  /\ Tail(q) \in Seq(S)
         /\ Head(q) \in S
         /\ Elements(q) = Elements(Tail(q)) \cup {Head(q)}
         /\ NoRepeats(q, R) => /\ NoRepeats(Tail(q), R)
                               /\ Head(q) \in R => Head(q) \notin Elements(Tail(q))
  <1>1. Tail(q) \in Seq(S) /\ Head(q) \in S /\ Head(q) = q[1] /\ 1 \in DOMAIN q
    OBVIOUS
  <1>2. \A i \in DOMAIN Tail(q) : i + 1 \in DOMAIN q /\ i + 1 # 1 /\ Tail(q)[i] = q[i + 1]
    OBVIOUS
  <1>3. \A i \in DOMAIN q : i # 1 => i - 1 \in DOMAIN Tail(q) /\ Tail(q)[i - 1] = q[i]
    OBVIOUS
  <1>4. Elements(q) = Elements(Tail(q)) \cup {Head(q)}
    <2>1. \A x \in Elements(Tail(q)) : x \in Elements(q)
      BY <1>2 DEF Elements
    <2>2. ASSUME NEW i \in DOMAIN q, i # 1 PROVE q[i] \in Elements(Tail(q))
      <3>1. i - 1 \in DOMAIN Tail(q) /\ Tail(q)[i - 1] = q[i]
        BY <1>3, <2>2
      <3> QED
        BY <3>1 DEF Elements
    <2>3. Head(q) \in Elements(q)
      BY <1>1 DEF Elements
    <2> QED
      BY <1>1, <2>1, <2>2, <2>3 DEF Elements
  <1>5. ASSUME NoRepeats(q, R)
        PROVE  /\ NoRepeats(Tail(q), R)
               /\ Head(q) \in R => Head(q) \notin Elements(Tail(q))
    <2>1. \A i, j \in DOMAIN Tail(q) : i \in Int /\ (i + 1 = j + 1 => i = j)
      BY <1>1
    <2> QED
      BY <1>1, <1>2, <1>5, <2>1 DEF Elements, NoRepeats
  <1> QED
    BY <1>1, <1>4, <1>5

\* An empty queue has no elements.
LEMMA EmptyElements ==
  ASSUME NEW R
  PROVE  Elements(<< >>) = {} /\ NoRepeats(<< >>, R)
  BY DEF Elements, NoRepeats

-----------------------------------------------------------------------------
(* Type correctness.                                                       *)

\* The stream to the controller starts with the registration and carries no
\* other one, so what the controller takes for TestFinished is.
RegisterFirst ==
  \A c \in Conns :
    /\ node[c] = "unborn" => ctask[c] = "none" /\ up[c] = << >>
    /\ node[c] = "linked" => ctask[c] = "first" /\ up[c] = << >>
    /\ ctask[c] # "none" => c \in Trusted
    /\ \A i \in DOMAIN up[c] : up[c][i] = Register => i = 1 /\ ctask[c] = "first"

UpType == up \in [Conns -> Seq(Messages)]

TypeInv == TypeOK /\ UpType /\ RegisterFirst

LEMMA TypeInit == Init => TypeInv
  <1> SUFFICES ASSUME Init PROVE TypeInv
    OBVIOUS
  <1>1. tested \in 0 .. NumTests /\ stops \in 0 .. MaxStops
    BY ClusterAssumption DEF Init, ClusterAssumption
  <1>2. up \in [Conns -> Seq(Messages)] /\ down \in [Conns -> Seq(Commands)]
    BY DEF Init
  <1>3. run \in [Conns -> [Tests -> RunState]]
    BY DEF Init, RunState
  <1>4. reported \in [Conns -> SUBSET Tests] /\ ctl \in [Conns -> Tests \cup {NoTest}]
    BY DEF Init
  <1>5. TypeOK
    BY <1>1, <1>2, <1>3, <1>4 DEF Init, TypeOK, Messages, Commands, RunState
  <1>6. RegisterFirst
    BY DEF Init, RegisterFirst
  <1> QED
    BY <1>2, <1>5, <1>6 DEF TypeInv, UpType

\* What a step of the worker process or of a run changes has its type.
LEMMA TypeNode ==
  ASSUME TypeInv, NEW c \in Conns,
         \/ Connect(c) \/ ReceiveStart(c) \/ ReceiveStop(c) \/ NodeEnds(c)
         \/ NodeLeaves(c) \/ Crash(c)
         \/ \E t \in Tests : RunBegins(c, t) \/ RunEnds(c, t) \/ RunClears(c, t)
  PROVE  TypeInv'
  <1> USE DEF ctrlVars, nodeVars
  <1>1. UNCHANGED <<registry, tested, stops, reported, up, overlapped>>
    BY DEF Connect, ReceiveStart, ReceiveStop, NodeEnds, NodeLeaves, Crash,
           RunBegins, RunEnds, RunClears
  <1>2. /\ node' \in [Conns -> {"unborn", "linked", "up", "leaving", "dead"}]
        /\ ctask' \in [Conns -> {"none", "first", "serving", "ended"}]
    BY DEF Connect, ReceiveStart, ReceiveStop, NodeEnds, NodeLeaves, Crash,
           RunBegins, RunEnds, RunClears, Node, TypeInv, TypeOK
  <1>3. /\ down[c] \in Seq(Commands) /\ << >> \in Seq(Commands)
        /\ down[c] # << >> => Head(down[c]) \in Commands /\ Tail(down[c]) \in Seq(Commands)
    BY TailElements DEF TypeInv, TypeOK, Commands
  <1>4. down' \in [Conns -> Seq(Commands)]
    <2>1. \/ down' = down
          \/ down[c] # << >> /\ down' = [down EXCEPT ![c] = Tail(down[c])]
          \/ down' = [down EXCEPT ![c] = << >>]
      BY DEF Connect, ReceiveStart, ReceiveStop, NodeEnds, NodeLeaves, Crash,
             RunBegins, RunEnds, RunClears
    <2>2. down \in [Conns -> Seq(Commands)]
      BY DEF TypeInv, TypeOK, Commands
    <2> QED
      BY <1>3, <2>1, <2>2
  <1>5. ctl' \in [Conns -> Tests \cup {NoTest}]
    <2>1. \/ ctl' = ctl
          \/ ctl' = [ctl EXCEPT ![c] = NoTest]
          \/ /\ down[c] # << >> /\ Head(down[c]) # StopCmd
             /\ ctl' = [ctl EXCEPT ![c] = Head(down[c])]
      BY DEF Connect, ReceiveStart, ReceiveStop, NodeEnds, NodeLeaves, Crash,
             RunBegins, RunEnds, RunClears
    <2> QED
      BY <1>3, <2>1 DEF TypeInv, TypeOK, Commands
  <1>6. run' \in [Conns -> [Tests -> RunState]]
    <2>1. run \in [Conns -> [Tests -> RunState]]
      BY DEF TypeInv, TypeOK, RunState
    <2>2. CASE UNCHANGED run
      BY <2>1, <2>2
    <2>3. ASSUME NEW t \in Tests, NEW s \in RunState, Run(c, t, s) PROVE run' \in [Conns -> [Tests -> RunState]]
      BY <2>1, <2>3 DEF Run
    <2>4. ASSUME NEW f \in [Tests -> RunState], run' = [run EXCEPT ![c] = f]
          PROVE  run' \in [Conns -> [Tests -> RunState]]
      BY <2>1, <2>4
    <2>5. CASE NodeLeaves(c)
      <3> DEFINE f == [t \in Tests |-> IF run[c][t] = "spawned" THEN "over" ELSE run[c][t]]
      <3>1. f \in [Tests -> RunState]
        BY <2>1 DEF RunState
      <3> QED
        BY <2>4, <2>5, <3>1 DEF NodeLeaves
    <2>6. CASE Crash(c)
      <3> DEFINE f == [t \in Tests |-> IF run[c][t] = "none" THEN run[c][t] ELSE "over"]
      <3>1. f \in [Tests -> RunState]
        BY <2>1 DEF RunState
      <3> QED
        BY <2>4, <2>6, <3>1 DEF Crash
    <2>7. CASE ReceiveStart(c)
      BY <1>3, <2>3, <2>7 DEF ReceiveStart, Commands, RunState
    <2>8. CASE Connect(c) \/ ReceiveStop(c) \/ NodeEnds(c)
      BY <2>2, <2>8 DEF Connect, ReceiveStop, NodeEnds
    <2>9. ASSUME NEW t \in Tests, RunBegins(c, t) \/ RunEnds(c, t) \/ RunClears(c, t)
          PROVE  run' \in [Conns -> [Tests -> RunState]]
      BY <2>3, <2>9 DEF RunBegins, RunEnds, RunClears, RunState
    <2> QED
      BY <2>5, <2>6, <2>7, <2>8, <2>9
  <1>7. asked' \subseteq Conns \X Tests
    <2>1. ctl[c] # NoTest => <<c, ctl[c]>> \in Conns \X Tests
      BY DEF TypeInv, TypeOK
    <2>2. asked' = asked \/ (ctl[c] # NoTest /\ asked' = asked \cup {<<c, ctl[c]>>})
      BY DEF Connect, ReceiveStart, ReceiveStop, NodeEnds, NodeLeaves, Crash,
             RunBegins, RunEnds, RunClears
    <2> QED
      BY <2>1, <2>2 DEF TypeInv, TypeOK
  <1>8. TypeOK' /\ UpType'
    BY <1>1, <1>2, <1>4, <1>5, <1>6, <1>7 DEF TypeInv, TypeOK, UpType, Commands, RunState
  <1>9. RegisterFirst'
    <2> SUFFICES ASSUME NEW d \in Conns
                 PROVE  /\ node'[d] = "unborn" => ctask'[d] = "none" /\ up[d] = << >>
                        /\ node'[d] = "linked" => ctask'[d] = "first" /\ up[d] = << >>
                        /\ ctask'[d] # "none" => d \in Trusted
                        /\ \A i \in DOMAIN up[d] :
                             up[d][i] = Register => i = 1 /\ ctask'[d] = "first"
      BY <1>1 DEF RegisterFirst
    <2>1. /\ node[d] = "unborn" => ctask[d] = "none" /\ up[d] = << >>
          /\ node[d] = "linked" => ctask[d] = "first" /\ up[d] = << >>
          /\ ctask[d] # "none" => d \in Trusted
          /\ \A i \in DOMAIN up[d] : up[d][i] = Register => i = 1 /\ ctask[d] = "first"
      BY DEF TypeInv, RegisterFirst
    <2>2. CASE Connect(c)
      BY <2>1, <2>2 DEF Connect, Node, TypeInv, TypeOK
    <2>3. CASE ~Connect(c)
      <3>1. ctask' = ctask /\ (node'[d] \in {"unborn", "linked"} => node'[d] = node[d])
        BY <2>3 DEF ReceiveStart, ReceiveStop, NodeEnds, NodeLeaves, Crash,
                    RunBegins, RunEnds, RunClears, Node, TypeInv, TypeOK
      <3> QED
        BY <2>1, <3>1
    <2> QED
      BY <2>2, <2>3
  <1> QED
    BY <1>8, <1>9 DEF TypeInv

\* Messages sent, lost and received.
LEMMA TypeUp ==
  ASSUME TypeInv, NEW c \in Conns,
         \/ SendRegister(c) \/ Lose(c) \/ Registered(c) \/ Message(c)
         \/ \E t \in Tests : RunReports(c, t)
  PROVE  TypeInv'
  <1> USE DEF ctrlVars, nodeVars
  <1>1. UNCHANGED <<tested, stops, down, ctl, asked, overlapped>>
    BY DEF SendRegister, Lose, Registered, Message, RunReports
  <1>2. /\ up \in [Conns -> Seq(Messages)] /\ up[c] \in Seq(Messages)
        /\ Register \in Messages /\ Tests \subseteq Messages
    BY DEF TypeInv, UpType, Messages
  <1>3. /\ node[c] = "linked" => ctask[c] = "first" /\ up[c] = << >>
        /\ ctask[c] # "none" => c \in Trusted
        /\ \A i \in DOMAIN up[c] : up[c][i] = Register => i = 1 /\ ctask[c] = "first"
    BY DEF TypeInv, RegisterFirst
  <1>4. \A d \in Conns : d # c => node'[d] = node[d] /\ ctask'[d] = ctask[d] /\ up'[d] = up[d]
    BY DEF SendRegister, Lose, Registered, Message, RunReports, Node, Task, TypeInv, TypeOK, UpType
  <1> DEFINE Goal == /\ up'[c] \in Seq(Messages)
                     /\ node'[c] = "unborn" => ctask'[c] = "none" /\ up'[c] = << >>
                     /\ node'[c] = "linked" => ctask'[c] = "first" /\ up'[c] = << >>
                     /\ ctask'[c] # "none" => c \in Trusted
                     /\ \A i \in DOMAIN up'[c] :
                          up'[c][i] = Register => i = 1 /\ ctask'[c] = "first"
  <1>5. ASSUME SendRegister(c) PROVE Goal
    <2>1. /\ up'[c] = Append(<< >>, Register) /\ ctask'[c] = "first" /\ node'[c] = "up"
      BY <1>2, <1>3, <1>5 DEF SendRegister, Node, TypeInv, TypeOK
    <2>2. Append(<< >>, Register) = << Register >>
      OBVIOUS
    <2> QED
      BY <1>2, <1>3, <1>5, <2>1, <2>2 DEF SendRegister
  <1>6. ASSUME Lose(c) PROVE Goal
    BY <1>2, <1>3, <1>6 DEF Lose, TypeInv, TypeOK
  <1>7. ASSUME up[c] # << >> PROVE
          /\ Tail(up[c]) \in Seq(Messages) /\ Head(up[c]) \in Messages
          /\ Head(up[c]) = up[c][1] /\ 1 \in DOMAIN up[c]
          /\ \A i \in DOMAIN Tail(up[c]) : Tail(up[c])[i] # Register
    <2>1. \A i \in DOMAIN Tail(up[c]) :
            i + 1 \in DOMAIN up[c] /\ i + 1 # 1 /\ Tail(up[c])[i] = up[c][i + 1]
      BY <1>2, <1>7
    <2>2. \A i \in DOMAIN Tail(up[c]) : Tail(up[c])[i] # Register
      BY <1>3, <2>1
    <2> QED
      BY <1>2, <1>7, <2>2
  <1>8. ASSUME Registered(c) \/ Message(c) PROVE Goal
    <2>1. up'[c] = Tail(up[c]) /\ up[c] # << >> /\ node' = node /\ ctask[c] # "none"
      BY <1>2, <1>8 DEF Registered, Message
    <2>2. node[c] \notin {"unborn", "linked"}
      BY <2>1 DEF TypeInv, RegisterFirst
    <2> QED
      BY <1>3, <1>7, <2>1, <2>2
  <1>9. ASSUME NEW t \in Tests, RunReports(c, t) PROVE Goal
    <2>1. /\ node' = node /\ ctask' = ctask
          /\ up'[c] = up[c] \/ (node[c] = "up" /\ up'[c] = Append(up[c], t))
      BY <1>2, <1>9 DEF RunReports
    <2>2. CASE up'[c] = up[c]
      BY <1>2, <1>3, <2>1, <2>2 DEF TypeInv, RegisterFirst
    <2>3. CASE node[c] = "up" /\ up'[c] = Append(up[c], t)
      <3>1. /\ Append(up[c], t) \in Seq(Messages)
            /\ DOMAIN Append(up[c], t) = DOMAIN up[c] \cup {Len(up[c]) + 1}
            /\ Append(up[c], t)[Len(up[c]) + 1] = t
            /\ \A i \in DOMAIN up[c] : Append(up[c], t)[i] = up[c][i]
        BY <1>2
      <3> QED
        BY <1>3, <2>1, <2>3, <3>1, Marks
    <2> QED
      BY <2>1, <2>2, <2>3
  <1>10. Goal
    BY <1>5, <1>6, <1>8, <1>9
  <1>11. RegisterFirst'
    BY <1>4, <1>10 DEF TypeInv, RegisterFirst
  <1>12. UpType'
    <2>1. \E q : up' = [up EXCEPT ![c] = q]
      BY DEF SendRegister, Lose, Registered, Message, RunReports
    <2>2. PICK q : up' = [up EXCEPT ![c] = q]
      BY <2>1
    <2>3. up'[c] = q
      BY <1>2, <2>2
    <2> QED
      BY <1>2, <1>10, <2>2, <2>3 DEF UpType
  <1>13. /\ node' \in [Conns -> {"unborn", "linked", "up", "leaving", "dead"}]
         /\ ctask' \in [Conns -> {"none", "first", "serving", "ended"}]
    BY DEF SendRegister, Lose, Registered, Message, RunReports, Node, Task, TypeInv, TypeOK
  <1>14. registry' \subseteq Trusted
    BY <1>3 DEF SendRegister, Lose, Registered, Message, RunReports, TypeInv, TypeOK
  <1>15. reported' \in [Conns -> SUBSET Tests]
    <2>1. CASE Message(c)
      <3>1. Head(up[c]) \in Tests
        BY <1>3, <1>7, <2>1 DEF Message, Messages
      <3> QED
        BY <2>1, <3>1 DEF Message, TypeInv, TypeOK
    <2>2. CASE ~Message(c)
      BY <2>2 DEF SendRegister, Lose, Registered, RunReports, TypeInv, TypeOK
    <2> QED
      BY <2>1, <2>2
  <1>16. run' \in [Conns -> [Tests -> RunState]]
    <2>1. run \in [Conns -> [Tests -> RunState]] /\ "over" \in RunState
      BY DEF TypeInv, TypeOK, RunState
    <2>2. run' = run \/ \E t \in Tests : run' = [run EXCEPT ![c][t] = "over"]
      BY DEF SendRegister, Lose, Registered, Message, RunReports, Run
    <2> QED
      BY <2>1, <2>2
  <1> QED
    BY <1>1, <1>11, <1>12, <1>13, <1>14, <1>15, <1>16
       DEF TypeInv, TypeOK, UpType, Messages, RunState

\* The controller's other steps.
LEMMA TypeController ==
  ASSUME TypeInv, Dispatch \/ \E c \in Conns : Gone(c) \/ SendStop(c)
  PROVE  TypeInv'
  <1> USE DEF ctrlVars, nodeVars
  <1>1. UNCHANGED <<reported, up, node, ctl, run, asked>>
    BY DEF Dispatch, Gone, SendStop
  <1>2. down \in [Conns -> Seq(Commands)] /\ StopCmd \in Commands
    BY DEF TypeInv, TypeOK, Commands
  <1>3. CASE Dispatch
    <2>1. tested' \in 0 .. NumTests /\ tested + 1 \in Commands
      BY <1>3, ClusterAssumption DEF Dispatch, TypeInv, TypeOK, Commands, Tests, ClusterAssumption
    <2>2. \A d \in Conns : Append(down[d], tested + 1) \in Seq(Commands)
      BY <1>2, <2>1, AppendElements
    <2>3. down' \in [Conns -> Seq(Commands)]
      BY <1>2, <1>3, <2>2 DEF Dispatch
    <2>4. overlapped' \in BOOLEAN
      BY <1>3 DEF Dispatch, TypeInv, TypeOK
    <2> QED
      BY <1>1, <1>3, <2>1, <2>3, <2>4
         DEF Dispatch, TypeInv, TypeOK, UpType, RegisterFirst, Commands
  <1>4. ASSUME NEW c \in Conns, SendStop(c) PROVE TypeInv'
    <2>1. stops' \in 0 .. MaxStops
      BY <1>4, ClusterAssumption DEF SendStop, TypeInv, TypeOK, ClusterAssumption
    <2>2. Append(down[c], StopCmd) \in Seq(Commands)
      BY <1>2, AppendElements
    <2>3. down' \in [Conns -> Seq(Commands)]
      BY <1>2, <1>4, <2>2 DEF SendStop
    <2> QED
      BY <1>1, <1>4, <2>1, <2>3
         DEF SendStop, TypeInv, TypeOK, UpType, RegisterFirst, Commands
  <1>5. ASSUME NEW c \in Conns, Gone(c) PROVE TypeInv'
    <2>1. ctask' \in [Conns -> {"none", "first", "serving", "ended"}]
      BY <1>5 DEF Gone, Task, TypeInv, TypeOK
    <2>2. registry' \subseteq registry
      BY <1>5 DEF Gone
    <2>3. TypeOK' /\ UpType'
      BY <1>1, <1>5, <2>1, <2>2 DEF Gone, TypeInv, TypeOK, UpType
    <2>4. /\ ctask[c] # "none" /\ node[c] \notin {"linked", "up"} /\ up[c] = << >>
          /\ \A d \in Conns : d # c => ctask'[d] = ctask[d]
      BY <1>5 DEF Gone, Task, Linked, TypeInv, TypeOK
    <2>5. node[c] # "unborn"
      BY <2>4 DEF TypeInv, RegisterFirst
    <2>6. RegisterFirst'
      BY <1>1, <2>4, <2>5 DEF TypeInv, RegisterFirst
    <2> QED
      BY <2>3, <2>6 DEF TypeInv
  <1> QED
    BY <1>3, <1>4, <1>5

LEMMA TypeStep == TypeInv /\ [Next]_vars => TypeInv'
  <1>1. ASSUME TypeInv, UNCHANGED vars PROVE TypeInv'
    BY <1>1 DEF vars, ctrlVars, nodeVars, TypeInv, TypeOK, UpType, RegisterFirst
  <1> QED
    BY <1>1, TypeNode, TypeUp, TypeController DEF Next, NodeStep, RunStep, CtrlStep

\* Every reachable state has its type: only trusted processes are registered,
\* and the controller reports tests as finished, never the registration.
THEOREM TypeCorrect == Spec => []TypeOK
  <1>1. TypeInv => TypeOK
    BY DEF TypeInv
  <1> QED
    BY <1>1, TypeInit, TypeStep, PTL DEF Spec

-----------------------------------------------------------------------------
(* What a TestFinished means.                                              *)

\* A test is in a worker's queue once and before anything is known of it there,
\* and once it is reported, or on its way to be, the worker is done with it.
ReadyAt(c) ==
  /\ NoRepeats(down[c], Tests)
  /\ \A t \in Tests :
       /\ t \in Elements(down[c]) => t <= tested /\ run[c][t] = "none"
       /\ t > tested \/ node[c] = "unborn" => run[c][t] = "none"
       /\ run[c][t] = "cleared" => ctl[c] # t
       /\ t \in Elements(up[c]) \cup reported[c] => run[c][t] = "over" /\ ctl[c] # t

ReadyInv == \A c \in Conns : ReadyAt(c)

-----------------------------------------------------------------------------
(* Which test a StopTest reaches.                                          *)

\* The worker has the test, and the controller has not heard of its end.
Pending(c, t) ==
  \/ t \in Elements(down[c])
  \/ run[c][t] \in {"spawned", "running", "returned", "cleared"}
  \/ run[c][t] = "over" /\ t \notin reported[c] /\ Linked(c)

\* Without overlap a worker has one test at a time, and control_tx is its.
OneTestAt(c) ==
  /\ \A t, u \in Tests : Pending(c, t) /\ Pending(c, u) => t = u
  /\ \A t \in Tests : run[c][t] \in {"spawned", "running", "returned"} => ctl[c] = t

OneTestInv == ~overlapped => \A c \in Conns : OneTestAt(c)

-----------------------------------------------------------------------------
(* Both are kept by every step.                                            *)

Inv == TypeInv /\ ReadyInv /\ OneTestInv

Kept(c) == ReadyAt(c)' /\ (OneTestAt(c) => OneTestAt(c)')

LEMMA InvInit == Init => Inv
  <1> SUFFICES ASSUME Init, NEW c \in Conns PROVE ReadyAt(c) /\ OneTestAt(c)
    BY TypeInit DEF Inv, ReadyInv, OneTestInv
  <1>1. /\ down[c] = << >> /\ up[c] = << >> /\ reported[c] = {}
        /\ \A t \in Tests : run[c][t] = "none"
    BY DEF Init
  <1>2. Elements(down[c]) = {} /\ Elements(up[c]) = {} /\ NoRepeats(down[c], Tests)
    BY <1>1, EmptyElements
  <1> QED
    BY <1>1, <1>2 DEF ReadyAt, OneTestAt, Pending

\* A step that leaves a connection alone.
LEMMA KeptElsewhere ==
  ASSUME NEW d \in Conns, ReadyAt(d), tested' = tested,
         run'[d] = run[d], ctl'[d] = ctl[d], up'[d] = up[d], down'[d] = down[d],
         reported'[d] = reported[d], node'[d] = node[d]
  PROVE  Kept(d)
  BY DEF Kept, ReadyAt, OneTestAt, Pending, Linked

\* Only connection c is touched.
Touches(c) ==
  /\ tested' = tested /\ overlapped' = overlapped
  /\ \A d \in Conns : d # c =>
       /\ run'[d] = run[d] /\ ctl'[d] = ctl[d] /\ up'[d] = up[d] /\ down'[d] = down[d]
       /\ reported'[d] = reported[d] /\ node'[d] = node[d]

LEMMA InvLocal ==
  ASSUME Inv, NEW c \in Conns, Touches(c), Kept(c), TypeInv'
  PROVE  Inv'
  <1>1. \A d \in Conns : Kept(d)
    <2> SUFFICES ASSUME NEW d \in Conns, d # c PROVE Kept(d)
      OBVIOUS
    <2> QED
      BY KeptElsewhere DEF Touches, Inv, ReadyInv
  <1> QED
    BY <1>1 DEF Inv, ReadyInv, OneTestInv, Touches, Kept

\* The queue of a worker that takes a command from it.
LEMMA TakesCommand ==
  ASSUME TypeInv, NEW c \in Conns, ReadyAt(c), down[c] # << >>,
         down' = [down EXCEPT ![c] = Tail(@)]
  PROVE  /\ down'[c] = Tail(down[c])
         /\ Elements(down[c]) = Elements(down'[c]) \cup {Head(down[c])}
         /\ NoRepeats(down'[c], Tests)
         /\ Head(down[c]) \in Commands
         /\ Head(down[c]) \in Tests => Head(down[c]) \notin Elements(down'[c])
  <1>1. down[c] \in Seq(Commands) /\ down'[c] = Tail(down[c])
    BY DEF TypeInv, TypeOK, Commands
  <1> QED
    BY <1>1, TailElements DEF ReadyAt

LEMMA KeptReceiveStart ==
  ASSUME TypeInv, NEW c \in Conns, ReadyAt(c), ReceiveStart(c)
  PROVE  Touches(c) /\ Kept(c)
  <1> DEFINE h == Head(down[c])
  <1>1. /\ Elements(down[c]) = Elements(down'[c]) \cup {h}
        /\ NoRepeats(down'[c], Tests)
        /\ h \in Tests /\ h \notin Elements(down'[c])
    BY TakesCommand DEF ReceiveStart, Commands
  <1>2. /\ tested' = tested /\ overlapped' = overlapped /\ up' = up
        /\ reported' = reported /\ node' = node
        /\ run' = [run EXCEPT ![c][h] = "spawned"] /\ ctl' = [ctl EXCEPT ![c] = h]
        /\ down' = [down EXCEPT ![c] = Tail(@)]
    BY DEF ReceiveStart, ctrlVars, Run
  <1> HIDE DEF h
  <1>3. Touches(c)
    BY <1>2 DEF Touches, TypeInv, TypeOK
  <1>4. /\ ctl'[c] = h /\ run'[c][h] = "spawned"
        /\ \A t \in Tests : t # h => run'[c][t] = run[c][t]
    BY <1>1, <1>2 DEF TypeInv, TypeOK
  <1>5. run[c][h] = "none" /\ h <= tested
    BY <1>1 DEF ReadyAt
  <1>6. ReadyAt(c)'
    <2>1. /\ \A t \in Tests : t \in Elements(down'[c]) => t <= tested /\ run'[c][t] = "none"
          /\ \A t \in Tests : run'[c][t] = "cleared" => ctl'[c] # t
          /\ \A t \in Tests : t \in Elements(up[c]) \cup reported[c] =>
                                run'[c][t] = "over" /\ ctl'[c] # t
      BY <1>1, <1>4, <1>5 DEF ReadyAt
    <2>2. \A t \in Tests : t > tested => t # h
      BY <1>1, <1>5 DEF TypeInv, TypeOK, Tests
    <2>3. \A t \in Tests : t > tested \/ node'[c] = "unborn" => run'[c][t] = "none"
      BY <1>2, <1>4, <2>2 DEF ReadyAt, ReceiveStart
    <2> QED
      BY <1>1, <1>2, <2>1, <2>3 DEF ReadyAt
  <1>7. ASSUME OneTestAt(c) PROVE OneTestAt(c)'
    <2>1. Pending(c, h) /\ \A t \in Tests : Pending(c, t)' => Pending(c, t)
      BY <1>1, <1>2, <1>4, <1>5 DEF Pending, Linked
    <2>2. \A t \in Tests : Pending(c, t) => t = h
      BY <1>1, <1>7, <2>1 DEF OneTestAt
    <2>3. \A t \in Tests : run'[c][t] \in {"spawned", "running", "returned"} => t = h
      BY <2>1, <2>2 DEF Pending
    <2> QED
      BY <1>4, <2>1, <2>2, <2>3 DEF OneTestAt
  <1> QED
    BY <1>3, <1>6, <1>7 DEF Kept

LEMMA KeptReceiveStop ==
  ASSUME TypeInv, NEW c \in Conns, ReadyAt(c), ReceiveStop(c)
  PROVE  Touches(c) /\ Kept(c)
  <1>1. /\ Elements(down'[c]) \subseteq Elements(down[c])
        /\ NoRepeats(down'[c], Tests)
    BY TakesCommand DEF ReceiveStop
  <1>2. /\ UNCHANGED <<tested, overlapped, up, reported, node, run, ctl>>
        /\ down' = [down EXCEPT ![c] = Tail(@)]
    BY DEF ReceiveStop, ctrlVars
  <1> QED
    BY <1>1, <1>2 DEF Touches, Kept, ReadyAt, OneTestAt, Pending, Linked, TypeInv, TypeOK

\* A run begins, ends and clears control_tx.
LEMMA KeptRun ==
  ASSUME TypeInv, NEW c \in Conns, ReadyAt(c), NEW t \in Tests,
         RunBegins(c, t) \/ RunEnds(c, t) \/ RunClears(c, t)
  PROVE  Touches(c) /\ Kept(c)
  <1>1. PICK s \in {"running", "returned", "cleared"} : run' = [run EXCEPT ![c][t] = s]
    BY DEF RunBegins, RunEnds, RunClears, Run
  <1>2. /\ UNCHANGED <<tested, overlapped, up, down, reported, node>>
        /\ run[c][t] \in {"spawned", "running", "returned"}
    BY DEF RunBegins, RunEnds, RunClears, ctrlVars
  <1>3. /\ run'[c][t] = s /\ \A u \in Tests : u # t => run'[c][u] = run[c][u]
        /\ \A d \in Conns : d # c => run'[d] = run[d]
    BY <1>1 DEF TypeInv, TypeOK
  <1>4. /\ \/ ctl' = ctl /\ s # "cleared"
           \/ ctl' = [ctl EXCEPT ![c] = NoTest] /\ run'[c][t] = "cleared"
    BY <1>3 DEF RunBegins, RunEnds, RunClears, Run, TypeInv, TypeOK
  <1>5. /\ \A d \in Conns : d # c => ctl'[d] = ctl[d]
        /\ \/ ctl'[c] = ctl[c] /\ s # "cleared"
           \/ ctl'[c] = NoTest /\ s = "cleared"
    BY <1>3, <1>4 DEF TypeInv, TypeOK
  <1>6. Touches(c)
    BY <1>2, <1>3, <1>5 DEF Touches
  <1>7. ReadyAt(c)'
    BY <1>2, <1>3, <1>5, Marks DEF ReadyAt
  <1>8. ASSUME OneTestAt(c) PROVE OneTestAt(c)'
    <2>1. Pending(c, t) /\ \A u \in Tests : Pending(c, u)' => Pending(c, u)
      BY <1>2, <1>3 DEF Pending, Linked
    <2>2. \A u \in Tests : Pending(c, u) => u = t
      BY <1>8, <2>1 DEF OneTestAt
    <2>3. ctl[c] = t
      BY <1>2, <1>8 DEF OneTestAt
    <2>4. \A u \in Tests : run'[c][u] \in {"spawned", "running", "returned"} => u = t
      BY <1>3, <2>2 DEF Pending
    <2> QED
      BY <1>3, <1>5, <2>1, <2>2, <2>3, <2>4 DEF OneTestAt
  <1> QED
    BY <1>6, <1>7, <1>8 DEF Kept

\* TestFinished is sent, and goes nowhere when there is no stream.
LEMMA KeptRunReports ==
  ASSUME TypeInv, NEW c \in Conns, ReadyAt(c), NEW t \in Tests, RunReports(c, t)
  PROVE  Touches(c) /\ Kept(c)
  <1>1. /\ UNCHANGED <<tested, overlapped, down, reported, node, ctl>>
        /\ run[c][t] = "cleared" /\ run' = [run EXCEPT ![c][t] = "over"]
    BY DEF RunReports, Run, ctrlVars
  <1>2. /\ run'[c][t] = "over" /\ \A u \in Tests : u # t => run'[c][u] = run[c][u]
        /\ \A d \in Conns : d # c => run'[d] = run[d]
    BY <1>1 DEF TypeInv, TypeOK
  <1>3. /\ up'[c] \in {up[c], Append(up[c], t)} /\ up[c] \in Seq(Messages) /\ t \in Messages
        /\ \A d \in Conns : d # c => up'[d] = up[d]
    BY DEF RunReports, TypeInv, UpType, Messages
  <1>4. Elements(up'[c]) \subseteq Elements(up[c]) \cup {t}
    BY <1>3, AppendElements
  <1>5. Touches(c)
    BY <1>1, <1>2, <1>3 DEF Touches
  <1>6. ReadyAt(c)'
    BY <1>1, <1>2, <1>4 DEF ReadyAt
  <1>7. ASSUME OneTestAt(c) PROVE OneTestAt(c)'
    <2>1. \A u \in Tests : Pending(c, u)' => Pending(c, u)
      BY <1>1, <1>2 DEF Pending, Linked
    <2> QED
      BY <1>1, <1>2, <1>7, <2>1 DEF OneTestAt
  <1> QED
    BY <1>5, <1>6, <1>7 DEF Kept

\* A process leaves or dies with what it had.
LEMMA KeptLeaves ==
  ASSUME TypeInv, NEW c \in Conns, ReadyAt(c), NodeLeaves(c) \/ Crash(c)
  PROVE  Touches(c) /\ Kept(c)
  <1>1. /\ UNCHANGED <<tested, overlapped, up, reported, ctl>>
        /\ down' = [down EXCEPT ![c] = << >>]
        /\ node'[c] \in {"leaving", "dead"}
        /\ \A d \in Conns : d # c => node'[d] = node[d]
    BY DEF NodeLeaves, Crash, Node, ctrlVars, TypeInv, TypeOK
  <1>2. /\ \A t \in Tests : \/ run'[c][t] = run[c][t]
                            \/ run'[c][t] = "over" /\ run[c][t] # "none"
        /\ \A d \in Conns : d # c => run'[d] = run[d]
    BY DEF NodeLeaves, Crash, TypeInv, TypeOK
  <1>3. down'[c] = << >> /\ \A d \in Conns : d # c => down'[d] = down[d]
    BY <1>1 DEF TypeInv, TypeOK
  <1>4. Elements(down'[c]) = {} /\ NoRepeats(down'[c], Tests)
    BY <1>3, EmptyElements
  <1>5. Touches(c)
    BY <1>1, <1>2, <1>3 DEF Touches
  <1>6. ReadyAt(c)'
    BY <1>1, <1>2, <1>4 DEF ReadyAt
  <1>7. ASSUME OneTestAt(c) PROVE OneTestAt(c)'
    <2>1. \A u \in Tests : Pending(c, u)' => Pending(c, u)
      BY <1>1, <1>2, <1>4 DEF Pending, Linked
    <2>2. \A t \in Tests : run'[c][t] \in {"spawned", "running", "returned"} =>
                             run[c][t] = run'[c][t]
      BY <1>2
    <2> QED
      BY <1>1, <1>7, <2>1, <2>2 DEF OneTestAt
  <1> QED
    BY <1>5, <1>6, <1>7 DEF Kept

\* Messages other than TestFinished's sending, and the process's own life.
LEMMA KeptStream ==
  ASSUME TypeInv, NEW c \in Conns, ReadyAt(c),
         \/ Connect(c) \/ SendRegister(c) \/ NodeEnds(c) \/ Lose(c)
         \/ Registered(c) \/ Message(c) \/ Gone(c)
  PROVE  Touches(c) /\ Kept(c)
  <1> USE DEF ctrlVars, nodeVars
  <1>1. UNCHANGED <<tested, overlapped, down, ctl, run>>
    BY DEF Connect, SendRegister, NodeEnds, Lose, Registered, Message, Gone
  <1>2. /\ up[c] \in Seq(Messages) /\ Register \in Messages
        /\ up \in [Conns -> Seq(Messages)]
    BY DEF TypeInv, UpType, Messages
  <1>3. /\ \/ up'[c] \in {up[c], << >>, Append(up[c], Register)}
           \/ up[c] # << >> /\ up'[c] = Tail(up[c])
        /\ \A d \in Conns : d # c => up'[d] = up[d]
    BY <1>2 DEF Connect, SendRegister, NodeEnds, Lose, Registered, Message, Gone
  <1>4. Elements(up'[c]) \subseteq Elements(up[c]) \cup {Register}
    <2>1. Elements(<< >>) = {}
      BY EmptyElements
    <2>2. Elements(Append(up[c], Register)) = Elements(up[c]) \cup {Register}
      BY <1>2, AppendElements
    <2>3. up[c] # << >> => Elements(Tail(up[c])) \subseteq Elements(up[c])
      BY <1>2, TailElements
    <2> QED
      BY <1>3, <2>1, <2>2, <2>3
  <1>5. /\ reported'[c] \subseteq reported[c] \cup Elements(up[c])
        /\ reported[c] \subseteq reported'[c]
        /\ \A d \in Conns : d # c => reported'[d] = reported[d]
    <2>1. up[c] # << >> => Head(up[c]) \in Elements(up[c])
      BY <1>2, TailElements
    <2> QED
      BY <2>1 DEF Connect, SendRegister, NodeEnds, Lose, Registered, Message, Gone, TypeInv, TypeOK
  <1>6. /\ \A d \in Conns : d # c => node'[d] = node[d]
        /\ node'[c] = "unborn" => node[c] = "unborn"
        /\ node'[c] \in {"linked", "up"} => node[c] \in {"unborn", "linked", "up"}
    BY DEF Connect, SendRegister, NodeEnds, Lose, Registered, Message, Gone, Node, TypeInv, TypeOK
  <1>7. Touches(c)
    BY <1>1, <1>3, <1>5, <1>6 DEF Touches
  <1>8. ReadyAt(c)'
    BY <1>1, <1>4, <1>5, <1>6, Marks DEF ReadyAt
  <1>9. \A t \in Tests : Pending(c, t)' => Pending(c, t)
    BY <1>1, <1>5, <1>6 DEF Pending, Linked, ReadyAt
  <1>10. OneTestAt(c) => OneTestAt(c)'
    BY <1>1, <1>9 DEF OneTestAt
  <1> QED
    BY <1>7, <1>8, <1>10 DEF Kept

LEMMA KeptSendStop ==
  ASSUME TypeInv, NEW c \in Conns, ReadyAt(c), SendStop(c)
  PROVE  Touches(c) /\ Kept(c)
  <1>1. /\ UNCHANGED <<tested, overlapped, up, reported, node, ctl, run>>
        /\ down' = [down EXCEPT ![c] = Append(@, StopCmd)]
    BY DEF SendStop, nodeVars
  <1>2. /\ down[c] \in Seq(Commands) /\ StopCmd \in Commands
        /\ down'[c] = Append(down[c], StopCmd)
        /\ \A d \in Conns : d # c => down'[d] = down[d]
    BY <1>1 DEF TypeInv, TypeOK, Commands
  <1>3. Elements(down'[c]) = Elements(down[c]) \cup {StopCmd} /\ NoRepeats(down'[c], Tests)
    BY <1>2, AppendElements, Marks DEF ReadyAt
  <1> QED
    BY <1>1, <1>2, <1>3, Marks DEF Touches, Kept, ReadyAt, OneTestAt, Pending, Linked

\* A dispatch goes to every registered worker whose queue takes it.
LEMMA InvDispatch ==
  ASSUME Inv, TypeInv', Dispatch
  PROVE  Inv'
  <1> DEFINE n == tested + 1
  <1>1. /\ UNCHANGED <<up, reported, node, ctl, run>> /\ tested' = n
        /\ overlapped' = (overlapped \/ \E d \in Conns : ~Idle(d))
    BY DEF Dispatch, nodeVars
  <1>2. n \in Tests /\ n \in Commands /\ tested \in Int /\ n > tested
    BY ClusterAssumption DEF Dispatch, Inv, TypeInv, TypeOK, Commands, Tests, ClusterAssumption
  <1>3. \A t \in Tests : t \in Int
    BY DEF Tests
  <1>4. ASSUME NEW c \in Conns
        PROVE  ReadyAt(c)' /\ (~overlapped' => OneTestAt(c)')
    <2>1. ReadyAt(c) /\ (~overlapped => OneTestAt(c)) /\ down[c] \in Seq(Commands)
      BY <1>4 DEF Inv, ReadyInv, OneTestInv, TypeInv, TypeOK, Commands
    <2>2. n \notin Elements(down[c]) /\ run[c][n] = "none"
      BY <1>2, <1>3, <2>1 DEF ReadyAt
    <2>3. CASE down'[c] = down[c]
      <3>1. ReadyAt(c)'
        BY <1>1, <1>2, <1>3, <2>1, <2>3 DEF ReadyAt
      <3>2. OneTestAt(c) => OneTestAt(c)'
        BY <1>1, <2>3 DEF OneTestAt, Pending, Linked
      <3> QED
        BY <1>1, <2>1, <3>1, <3>2
    <2>4. CASE Linked(c) /\ down'[c] = Append(down[c], n)
      <3>1. Elements(down'[c]) = Elements(down[c]) \cup {n} /\ NoRepeats(down'[c], Tests)
        BY <1>2, <2>1, <2>2, <2>4, AppendElements DEF ReadyAt
      <3>2. ReadyAt(c)'
        <4> SUFFICES ASSUME NEW t \in Tests
                     PROVE  /\ t \in Elements(down'[c]) => t <= n /\ run[c][t] = "none"
                            /\ t > n => t > tested
          BY <1>1, <2>1, <3>1 DEF ReadyAt
        <4> QED
          BY <1>2, <1>3, <2>1, <2>2, <3>1 DEF ReadyAt
      <3>3. ASSUME ~overlapped' PROVE OneTestAt(c)'
        <4>1. Idle(c)
          BY <1>1, <3>3
        <4>2. \A t \in Tests : t \notin Elements(down[c])
          BY <4>1, Marks DEF Idle, Elements
        <4>3. \A t \in Tests : run[c][t] = "none" \/ (run[c][t] = "over" /\ t \in reported[c])
          BY <2>1, <2>4, <4>1 DEF Idle, ReadyAt
        <4>4. \A t \in Tests : Pending(c, t)' => t = n
          BY <1>1, <3>1, <4>2, <4>3 DEF Pending
        <4> QED
          BY <1>1, <4>3, <4>4 DEF OneTestAt
      <3> QED
        BY <3>2, <3>3
    <2>5. down'[c] = down[c] \/ (Linked(c) /\ down'[c] = Append(down[c], n))
      BY <1>4 DEF Dispatch, Accepts
    <2> QED
      BY <2>3, <2>4, <2>5
  <1> QED
    BY <1>4 DEF Inv, ReadyInv, OneTestInv

LEMMA InvStep == Inv /\ [Next]_vars => Inv'
  <1> SUFFICES ASSUME Inv, [Next]_vars PROVE Inv'
    OBVIOUS
  <1>1. TypeInv /\ TypeInv' /\ \A c \in Conns : ReadyAt(c)
    BY TypeStep DEF Inv, ReadyInv
  <1>2. ASSUME NEW c \in Conns, NodeStep(c) \/ NodeLeaves(c) \/ Crash(c) \/ Lose(c) PROVE Inv'
    <2>1. Touches(c) /\ Kept(c)
      BY <1>1, <1>2, KeptStream, KeptReceiveStart, KeptReceiveStop, KeptLeaves DEF NodeStep
    <2> QED
      BY <1>1, <2>1, InvLocal
  <1>3. ASSUME NEW c \in Conns, NEW t \in Tests, RunStep(c, t) PROVE Inv'
    <2>1. Touches(c) /\ Kept(c)
      BY <1>1, <1>3, KeptRun, KeptRunReports DEF RunStep
    <2> QED
      BY <1>1, <2>1, InvLocal
  <1>4. ASSUME NEW c \in Conns, CtrlStep(c) \/ SendStop(c) PROVE Inv'
    <2>1. Touches(c) /\ Kept(c)
      BY <1>1, <1>4, KeptStream, KeptSendStop DEF CtrlStep
    <2> QED
      BY <1>1, <2>1, InvLocal
  <1>5. CASE Dispatch
    BY <1>1, <1>5, InvDispatch
  <1>6. CASE UNCHANGED vars
    <2>1. \A c \in Conns : Kept(c)
      BY <1>1, <1>6, KeptElsewhere DEF vars, ctrlVars, nodeVars
    <2>2. overlapped' = overlapped
      BY <1>6 DEF vars, ctrlVars
    <2> QED
      BY <1>1, <2>1, <2>2 DEF Kept, Inv, ReadyInv, OneTestInv
  <1> QED
    BY <1>2, <1>3, <1>4, <1>5, <1>6 DEF Next

\* When the controller has heard of a test's end, the worker holds nothing of
\* it: its run is over and control_tx is free or another test's.
THEOREM FinishedIsFinal == Spec => []FinishedMeansReady
  <1>1. Inv => FinishedMeansReady
    BY DEF Inv, ReadyInv, ReadyAt, TypeInv, TypeOK, FinishedMeansReady
  <1> QED
    BY <1>1, InvInit, InvStep, PTL DEF Spec

\* While tests do not overlap, a StopTest reaches the test that runs.
THEOREM StopReachesTest == Spec => []StopFindsTest
  <1>1. Inv => StopFindsTest
    <2> SUFFICES ASSUME Inv, ~overlapped, NEW c \in Conns, NEW t \in Live(c)
                 PROVE  ctl[c] \in Live(c)
      BY DEF StopFindsTest
    <2>1. OneTestAt(c) /\ t \in Tests /\ run[c][t] \in {"spawned", "running"}
      BY DEF Inv, OneTestInv, Live
    <2>2. ctl[c] = t
      BY <2>1 DEF OneTestAt
    <2> QED
      BY <2>2
  <1> QED
    BY <1>1, InvInit, InvStep, PTL DEF Spec

=============================================================================
