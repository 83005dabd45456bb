------------------------- MODULE ArrivalRateProofs -------------------------
(***************************************************************************)
(* Proofs about ArrivalRate, for every number of workers (and so every     *)
(* size of the channel) and every iteration limit: the counters, the order *)
(* of the numbers, pauses, and the join.                                   *)
(***************************************************************************)
EXTENDS ArrivalRate, FiniteSetTheorems, TLAPS

-----------------------------------------------------------------------------
\* What a turn of the dispatch loop does to the channel and the counters: it
\* finds no receiver, or hands the number out, or drops it.
LEMMA DispatchCases ==
  ASSUME Dispatch
  PROVE  /\ dpc' \in {"dispatch", "close"}
         /\ \/ UNCHANGED <<queue, counter, started, dropped>>
            \/ /\ queue' = Append(queue, counter) /\ started' = started + 1
               /\ dropped' = dropped /\ counter' = counter + 1
            \/ /\ queue' = queue /\ started' = started
               /\ dropped' = dropped + 1 /\ counter' = counter + 1
         /\ UNCHANGED <<next, control, running, sending, reported, wvars>>
  <1>1. CASE Exited = Workers
    BY <1>1 DEF Dispatch, counters
  <1>2. CASE Exited # Workers /\ Len(queue) < Buffer
    BY <1>2 DEF Dispatch
  <1>3. CASE Exited # Workers /\ ~(Len(queue) < Buffer)
    BY <1>3 DEF Dispatch
  <1> QED
    BY <1>1, <1>2, <1>3

-----------------------------------------------------------------------------
(* Type correctness.                                                       *)

LEMMA TypeInit == Init => TypeOK
  <1> SUFFICES ASSUME Init PROVE TypeOK
    OBVIOUS
  <1> USE ArrivalRateAssumption DEF ArrivalRateAssumption
  <1>1. next \in 1 .. NumWorkers + 1 /\ pauses \in 0 .. MaxPauses
    BY DEF Init
  <1>2. wpc \in [Workers -> {"init", "head", "gate", "recv", "call", "exited"}]
    BY DEF Init
  <1>3. number \in [Workers -> Nat \cup {NoNumber}] /\ begun \in [Workers -> 0 .. 2]
    BY DEF Init
  <1>4. queue \in Seq(Nat) /\ reported \in [started : Nat, completed : Nat, dropped : Nat]
    BY DEF Init
  <1> QED
    BY <1>1, <1>2, <1>3, <1>4 DEF Init, TypeOK

LEMMA TypeStep == TypeOK /\ [Next]_vars => TypeOK'
  <1> SUFFICES ASSUME TypeOK, [Next]_vars PROVE TypeOK'
    OBVIOUS
  <1> USE ArrivalRateAssumption
      DEF ArrivalRateAssumption, control, counters, wvars, frame, wframe
  <1>1. CASE TimeUp \/ GraceUp \/ ResumeRun \/ StopRun
    BY <1>1 DEF TimeUp, GraceUp, ResumeRun, StopRun, TypeOK
  <1>2. CASE PauseRun
    <2>1. pauses' \in 0 .. MaxPauses /\ begun' \in [Workers -> 0 .. 2]
      BY <1>2 DEF PauseRun, TypeOK
    <2> QED
      BY <1>2, <2>1 DEF PauseRun, TypeOK
  <1>3. CASE DispatchOver \/ Close
    BY <1>3 DEF DispatchOver, Close, TypeOK
  <1>4. CASE Dispatch
    <2> DEFINE longer == Append(queue, counter)
    <2>1. longer \in Seq(Nat)
      BY DEF TypeOK
    <2>2. queue' \in {queue, longer}
      BY <1>4, DispatchCases
    <2> HIDE DEF longer
    <2>3. queue' \in Seq(Nat)
      BY <2>1, <2>2 DEF TypeOK
    <2>4. /\ counter' \in {counter, counter + 1}
          /\ started' \in {started, started + 1}
          /\ dropped' \in {dropped, dropped + 1}
      BY <1>4, DispatchCases
    <2>5. dpc' \in {"dispatch", "close"}
          /\ UNCHANGED <<next, control, running, sending, reported, wvars>>
      BY <1>4, DispatchCases
    <2> QED
      BY <2>3, <2>4, <2>5 DEF TypeOK
  <1>5. CASE Report
    BY <1>5 DEF Report, TypeOK
  <1>6. CASE NextHandle
    <2>1. next' \in 1 .. NumWorkers + 1 /\ dpc' \in {"join", "joining", "complete"}
      BY <1>6 DEF NextHandle, TypeOK
    <2> QED
      BY <1>6, <2>1 DEF NextHandle, TypeOK
  <1>7. CASE Joined
    <2>1. next \in 1 .. NumWorkers
      BY <1>7 DEF Joined, Exited, Workers
    <2> QED
      BY <1>7, <2>1 DEF Joined, TypeOK
  <1>8. ASSUME NEW w \in Workers, WorkerInit(w) \/ WorkerHead(w) \/ WorkerGate(w) PROVE TypeOK'
    <2>1. wpc' \in [Workers -> {"init", "head", "gate", "recv", "call", "exited"}]
      BY <1>8 DEF WorkerInit, WorkerHead, WorkerGate, Goto, TypeOK
    <2>2. UNCHANGED <<wframe, queue, number, latest, completed, begun>>
      BY <1>8 DEF WorkerInit, WorkerHead, WorkerGate
    <2> QED
      BY <2>1, <2>2 DEF TypeOK
  <1>9. ASSUME NEW w \in Workers, WorkerTakes(w) PROVE TypeOK'
    <2>1. Head(queue) \in Nat /\ Tail(queue) \in Seq(Nat)
      BY <1>9 DEF WorkerTakes, TypeOK
    <2>2. begun' \in [Workers -> 0 .. 2]
      BY <1>9 DEF WorkerTakes, TypeOK
    <2>3. number' \in [Workers -> Nat \cup {NoNumber}]
      BY <1>9, <2>1 DEF WorkerTakes, TypeOK
    <2>4. wpc' \in [Workers -> {"init", "head", "gate", "recv", "call", "exited"}]
      BY <1>9 DEF WorkerTakes, Goto, TypeOK
    <2> QED
      BY <1>9, <2>1, <2>2, <2>3, <2>4 DEF WorkerTakes, TypeOK
  <1>10. ASSUME NEW w \in Workers, WorkerTakesNothing(w) PROVE TypeOK'
    BY <1>10 DEF WorkerTakesNothing, Goto, TypeOK
  <1>11. ASSUME NEW w \in Workers, WorkerCall(w) PROVE TypeOK'
    BY <1>11 DEF WorkerCall, Goto, TypeOK
  <1>12. CASE UNCHANGED vars
    BY <1>12 DEF vars, TypeOK
  <1> QED
    BY <1>1, <1>2, <1>3, <1>4, <1>5, <1>6, <1>7, <1>8, <1>9, <1>10, <1>11, <1>12
       DEF Next, Dispatcher, WorkerElse, Ended

\* Every reachable state has its type: the dispatcher never looks past the
\* last handle, and what it reads as counters is a count.
THEOREM TypeCorrect == Spec => []TypeOK
  BY TypeInit, TypeStep, PTL DEF Spec, HangingSpec

-----------------------------------------------------------------------------
(* The counters.                                                           *)

LEMMA BusyFinite ==
  /\ IsFiniteSet(Busy) /\ Cardinality(Busy) \in Nat
  /\ \A w \in Workers \ Busy : Cardinality(Busy \cup {w}) = Cardinality(Busy) + 1
  /\ \A w \in Busy : Cardinality(Busy \ {w}) = Cardinality(Busy) - 1
  <1>1. IsFiniteSet(Workers)
    BY ArrivalRateAssumption, FS_Interval DEF ArrivalRateAssumption, Workers
  <1>2. IsFiniteSet(Busy) /\ Cardinality(Busy) \in Nat
    BY <1>1, FS_Subset, FS_CardinalityType DEF Busy
  <1> QED
    BY <1>2, FS_AddElement, FS_RemoveElement

\* How a worker's step moves it in and out of the busy ones.
LEMMA WorkerMoves ==
  ASSUME TypeOK, NEW w \in Workers, NEW pc, Goto(w, pc)
  PROVE  /\ Busy' = IF pc = "call" THEN Busy \cup {w} ELSE Busy \ {w}
         /\ w \in Busy <=> wpc[w] = "call"
  <1>1. wpc'[w] = pc /\ \A v \in Workers : v # w => wpc'[v] = wpc[v]
    BY DEF Goto, TypeOK
  <1> QED
    BY <1>1 DEF Busy

LEMMA AccountingInit == Init => Accounting
  <1> SUFFICES ASSUME Init PROVE Accounting
    OBVIOUS
  <1>1. Cardinality(Busy) = 0
    BY FS_EmptySet DEF Init, Busy
  <1> QED
    BY <1>1 DEF Init, Accounting

LEMMA AccountingStep == TypeOK /\ Accounting /\ [Next]_vars => Accounting'
  <1> SUFFICES ASSUME TypeOK, Accounting, [Next]_vars PROVE Accounting'
    OBVIOUS
  <1> USE DEF control, counters, wvars, frame, wframe
  <1>1. /\ counter = started + dropped
        /\ started = Len(queue) + Cardinality(Busy) + completed
        /\ counter \in Nat /\ started \in Nat /\ dropped \in Nat /\ completed \in Nat
        /\ queue \in Seq(Nat) /\ Len(queue) \in Nat /\ Cardinality(Busy) \in Nat
    BY BusyFinite DEF Accounting, TypeOK
  <1>2. CASE UNCHANGED <<queue, counters, completed, wpc>>
    <2>1. Busy' = Busy
      BY <1>2 DEF Busy
    <2> QED
      BY <1>1, <1>2, <2>1 DEF Accounting
  <1>3. CASE Dispatch
    <2>1. Cardinality(Busy') = Cardinality(Busy) /\ completed' = completed
      BY <1>3, DispatchCases DEF Busy
    <2>2. Len(Append(queue, counter)) = Len(queue) + 1
      BY <1>1
    <2>3. CASE UNCHANGED <<queue, counter, started, dropped>>
      BY <1>1, <2>1, <2>3 DEF Accounting
    <2>4. CASE /\ queue' = Append(queue, counter) /\ started' = started + 1
               /\ dropped' = dropped /\ counter' = counter + 1
      <3>1. Len(queue') = Len(queue) + 1
        BY <2>2, <2>4
      <3>2. started' = started + 1 /\ dropped' = dropped /\ counter' = counter + 1
        BY <2>4
      <3>3. counter' = started' + dropped'
        BY <1>1, <3>2
      <3>4. started' = Len(queue') + Cardinality(Busy') + completed'
        BY <1>1, <2>1, <3>1, <3>2
      <3> QED
        BY <3>3, <3>4 DEF Accounting
    <2>5. CASE /\ queue' = queue /\ started' = started
               /\ dropped' = dropped + 1 /\ counter' = counter + 1
      BY <1>1, <2>1, <2>5 DEF Accounting
    <2> QED
      BY <1>3, <2>3, <2>4, <2>5, DispatchCases
  <1>4. ASSUME NEW w \in Workers, WorkerInit(w) \/ WorkerHead(w) \/ WorkerGate(w) \/ WorkerTakesNothing(w)
        PROVE  Accounting'
    <2>1. PICK pc : pc # "call" /\ Goto(w, pc)
      BY <1>4 DEF WorkerInit, WorkerHead, WorkerGate, WorkerTakesNothing
    <2>2. wpc[w] # "call" /\ UNCHANGED <<queue, counters, completed>>
      BY <1>4 DEF WorkerInit, WorkerHead, WorkerGate, WorkerTakesNothing
    <2>3. Busy' = Busy
      BY <2>1, <2>2, WorkerMoves
    <2> QED
      BY <1>1, <2>2, <2>3 DEF Accounting
  <1>5. ASSUME NEW w \in Workers, WorkerTakes(w) PROVE Accounting'
    <2>1. Busy' = Busy \cup {w} /\ w \notin Busy
      BY <1>5, WorkerMoves DEF WorkerTakes
    <2>2. Cardinality(Busy') = Cardinality(Busy) + 1
      BY <2>1, BusyFinite
    <2>3. Len(queue') = Len(queue) - 1 /\ UNCHANGED <<counters, completed>>
      BY <1>1, <1>5 DEF WorkerTakes
    <2> QED
      BY <1>1, <2>2, <2>3 DEF Accounting
  <1>6. ASSUME NEW w \in Workers, WorkerCall(w) PROVE Accounting'
    <2>1. Busy' = Busy \ {w} /\ w \in Busy
      BY <1>6, WorkerMoves DEF WorkerCall
    <2>2. Cardinality(Busy') = Cardinality(Busy) - 1
      BY <2>1, BusyFinite
    <2>3. queue' = queue /\ completed' = completed + 1 /\ UNCHANGED counters
      BY <1>6 DEF WorkerCall
    <2> QED
      BY <1>1, <2>2, <2>3 DEF Accounting
  <1>7. CASE \/ TimeUp \/ GraceUp \/ PauseRun \/ ResumeRun \/ StopRun
             \/ DispatchOver \/ Close \/ Report \/ NextHandle \/ Joined \/ UNCHANGED vars
    BY <1>2, <1>7 DEF TimeUp, GraceUp, PauseRun, ResumeRun, StopRun,
                      DispatchOver, Close, Report, NextHandle, Joined, vars
  <1> QED
    BY <1>3, <1>4, <1>5, <1>6, <1>7 DEF Next, Dispatcher, WorkerElse, Ended

\* Every iteration number the dispatcher gave out is dropped, waits, is being
\* run or is completed: the three metrics miss nothing and count nothing twice.
THEOREM CountersExplainEverything == Spec => []Accounting
  BY TypeInit, TypeStep, AccountingInit, AccountingStep, PTL DEF Spec, HangingSpec

\* The counters read at the end stay consistent while workers go on: after the
\* dispatch nobody changes `started`, and `completed` was behind it.
THEOREM ReportedCountersAgree == Spec => []ReportConsistent
  <1>1. Init => ReportConsistent
    BY DEF Init, ReportConsistent
  <1>2. TypeOK /\ Accounting /\ ReportConsistent /\ [Next]_vars => ReportConsistent'
    <2> SUFFICES ASSUME TypeOK, Accounting, ReportConsistent, [Next]_vars
                 PROVE  ReportConsistent'
      OBVIOUS
    <2> USE DEF control, counters, wvars, frame, wframe
    <2>1. CASE Report
      <3>1. completed <= started
        BY BusyFinite DEF Accounting, TypeOK
      <3> QED
        BY <2>1, <3>1 DEF Report, Accounting, ReportConsistent
    <2>2. CASE Dispatch
      BY <2>2, DispatchCases DEF ReportConsistent
    <2>3. CASE DispatchOver \/ Close
      BY <2>3 DEF DispatchOver, Close, ReportConsistent
    <2>4. CASE NextHandle \/ Joined
      BY <2>4 DEF NextHandle, Joined, ReportConsistent
    <2>5. CASE TimeUp \/ GraceUp \/ PauseRun \/ ResumeRun \/ StopRun \/ UNCHANGED vars
      BY <2>5 DEF TimeUp, GraceUp, PauseRun, ResumeRun, StopRun, vars, ReportConsistent
    <2>6. ASSUME NEW w \in Workers, WorkerElse(w) \/ WorkerCall(w) PROVE ReportConsistent'
      <3>1. UNCHANGED <<dpc, counter, reported>>
        BY <2>6 DEF WorkerElse, WorkerInit, WorkerHead, WorkerGate, WorkerTakes,
                    WorkerTakesNothing, WorkerCall
      <3> QED
        BY <3>1 DEF ReportConsistent
    <2> QED
      BY <2>1, <2>2, <2>3, <2>4, <2>5, <2>6 DEF Next, Dispatcher, Ended
  <1> QED
    BY <1>1, <1>2, TypeInit, TypeStep, AccountingInit, AccountingStep, PTL
       DEF Spec, HangingSpec

-----------------------------------------------------------------------------
(* The order of the numbers.                                               *)

\* The next number is newer than every number given out, and what a worker runs
\* is no newer than the last number taken.
Ordered ==
  /\ latest < counter
  /\ \A i \in DOMAIN queue : latest < queue[i] /\ queue[i] < counter
  /\ \A i, j \in DOMAIN queue : i < j => queue[i] < queue[j]
  /\ \A w \in Busy : number[w] <= latest
  /\ \A v, w \in Busy : number[v] = number[w] => v = w

LEMMA OrderedInit == Init => Ordered
  BY DEF Init, Ordered, Busy, NoNumber

LEMMA OrderedDispatch ==
  ASSUME TypeOK, Ordered, Dispatch
  PROVE  Ordered'
  <1>1. Busy' = Busy /\ number' = number /\ latest' = latest
    BY DispatchCases DEF Busy, wvars
  <1>2. counter \in Nat /\ latest \in Int /\ queue \in Seq(Nat)
    BY DEF TypeOK, NoNumber
  <1>3. counter' \in Nat /\ counter <= counter'
    BY <1>2, DispatchCases
  <1>4. CASE queue' = queue
    <2>1. latest' < counter'
      BY <1>1, <1>2, <1>3 DEF Ordered
    <2>2. \A i \in DOMAIN queue : queue[i] \in Nat
      BY <1>2
    <2>3. \A i \in DOMAIN queue : latest < queue[i] /\ queue[i] < counter'
      BY <1>2, <1>3, <2>2 DEF Ordered
    <2> QED
      BY <1>1, <1>4, <2>1, <2>3 DEF Ordered
  <1>5. CASE queue' = Append(queue, counter) /\ counter' = counter + 1
    <2>1. /\ DOMAIN queue' = DOMAIN queue \cup {Len(queue) + 1}
          /\ queue'[Len(queue) + 1] = counter
          /\ \A i \in DOMAIN queue : queue'[i] = queue[i] /\ queue[i] \in Nat
          /\ \A i \in DOMAIN queue : i \in Int /\ i < Len(queue) + 1
      BY <1>2, <1>5
    <2>2. latest' < counter'
      BY <1>1, <1>2, <1>5 DEF Ordered
    <2>3. \A i \in DOMAIN queue' : latest < queue'[i] /\ queue'[i] < counter'
      BY <1>2, <1>5, <2>1 DEF Ordered
    <2>4. \A i, j \in DOMAIN queue' : i < j => queue'[i] < queue'[j]
      <3> SUFFICES ASSUME NEW i \in DOMAIN queue', NEW j \in DOMAIN queue', i < j
                   PROVE  queue'[i] < queue'[j]
        OBVIOUS
      <3>1. i \in DOMAIN queue
        BY <1>2, <2>1
      <3>2. CASE j \in DOMAIN queue
        BY <2>1, <3>1, <3>2 DEF Ordered
      <3>3. CASE j = Len(queue) + 1
        BY <2>1, <3>1, <3>3 DEF Ordered
      <3> QED
        BY <2>1, <3>2, <3>3
    <2> QED
      BY <1>1, <2>2, <2>3, <2>4 DEF Ordered
  <1> QED
    BY <1>4, <1>5, DispatchCases

LEMMA OrderedTakes ==
  ASSUME TypeOK, Ordered, NEW w \in Workers, WorkerTakes(w)
  PROVE  Ordered'
  <1>1. queue \in Seq(Nat) /\ queue # << >> /\ counter \in Nat /\ latest \in Int
    BY DEF WorkerTakes, TypeOK, NoNumber
  <1>2. /\ Head(queue) = queue[1] /\ 1 \in DOMAIN queue /\ queue[1] \in Nat
        /\ \A i \in DOMAIN Tail(queue) :
             /\ i \in Nat /\ i >= 1
             /\ i + 1 \in DOMAIN queue
             /\ Tail(queue)[i] = queue[i + 1]
             /\ queue[i + 1] \in Nat
    BY <1>1
  <1>3. latest' = queue[1] /\ queue' = Tail(queue) /\ counter' = counter
    BY <1>2 DEF WorkerTakes, wframe, counters
  <1>4. latest' < counter'
    BY <1>2, <1>3 DEF Ordered
  <1>5. \A i \in DOMAIN queue' : latest' < queue'[i] /\ queue'[i] < counter'
    <2> SUFFICES ASSUME NEW i \in DOMAIN queue'
                 PROVE  latest' < queue'[i] /\ queue'[i] < counter'
      OBVIOUS
    <2>1. i \in Nat /\ i >= 1 /\ i + 1 \in DOMAIN queue /\ queue'[i] = queue[i + 1]
      BY <1>2, <1>3
    <2>2. queue[1] < queue[i + 1] /\ queue[i + 1] < counter
      BY <1>2, <2>1 DEF Ordered
    <2> QED
      BY <1>3, <2>1, <2>2
  <1>6. \A i, j \in DOMAIN queue' : i < j => queue'[i] < queue'[j]
    <2> SUFFICES ASSUME NEW i \in DOMAIN queue', NEW j \in DOMAIN queue', i < j
                 PROVE  queue'[i] < queue'[j]
      OBVIOUS
    <2>1. /\ i \in Nat /\ i + 1 \in DOMAIN queue /\ queue'[i] = queue[i + 1]
          /\ j \in Nat /\ j + 1 \in DOMAIN queue /\ queue'[j] = queue[j + 1]
      BY <1>2, <1>3
    <2>2. i + 1 < j + 1
      BY <2>1
    <2>3. queue[i + 1] < queue[j + 1]
      BY <2>1, <2>2 DEF Ordered
    <2> QED
      BY <2>1, <2>3
  <1>7. /\ Busy' = Busy \cup {w} /\ w \notin Busy
        /\ number'[w] = queue[1]
        /\ \A v \in Busy : number'[v] = number[v] /\ number[v] \in Int
    <2>1. Busy' = Busy \cup {w} /\ w \notin Busy
      BY WorkerMoves DEF WorkerTakes
    <2>2. number' = [number EXCEPT ![w] = queue[1]]
      BY <1>2 DEF WorkerTakes
    <2>3. Busy \subseteq Workers /\ number \in [Workers -> Nat \cup {NoNumber}]
      BY DEF Busy, TypeOK
    <2> QED
      BY <2>1, <2>2, <2>3 DEF NoNumber
  <1>8. latest < queue[1]
    BY <1>2 DEF Ordered
  <1>9. \A v \in Busy : number[v] < queue[1] /\ number[v] <= queue[1]
    <2> SUFFICES ASSUME NEW v \in Busy PROVE number[v] < queue[1] /\ number[v] <= queue[1]
      OBVIOUS
    <2>1. number[v] <= latest /\ number[v] \in Int
      BY <1>7 DEF Ordered
    <2> QED
      BY <1>1, <1>2, <1>8, <2>1
  <1>10. \A v \in Busy' : number'[v] <= latest'
    BY <1>2, <1>3, <1>7, <1>9
  <1>11. \A u, v \in Busy' : number'[u] = number'[v] => u = v
    <2>1. \A u \in Busy : number[u] # queue[1]
      BY <1>2, <1>7, <1>9
    <2> QED
      BY <1>7, <2>1 DEF Ordered
  <1> QED
    BY <1>4, <1>5, <1>6, <1>10, <1>11 DEF Ordered

\* A step that adds nobody to the busy workers keeps the order.
LEMMA OrderedElsewhere ==
  ASSUME Ordered, Busy' \subseteq Busy, UNCHANGED <<queue, counter, latest>>,
         \A v \in Busy' : number'[v] = number[v]
  PROVE  Ordered'
  BY DEF Ordered

LEMMA OrderedStep == TypeOK /\ Ordered /\ [Next]_vars => Ordered'
  <1> SUFFICES ASSUME TypeOK, Ordered, [Next]_vars PROVE Ordered'
    OBVIOUS
  <1> USE DEF control, counters, wvars, frame, wframe
  <1>1. CASE \/ TimeUp \/ GraceUp \/ PauseRun \/ ResumeRun \/ StopRun
             \/ DispatchOver \/ Close \/ Report \/ NextHandle \/ Joined \/ UNCHANGED vars
    <2>1. UNCHANGED <<wpc, number, queue, counter, latest>>
      BY <1>1 DEF TimeUp, GraceUp, PauseRun, ResumeRun, StopRun,
                  DispatchOver, Close, Report, NextHandle, Joined, vars
    <2>2. Busy' = Busy
      BY <2>1 DEF Busy
    <2> QED
      BY <2>1, <2>2, OrderedElsewhere
  <1>2. CASE Dispatch
    BY <1>2, OrderedDispatch
  <1>3. ASSUME NEW w \in Workers, WorkerTakes(w) PROVE Ordered'
    BY <1>3, OrderedTakes
  <1>4. ASSUME NEW w \in Workers,
               WorkerInit(w) \/ WorkerHead(w) \/ WorkerGate(w) \/ WorkerTakesNothing(w)
        PROVE  Ordered'
    <2>1. PICK pc : pc # "call" /\ Goto(w, pc)
      BY <1>4 DEF WorkerInit, WorkerHead, WorkerGate, WorkerTakesNothing
    <2>2. UNCHANGED <<queue, counter, latest, number>>
      BY <1>4 DEF WorkerInit, WorkerHead, WorkerGate, WorkerTakesNothing
    <2>3. Busy' \subseteq Busy
      BY <2>1, WorkerMoves
    <2> QED
      BY <2>2, <2>3, OrderedElsewhere
  <1>5. ASSUME NEW w \in Workers, WorkerCall(w) PROVE Ordered'
    <2>1. UNCHANGED <<queue, counter, latest>> /\ Busy' = Busy \ {w}
      BY <1>5, WorkerMoves DEF WorkerCall
    <2>2. \A v \in Busy' : number'[v] = number[v]
      BY <1>5, <2>1 DEF WorkerCall, TypeOK, Busy
    <2> QED
      BY <2>1, <2>2, OrderedElsewhere
  <1> QED
    BY <1>1, <1>2, <1>3, <1>4, <1>5 DEF Next, Dispatcher, WorkerElse, Ended

\* Numbers reach the script in the order of dispatch, and no number twice.
THEOREM NumbersInOrder == Spec => []InOrder
  <1>1. TypeOK /\ Ordered => InOrder
    <2> SUFFICES ASSUME TypeOK, Ordered PROVE InOrder
      OBVIOUS
    <2>1. latest \in Int /\ \A i \in DOMAIN queue : queue[i] \in Int
      BY DEF TypeOK, NoNumber
    <2> QED
      BY <2>1 DEF Ordered, InOrder
  <1> QED
    BY <1>1, TypeInit, TypeStep, OrderedInit, OrderedStep, PTL DEF Spec, HangingSpec

-----------------------------------------------------------------------------
(* Pauses.                                                                 *)

\* A worker that began an iteration in the present pause is not on its way to
\* another: the head of its loop holds it.
HeldByPause ==
  \A w \in Workers :
    /\ begun[w] <= 1
    /\ paused /\ begun[w] = 1 => wpc[w] \in {"call", "head", "exited"}

LEMMA HeldInit == Init => HeldByPause
  BY DEF Init, HeldByPause

LEMMA HeldStep == TypeOK /\ HeldByPause /\ [Next]_vars => HeldByPause'
  <1> SUFFICES ASSUME TypeOK, HeldByPause, [Next]_vars, NEW v \in Workers
               PROVE  /\ begun'[v] <= 1
                      /\ paused' /\ begun'[v] = 1 => wpc'[v] \in {"call", "head", "exited"}
    BY DEF HeldByPause
  <1> USE DEF control, counters, wvars, frame, wframe
  <1>1. /\ begun[v] \in 0 .. 2 /\ begun[v] <= 1
        /\ paused /\ begun[v] = 1 => wpc[v] \in {"call", "head", "exited"}
    BY DEF HeldByPause, TypeOK
  <1>2. CASE TimeUp \/ GraceUp \/ StopRun \/ ResumeRun \/ UNCHANGED vars
    BY <1>1, <1>2 DEF TimeUp, GraceUp, StopRun, ResumeRun, vars
  <1>3. CASE PauseRun
    BY <1>1, <1>3 DEF PauseRun
  <1>4. CASE Dispatcher
    <2>1. UNCHANGED <<paused, begun, wpc>>
      BY <1>4, DispatchCases DEF Dispatcher, DispatchOver, Close, Report, NextHandle, Joined
    <2> QED
      BY <1>1, <2>1
  <1>5. ASSUME NEW w \in Workers,
               WorkerInit(w) \/ WorkerHead(w) \/ WorkerGate(w) \/ WorkerTakesNothing(w)
                 \/ WorkerCall(w)
        PROVE  /\ UNCHANGED <<paused, begun>>
               /\ wpc'[v] = wpc[v]
                  \/ (wpc[v] = "head" /\ (~paused \/ wpc'[v] = "exited"))
                  \/ (wpc[v] # "head" /\ wpc'[v] \in {"head", "exited"})
                  \/ wpc[v] = "gate"
    BY <1>5 DEF WorkerInit, WorkerHead, WorkerGate, WorkerTakesNothing, WorkerCall, Goto, TypeOK
  <1>6. ASSUME NEW w \in Workers, WorkerTakes(w)
        PROVE  /\ paused' = paused
               /\ v # w => begun'[v] = begun[v] /\ wpc'[v] = wpc[v]
               /\ v = w => /\ wpc[v] = "recv" /\ wpc'[v] = "call"
                           /\ begun'[v] = IF paused /\ begun[v] < 2 THEN begun[v] + 1
                                          ELSE begun[v]
    BY <1>6 DEF WorkerTakes, Goto, TypeOK
  <1> QED
    BY <1>1, <1>2, <1>3, <1>4, <1>5, <1>6 DEF Next, WorkerElse, Ended

\* Between a pause and its resume a worker begins at most one iteration.
THEOREM PauseHolds == Spec => []OneIterationPerPause
  <1>1. HeldByPause => OneIterationPerPause
    BY DEF HeldByPause, OneIterationPerPause
  <1> QED
    BY <1>1, TypeInit, TypeStep, HeldInit, HeldStep, PTL DEF Spec, HangingSpec

-----------------------------------------------------------------------------
(* The join.                                                               *)

\* While the grace period lasts, the handles behind `next` are joined.
JoinedSoFar ==
  ~graceOver =>
    /\ \A w \in Workers : w < next => w \in Exited
    /\ dpc = "complete" => next = NumWorkers + 1

LEMMA JoinedInit == Init => JoinedSoFar
  BY ArrivalRateAssumption DEF Init, JoinedSoFar, Workers, ArrivalRateAssumption

LEMMA JoinedStep == TypeOK /\ JoinedSoFar /\ [Next]_vars => JoinedSoFar'
  <1> SUFFICES ASSUME TypeOK, JoinedSoFar, [Next]_vars, ~graceOver'
               PROVE  JoinedSoFar'
    BY DEF JoinedSoFar
  <1> USE DEF control, counters, wvars, frame, wframe
  <1>1. next \in Int /\ NumWorkers \in Int /\ next <= NumWorkers + 1
        /\ \A w \in Workers : w \in Int
    BY ArrivalRateAssumption DEF TypeOK, ArrivalRateAssumption, Workers
  <1>2. CASE \/ TimeUp \/ GraceUp \/ PauseRun \/ ResumeRun \/ StopRun
             \/ DispatchOver \/ Dispatch \/ Close \/ Report \/ UNCHANGED vars
    <2>1. /\ UNCHANGED <<next, graceOver>> /\ Exited' = Exited
          /\ dpc' = dpc \/ dpc' # "complete"
      BY <1>2, DispatchCases DEF TimeUp, GraceUp, PauseRun, ResumeRun, StopRun,
                  DispatchOver, Close, Report, vars, Exited
    <2> QED
      BY <2>1 DEF JoinedSoFar
  <1>3. CASE NextHandle
    <2>1. ~graceOver /\ next' = next /\ Exited' = Exited
          /\ (dpc' = "complete" => next > NumWorkers)
      BY <1>3 DEF NextHandle, Exited
    <2> QED
      BY <1>1, <2>1 DEF JoinedSoFar
  <1>4. CASE Joined
    <2>1. /\ ~graceOver /\ next' = next + 1 /\ Exited' = Exited
          /\ next \in Exited /\ dpc' = "join"
      BY <1>4 DEF Joined, Exited
    <2>2. \A w \in Workers : w < next + 1 => w < next \/ w = next
      BY <1>1
    <2> QED
      BY <2>1, <2>2 DEF JoinedSoFar
  <1>5. ASSUME NEW w \in Workers, WorkerElse(w) \/ WorkerCall(w) PROVE JoinedSoFar'
    <2>1. UNCHANGED <<next, graceOver, dpc>> /\ wpc[w] # "exited" /\ \E pc : Goto(w, pc)
      BY <1>5 DEF WorkerElse, WorkerInit, WorkerHead, WorkerGate, WorkerTakes,
                  WorkerTakesNothing, WorkerCall
    <2>2. Exited \subseteq Exited'
      BY <2>1 DEF Exited, Goto, TypeOK
    <2> QED
      BY <2>1, <2>2 DEF JoinedSoFar
  <1> QED
    BY <1>2, <1>3, <1>4, <1>5 DEF Next, Dispatcher, Ended

\* A scenario that completes within its grace period leaves no worker behind,
\* however many workers there are and in whatever order they end.
THEOREM GraceCoversWorkers == Spec => []NobodyLeftInGrace
  <1>1. TypeOK /\ JoinedSoFar => NobodyLeftInGrace
    <2>1. \A w \in Workers : w < NumWorkers + 1
      BY ArrivalRateAssumption DEF Workers, ArrivalRateAssumption
    <2> QED
      BY <2>1 DEF JoinedSoFar, NobodyLeftInGrace, Exited
  <1> QED
    BY <1>1, TypeInit, TypeStep, JoinedInit, JoinedStep, PTL DEF Spec, HangingSpec

=============================================================================
