------------------------- MODULE ClosedModelProofs -------------------------
(***************************************************************************)
(* Proofs about ClosedModel, for every finite set of workers and every     *)
(* limit: a worker's own limit, how far a shared pool is overdrawn, and    *)
(* that a scenario that ends early has run its pool.                       *)
(***************************************************************************)
EXTENDS ClosedModel, FiniteSetTheorems, TLAPS

-----------------------------------------------------------------------------
(* Lemmas about the counted sets and the configuration.                    *)

\* Workers whose iteration is finished and not yet claimed from the pool.
Unclaimed == {w \in Workers : wpc[w] = "limit"}

\* A pool has a size, also when the configuration names none.
LEMMA TotalNat ==
  ASSUME TypeOK
  PROVE  Total \in Nat /\ Cardinality(Workers) \in Nat
  <1>1. Cardinality(Workers) \in Nat
    BY ClosedModelAssumption, FS_CardinalityType DEF ClosedModelAssumption
  <1>2. 10 * Cardinality(Workers) \in Nat
    BY <1>1
  <1>3. iterations # NoLimit => iterations \in Nat
    BY ClosedModelAssumption DEF TypeOK, ClosedModelAssumption
  <1> QED
    BY <1>1, <1>2, <1>3 DEF Total

\* Both sets are finite, and no worker is in both.
LEMMA Counted ==
  /\ IsFiniteSet(Unclaimed) /\ Cardinality(Unclaimed) \in Nat
  /\ IsFiniteSet(Exited) /\ Cardinality(Exited) \in Nat
  /\ Cardinality(Unclaimed) + Cardinality(Exited) <= Cardinality(Workers)
  <1>1. IsFiniteSet(Workers)
    BY ClosedModelAssumption DEF ClosedModelAssumption
  <1>2. Unclaimed \subseteq Workers /\ Exited \subseteq Workers
    BY DEF Unclaimed, Exited
  <1>3. IsFiniteSet(Unclaimed) /\ IsFiniteSet(Exited)
    BY <1>1, <1>2, FS_Subset
  <1>4. Unclaimed \cap Exited = {} /\ Unclaimed \cup Exited \subseteq Workers
    BY <1>2 DEF Unclaimed, Exited
  <1>5. Cardinality(Unclaimed \cup Exited) <= Cardinality(Workers)
    BY <1>1, <1>4, FS_Subset
  <1>6. Cardinality(Unclaimed \cup Exited) = Cardinality(Unclaimed) + Cardinality(Exited)
    <2>1. Cardinality(Unclaimed \cup Exited)
            = Cardinality(Unclaimed) + Cardinality(Exited) - Cardinality(Unclaimed \cap Exited)
      BY <1>3, FS_Union
    <2>2. Cardinality(Unclaimed \cap Exited) = 0
      BY <1>4, FS_EmptySet
    <2>3. Cardinality(Unclaimed) \in Nat /\ Cardinality(Exited) \in Nat
      BY <1>3, FS_CardinalityType
    <2> QED
      BY <2>1, <2>2, <2>3
  <1> QED
    BY <1>3, <1>5, <1>6, FS_CardinalityType

-----------------------------------------------------------------------------
(* Type correctness.                                                       *)

LEMMA TypeInit == Init => TypeOK
  <1> SUFFICES ASSUME Init PROVE TypeOK
    OBVIOUS
  <1>1. toggles \in 0 .. MaxToggles
    BY ClosedModelAssumption DEF Init, ClosedModelAssumption
  <1>2. flag \in [Workers -> BOOLEAN] /\ count \in [Workers -> Nat]
    BY DEF Init
  <1>3. wpc \in [Workers -> {"init", "head", "gate", "call", "limit", "exited"}]
    BY DEF Init
  <1> QED
    BY <1>1, <1>2, <1>3 DEF Init, TypeOK

LEMMA TypeStep == TypeOK /\ [Next]_vars => TypeOK'
  <1> SUFFICES ASSUME TypeOK, [Next]_vars PROVE TypeOK'
    OBVIOUS
  <1> USE DEF control, config
  <1>1. CASE TimeUp
    BY <1>1 DEF TimeUp, TypeOK
  <1>2. CASE TogglePause
    <2>1. toggles' \in 0 .. MaxToggles
      BY <1>2, ClosedModelAssumption DEF TogglePause, TypeOK, ClosedModelAssumption
    <2> QED
      BY <1>2, <2>1 DEF TogglePause, TypeOK
  <1>3. CASE StopRun
    BY <1>3 DEF StopRun, TypeOK
  <1>4. CASE Scenario
    BY <1>4 DEF Scenario, Poll, Signal, Join, TypeOK
  <1>5. ASSUME NEW w \in Workers, WorkerInit(w) PROVE TypeOK'
    BY <1>5 DEF WorkerInit, Goto, TypeOK
  <1>6. ASSUME NEW w \in Workers, WorkerHead(w) PROVE TypeOK'
    BY <1>6 DEF WorkerHead, Goto, TypeOK
  <1>7. ASSUME NEW w \in Workers, WorkerGate(w) PROVE TypeOK'
    BY <1>7 DEF WorkerGate, Goto, TypeOK
  <1>8. ASSUME NEW w \in Workers, WorkerCall(w) PROVE TypeOK'
    BY <1>8 DEF WorkerCall, Goto, TypeOK
  <1>9. ASSUME NEW w \in Workers, WorkerLimit(w) PROVE TypeOK'
    BY <1>9 DEF WorkerLimit, Goto, TypeOK
  <1>10. CASE UNCHANGED vars
    BY <1>10 DEF vars, TypeOK
  <1> QED
    BY <1>1, <1>2, <1>3, <1>4, <1>5, <1>6, <1>7, <1>8, <1>9, <1>10
       DEF Next, Worker, Complete

\* Every reachable state has its type: claims and counts only grow from zero.
THEOREM TypeCorrect == Spec => []TypeOK
  BY TypeInit, TypeStep, PTL DEF Spec

-----------------------------------------------------------------------------
(* A worker's own limit.                                                   *)

\* A worker that may still begin an iteration is short of its limit.
ShortOfLimit ==
  (~shared /\ iterations # NoLimit) =>
    \A w \in Workers :
      /\ wpc[w] \in {"init", "head", "gate", "call"} =>
           count[w] < IF iterations = 0 THEN 1 ELSE iterations
      /\ count[w] <= IF iterations = 0 THEN 1 ELSE iterations

LEMMA ShortInit == Init /\ TypeOK => ShortOfLimit
  <1> SUFFICES ASSUME Init, TypeOK, ~shared, iterations # NoLimit, NEW w \in Workers
               PROVE  /\ count[w] < IF iterations = 0 THEN 1 ELSE iterations
                      /\ count[w] <= IF iterations = 0 THEN 1 ELSE iterations
    BY DEF ShortOfLimit
  <1>1. iterations \in Nat /\ count[w] = 0
    BY ClosedModelAssumption DEF Init, TypeOK, ClosedModelAssumption
  <1> QED
    BY <1>1

LEMMA ShortStep == TypeOK /\ TypeOK' /\ ShortOfLimit /\ [Next]_vars => ShortOfLimit'
  <1> SUFFICES ASSUME TypeOK, TypeOK', ShortOfLimit, [Next]_vars,
                      ~shared', iterations' # NoLimit, NEW v \in Workers
               PROVE  /\ wpc'[v] \in {"init", "head", "gate", "call"} =>
                           count'[v] < IF iterations' = 0 THEN 1 ELSE iterations'
                      /\ count'[v] <= IF iterations' = 0 THEN 1 ELSE iterations'
    BY DEF ShortOfLimit
  <1> USE DEF control, config
  <1>1. shared' = shared /\ iterations' = iterations
    BY DEF vars, Next, TimeUp, TogglePause, StopRun, Scenario, Poll, Signal, Join, Worker,
           WorkerInit, WorkerHead, WorkerGate, WorkerCall, WorkerLimit, Complete
  <1>2. ~shared /\ iterations # NoLimit /\ iterations \in Nat /\ count[v] \in Nat
    BY <1>1, ClosedModelAssumption DEF TypeOK, ClosedModelAssumption
  <1>3. /\ wpc[v] \in {"init", "head", "gate", "call"} =>
             count[v] < IF iterations = 0 THEN 1 ELSE iterations
        /\ count[v] <= IF iterations = 0 THEN 1 ELSE iterations
    BY <1>2 DEF ShortOfLimit
  <1>4. CASE TimeUp \/ TogglePause \/ StopRun \/ Scenario \/ UNCHANGED vars
    BY <1>1, <1>3, <1>4 DEF vars, TimeUp, TogglePause, StopRun, Scenario, Poll, Signal, Join
  <1>5. ASSUME NEW w \in Workers, WorkerInit(w) \/ WorkerHead(w) \/ WorkerGate(w)
        PROVE  /\ count' = count
               /\ wpc'[v] \in {"init", "head", "gate", "call"} =>
                    wpc[v] \in {"init", "head", "gate", "call"}
    BY <1>5 DEF WorkerInit, WorkerHead, WorkerGate, Goto, TypeOK
  <1>6. ASSUME NEW w \in Workers, WorkerCall(w)
        PROVE  IF v = w THEN wpc[v] = "call" /\ wpc'[v] = "limit" /\ count'[v] = count[v] + 1
                        ELSE wpc'[v] = wpc[v] /\ count'[v] = count[v]
    BY <1>6 DEF WorkerCall, Goto, TypeOK
  <1>7. ASSUME NEW w \in Workers, WorkerLimit(w)
        PROVE  /\ count' = count
               /\ v # w => wpc'[v] = wpc[v]
               /\ v = w => wpc'[v] = IF count[v] >= iterations THEN "exited" ELSE "head"
    BY <1>2, <1>7 DEF WorkerLimit, Goto, TypeOK
  <1> QED
    BY <1>1, <1>2, <1>3, <1>4, <1>5, <1>6, <1>7 DEF Next, Worker, Complete

\* Each worker stops at its own limit (per-worker-iterations, and
\* constant-workers when iterations are given); a limit of 0 runs once.
THEOREM OwnLimitKept == Spec => []OwnLimit
  <1>1. TypeOK /\ ShortOfLimit => OwnLimit
    BY DEF ShortOfLimit, OwnLimit
  <1> QED
    BY <1>1, TypeInit, TypeStep, ShortInit, ShortStep, PTL DEF Spec

-----------------------------------------------------------------------------
(* The shared pool.                                                        *)

\* Every finished iteration is claimed or about to be, a claim beyond the pool
\* is the last step of its worker, and a scenario that stops polling without
\* being told to has seen the pool used up.
Drawn ==
  shared =>
    /\ executed = claims + Cardinality(Unclaimed)
    /\ claims <= Total + Cardinality(Exited)
    /\ spc # "poll" /\ ~expired /\ ~stopped => claims >= Total

LEMMA DrawnInit == Init /\ TypeOK => Drawn
  <1> SUFFICES ASSUME Init, TypeOK, shared PROVE Drawn
    BY DEF Drawn
  <1>1. Unclaimed = {} /\ Exited = {}
    BY DEF Init, Unclaimed, Exited
  <1>2. Cardinality(Unclaimed) = 0 /\ Cardinality(Exited) = 0
    BY <1>1, FS_EmptySet
  <1>3. Total \in Nat
    BY TotalNat
  <1> QED
    BY <1>2, <1>3 DEF Init, Drawn

\* Steps of the scenario and of the run around it change neither counted set.
LEMMA DrawnElsewhere ==
  ASSUME TypeOK, Drawn, TimeUp \/ TogglePause \/ StopRun \/ Scenario \/ UNCHANGED vars
  PROVE  Drawn'
  <1> USE DEF control, config
  <1>1. /\ shared' = shared /\ iterations' = iterations /\ wpc' = wpc
        /\ claims' = claims /\ executed' = executed
    BY DEF vars, TimeUp, TogglePause, StopRun, Scenario, Poll, Signal, Join
  <1>2. Unclaimed' = Unclaimed /\ Exited' = Exited /\ Total' = Total
    BY <1>1 DEF Unclaimed, Exited, Total
  <1>3. ASSUME shared, spc' # "poll", ~expired', ~stopped' PROVE claims >= Total
    BY <1>3, TotalNat
       DEF Drawn, TypeOK, vars, TimeUp, TogglePause, StopRun, Scenario, Poll, Signal, Join,
           PoolUsedUp
  <1> QED
    BY <1>1, <1>2, <1>3 DEF Drawn

\* How a worker's step moves it between the counted sets.
LEMMA WorkerMoves ==
  ASSUME TypeOK, NEW w \in Workers, NEW pc, wpc[w] # "exited", Goto(w, pc)
  PROVE  /\ Unclaimed' = IF pc = "limit" THEN Unclaimed \cup {w} ELSE Unclaimed \ {w}
         /\ Exited' = IF pc = "exited" THEN Exited \cup {w} ELSE Exited
         /\ w \notin Exited
         /\ w \in Unclaimed <=> wpc[w] = "limit"
  <1>1. wpc'[w] = pc /\ \A v \in Workers : v # w => wpc'[v] = wpc[v]
    BY DEF Goto, TypeOK
  <1> QED
    BY <1>1 DEF Unclaimed, Exited

LEMMA DrawnWorker ==
  ASSUME TypeOK, Drawn, NEW w \in Workers, Worker(w)
  PROVE  Drawn'
  <1> SUFFICES ASSUME shared' PROVE Drawn'
    BY DEF Drawn
  <1> USE DEF control, config
  <1>1. /\ shared' = shared /\ iterations' = iterations /\ Total' = Total
        /\ spc' = spc /\ expired' = expired /\ stopped' = stopped
    BY DEF Worker, WorkerInit, WorkerHead, WorkerGate, WorkerCall, WorkerLimit, Total
  <1>2. /\ executed = claims + Cardinality(Unclaimed)
        /\ claims <= Total + Cardinality(Exited)
        /\ spc # "poll" /\ ~expired /\ ~stopped => claims >= Total
    BY <1>1 DEF Drawn
  <1>3. /\ Total \in Nat /\ claims \in Nat /\ executed \in Nat
        /\ IsFiniteSet(Unclaimed) /\ Cardinality(Unclaimed) \in Nat
        /\ IsFiniteSet(Exited) /\ Cardinality(Exited) \in Nat
    BY TotalNat, Counted DEF TypeOK
  <1>4. w \notin Exited => Cardinality(Exited \cup {w}) = Cardinality(Exited) + 1
    BY <1>3, FS_AddElement
  <1>5. w \notin Unclaimed => Cardinality(Unclaimed \cup {w}) = Cardinality(Unclaimed) + 1
    BY <1>3, FS_AddElement
  <1>6. w \in Unclaimed => Cardinality(Unclaimed \ {w}) = Cardinality(Unclaimed) - 1
    BY <1>3, FS_RemoveElement
  <1>7. CASE WorkerInit(w) \/ WorkerHead(w) \/ WorkerGate(w)
    <2>1. /\ wpc[w] \notin {"limit", "exited"} /\ claims' = claims /\ executed' = executed
          /\ \E pc : pc # "limit" /\ Goto(w, pc)
      BY <1>7 DEF WorkerInit, WorkerHead, WorkerGate
    <2>2. PICK pc : pc # "limit" /\ Goto(w, pc)
      BY <2>1
    <2>3. Unclaimed' = Unclaimed /\ Exited' \in {Exited, Exited \cup {w}} /\ w \notin Exited
      BY <2>1, <2>2, WorkerMoves
    <2> QED
      BY <1>1, <1>2, <1>3, <1>4, <2>1, <2>3 DEF Drawn
  <1>8. CASE WorkerCall(w)
    <2>1. /\ wpc[w] = "call" /\ Goto(w, "limit")
          /\ claims' = claims /\ executed' = executed + 1
      BY <1>8 DEF WorkerCall
    <2>2. Unclaimed' = Unclaimed \cup {w} /\ w \notin Unclaimed /\ Exited' = Exited
      BY <2>1, WorkerMoves
    <2> QED
      BY <1>1, <1>2, <1>3, <1>5, <2>1, <2>2 DEF Drawn
  <1>9. CASE WorkerLimit(w)
    <2>1. /\ wpc[w] = "limit" /\ claims' = claims + 1 /\ executed' = executed
          /\ Goto(w, IF claims >= Total THEN "exited" ELSE "head")
      BY <1>1, <1>9 DEF WorkerLimit
    <2>2. /\ Unclaimed' = Unclaimed \ {w} /\ w \in Unclaimed /\ w \notin Exited
          /\ Exited' = IF claims >= Total THEN Exited \cup {w} ELSE Exited
      BY <2>1, WorkerMoves
    <2> QED
      BY <1>1, <1>2, <1>3, <1>4, <1>6, <2>1, <2>2 DEF Drawn
  <1> QED
    BY <1>7, <1>8, <1>9 DEF Worker

LEMMA DrawnStep == TypeOK /\ Drawn /\ [Next]_vars => Drawn'
  BY DrawnElsewhere, DrawnWorker DEF Next, Complete

\* A shared pool is overdrawn by at most one iteration per worker: the
\* fetch_add that finds it used up is the last step of its worker.
THEOREM PoolOverdraw == Spec => []Overdraw
  <1>1. TypeOK /\ Drawn => Overdraw
    <2> SUFFICES ASSUME TypeOK, Drawn, shared
                 PROVE  executed <= Total + Cardinality(Workers)
      BY DEF Overdraw
    <2>1. Total \in Nat /\ Cardinality(Workers) \in Nat /\ claims \in Nat /\ executed \in Nat
      BY TotalNat DEF TypeOK
    <2> QED
      BY <2>1, Counted DEF Drawn
  <1> QED
    BY <1>1, TypeInit, TypeStep, DrawnInit, DrawnStep, PTL DEF Spec

\* A shared-iterations scenario that neither time nor a stop has ended has run
\* its whole pool: what the polling loop reads is never ahead of the work.
THEOREM PoolRun == Spec => []PoolDrained
  <1>1. TypeOK /\ Drawn => PoolDrained
    <2> SUFFICES ASSUME TypeOK, Drawn, shared, spc = "complete", ~expired, ~stopped
                 PROVE  executed >= Total
      BY DEF PoolDrained
    <2>1. Total \in Nat /\ claims \in Nat /\ executed \in Nat
      BY TotalNat DEF TypeOK
    <2> QED
      BY <2>1, Counted DEF Drawn
  <1> QED
    BY <1>1, TypeInit, TypeStep, DrawnInit, DrawnStep, PTL DEF Spec

=============================================================================
