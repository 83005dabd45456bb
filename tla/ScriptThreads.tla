--------------------------- MODULE ScriptThreads ---------------------------
(***************************************************************************)
(* What the script contexts of different workers share, or fail to share:  *)
(* the data sets behind a lock (bridge/data.rs), the thread-local log      *)
(* settings (bridge/mod.rs) and the counter of sequentialId (utils.rs).    *)
(*                                                                         *)
(* A worker is <<scenario, worker_id>>: every scenario numbers its workers *)
(* from the same start.  It runs as a coroutine on a carrier thread until  *)
(* it yields; a lock blocks the carrier, not only the coroutine.           *)
(***************************************************************************)
EXTENDS Naturals, FiniteSets

CONSTANTS
  Kinds,        \* "array", "csv", "log", "ids": what the script uses
  Crew,         \* the workers, pairs <<scenario, worker_id>>
  Carriers,     \* the carrier threads
  Yields,       \* TRUE: the factory of a SharedArray may sleep or send requests
  Stride,       \* ids a worker has before the next worker's begin (1e9)
  MaxIds,       \* bound: ids drawn
  MaxTries,     \* bound: factories run
  Filter,       \* --log-filter scenario=<Filter>
  None          \* model value

VARIABLES
  kind,
  runs,      \* the carrier a worker runs on, or None
  at,        \* where the worker is
  writer,    \* the worker that holds the write lock of the data sets, or None
  shared,    \* the data set all workers see, or None
  cache,     \* the data set in the context of a worker (SharedCSV)
  has,       \* the data set a worker's constructor returned
  tried,     \* data sets made or tried so far
  filter,    \* LOG_FILTER of a thread
  scenario,  \* CURRENT_SCENARIO of a thread
  lines,     \* <<worker>> of the log lines shown
  counter,   \* SEQUENTIAL_COUNTER
  ids        \* history: the ids drawn

threadVars == <<kind, runs, at, writer, shared, cache, has, tried, filter, scenario, lines,
                counter, ids>>

data == <<writer, shared, cache, has, tried>>
logs == <<filter, scenario, lines>>
idVars == <<counter, ids>>

Threads == Carriers \cup {"main"}

ThreadInit ==
  /\ kind \in Kinds
  /\ runs = [w \in Crew |-> None]
  /\ at = [w \in Crew |-> "new"]
  /\ writer = None /\ shared = None /\ tried = 0
  /\ cache = [w \in Crew |-> None]
  /\ has = [w \in Crew |-> None]
  /\ filter = [t \in Threads |-> None]
  /\ scenario = [t \in Threads |-> None]
  /\ lines = {} /\ counter = 0 /\ ids = {}

Running(w, place) == runs[w] # None /\ at[w] = place
Goes(w, place) == at' = [at EXCEPT ![w] = place]
Free(c) == \A w \in Crew : runs[w] # c

-----------------------------------------------------------------------------
(* Coroutines.                                                             *)

\* The worker's coroutine starts: its scenario is set on the thread it is on.
Begin(w, c) ==
  /\ at[w] = "new" /\ Free(c)
  /\ runs' = [runs EXCEPT ![w] = c]
  /\ scenario' = [scenario EXCEPT ![c] = w[1]]
  /\ Goes(w, "script")
  /\ UNCHANGED <<kind, data, filter, lines, idVars>>

\* sleep() or a request: the coroutine leaves its carrier ...
Yield(w) ==
  /\ Running(w, "script") \/ (Yields /\ Running(w, "factory"))
  /\ runs' = [runs EXCEPT ![w] = None]
  /\ UNCHANGED <<kind, at, data, logs, idVars>>

\* ... and goes on, perhaps on another one.
Resume(w, c) ==
  /\ runs[w] = None /\ at[w] \in {"script", "factory"} /\ Free(c)
  /\ runs' = [runs EXCEPT ![w] = c]
  /\ UNCHANGED <<kind, at, data, logs, idVars>>

-----------------------------------------------------------------------------
(* new SharedArray(name, factory).                                         *)

AskForData(w) ==
  /\ kind = "array" /\ Running(w, "script") /\ has[w] = None
  /\ Goes(w, "read")
  /\ UNCHANGED <<kind, runs, data, logs, idVars>>

\* Step 1: look under the read lock.
TryRead(w) ==
  /\ Running(w, "read") /\ writer = None
  /\ IF shared # None THEN has' = [has EXCEPT ![w] = shared] /\ Goes(w, "script")
                      ELSE has' = has /\ Goes(w, "write")
  /\ UNCHANGED <<kind, runs, writer, shared, cache, tried, logs, idVars>>

\* Faulty variant: the map is not looked at again under the write lock.
NoSecondLook(w) ==
  /\ Running(w, "write") /\ writer = None
  /\ tried < MaxTries /\ tried' = tried + 1
  /\ writer' = w
  /\ Goes(w, "factory")
  /\ UNCHANGED <<kind, runs, shared, cache, has, logs, idVars>>

\* Step 2: look again under the write lock; the factory runs while it is held.
TakeWriteLock(w) ==
  /\ Running(w, "write") /\ writer = None
  /\ IF shared # None
     THEN /\ has' = [has EXCEPT ![w] = shared]
          /\ Goes(w, "script")
          /\ UNCHANGED <<writer, tried>>
     ELSE /\ tried < MaxTries /\ tried' = tried + 1
          /\ writer' = w
          /\ Goes(w, "factory")
          /\ has' = has
  /\ UNCHANGED <<kind, runs, shared, cache, logs, idVars>>

\* The factory returns an array, which is stored, ...
FactoryReturns(w) ==
  /\ Running(w, "factory")
  /\ shared' = tried
  /\ has' = [has EXCEPT ![w] = tried]
  /\ writer' = None
  /\ Goes(w, "script")
  /\ UNCHANGED <<kind, runs, cache, tried, logs, idVars>>

\* ... or throws or returns something else; the lock is released unpoisoned.
FactoryFails(w) ==
  /\ Running(w, "factory")
  /\ tried < MaxTries
  /\ writer' = None
  /\ Goes(w, "script")
  /\ UNCHANGED <<kind, runs, shared, cache, has, tried, logs, idVars>>

\* new SharedCSV(path): the map is of the worker's own context.
LoadCsv(w) ==
  /\ kind = "csv" /\ Running(w, "script") /\ has[w] = None
  /\ tried < MaxTries
  /\ \/ /\ tried' = tried + 1
        /\ cache' = [cache EXCEPT ![w] = tried + 1]
        /\ has' = [has EXCEPT ![w] = tried + 1]
     \/ UNCHANGED <<tried, cache, has>>           \* no such file, or it is empty
  /\ UNCHANGED <<kind, runs, at, writer, shared, logs, idVars>>

-----------------------------------------------------------------------------
(* console.log and sequentialId.                                           *)

\* The command line sets the filter of the thread that parses it.
SetLogFilter ==
  /\ kind = "log" /\ \A w \in Crew : at[w] = "new"
  /\ filter["main"] = None
  /\ filter' = [filter EXCEPT !["main"] = Filter]
  /\ UNCHANGED <<kind, runs, at, data, scenario, lines, idVars>>

\* log_with_level: a filter drops the lines of every other scenario, and those
\* of a thread without one.
Filtered(t) == filter[t] # None /\ scenario[t] # filter[t]

Log(w) ==
  /\ kind = "log" /\ Running(w, "script")
  /\ lines' = IF Filtered(runs[w]) THEN lines ELSE lines \cup {w}
  /\ UNCHANGED <<kind, runs, at, data, filter, scenario, idVars>>

\* Faulty variant: every worker counts its own ids.
OwnCounter(w) == w[2] * Stride + Cardinality({i \in ids : i[1] = w})

\* sequential_id: the worker's base plus the global counter.
SequentialId(w) == w[2] * Stride + counter

DrawId(w) ==
  /\ kind = "ids" /\ Running(w, "script")
  /\ counter < MaxIds
  /\ ids' = ids \cup {<<w, SequentialId(w), counter>>}
  /\ counter' = counter + 1
  /\ UNCHANGED <<kind, runs, at, data, logs>>

-----------------------------------------------------------------------------
ThreadNext ==
  \/ SetLogFilter
  \/ \E w \in Crew :
       \/ \E c \in Carriers : Begin(w, c) \/ Resume(w, c)
       \/ Yield(w) \/ AskForData(w) \/ TryRead(w) \/ TakeWriteLock(w) \/ FactoryReturns(w) \/ FactoryFails(w)
       \/ LoadCsv(w) \/ Log(w) \/ DrawId(w)

\* Carriers go on with what they can; a script that asks for its data gets on.
ThreadFairness ==
  \A w \in Crew :
    /\ SF_threadVars(TakeWriteLock(w)) /\ SF_threadVars(TryRead(w))
    /\ WF_threadVars(FactoryReturns(w))
    /\ SF_threadVars(\E c \in Carriers : Resume(w, c))

ThreadSpec == ThreadInit /\ [][ThreadNext]_threadVars /\ ThreadFairness

-----------------------------------------------------------------------------
ThreadTypeOK ==
  /\ kind \in Kinds /\ writer \in Crew \cup {None} /\ tried \in 0 .. MaxTries
  /\ \A w \in Crew : at[w] \in {"new", "script", "read", "write", "factory"}
  /\ \A w \in Crew : at[w] = "factory" <=> writer = w

\* Every worker that asks for a SharedArray has the same data set, the one that
\* was stored, however the constructors interleave and the factories fail.
OneDataSet == \A w \in Crew : (kind = "array" /\ has[w] # None) => has[w] = shared

\* Ids of sequentialId() are unique, over scenarios whose workers have the same
\* numbers too, while fewer are drawn than a worker's range has.
IdsUnique ==
  \A i, j \in ids : (i # j /\ counter <= Stride) => i[2] # j[2]

\* A worker that waits for a SharedArray gets on.
DataComes == \A w \in Crew : (at[w] \in {"read", "write"}) ~> (at[w] = "script")

\* "Data is shared across all workers."
CsvShared == \A v, w \in Crew : (kind = "csv" /\ has[v] # None /\ has[w] # None) => has[v] = has[w]

\* "Only logs from the matching scenario will be shown."
OnlyMatchingLogs == \A w \in lines : filter["main"] # None => w[1] = Filter
=============================================================================
