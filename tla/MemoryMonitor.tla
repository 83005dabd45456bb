--------------------------- MODULE MemoryMonitor ---------------------------
(***************************************************************************)
(* The memory monitor thread of a run with `memory_safe` (engine/          *)
(* memory.rs), the two flags its callbacks set (engine/mod.rs) and the     *)
(* test the main loop makes before it spawns workers.  Usage is abstracted *)
(* to the three bands the thresholds of 85 % and 95 % cut out.             *)
(***************************************************************************)
CONSTANT MemorySafe   \* config.memory_safe

ASSUME MemoryAssumption == MemorySafe \in BOOLEAN

VARIABLES
  usage,            \* band of the system's memory usage (environment)
  monitoring,       \* the monitor thread runs
  warned,           \* the thread's local flag
  memory_throttle,  \* set by on_warning
  memory_critical   \* set by on_critical

memoryVars == <<usage, monitoring, warned, memory_throttle, memory_critical>>

Usage == {"low", "warn", "critical"}

MemoryInit ==
  /\ usage \in IF MemorySafe THEN Usage ELSE {"low"}
  /\ monitoring = MemorySafe
  /\ warned = FALSE
  /\ memory_throttle = FALSE
  /\ memory_critical = FALSE

\* The system's memory usage moves to another band.
UsageChanges ==
  /\ MemorySafe
  /\ usage' \in Usage \ {usage}
  /\ UNCHANGED <<monitoring, warned, memory_throttle, memory_critical>>

\* One turn of the monitor thread: sample, then call at most one callback.
MonitorCheck ==
  /\ monitoring
  /\ \/ /\ usage = "critical"
        /\ memory_critical' = TRUE
        /\ UNCHANGED <<warned, memory_throttle>>
     \/ /\ usage = "warn" /\ ~warned
        /\ warned' = TRUE
        /\ memory_throttle' = TRUE
        /\ UNCHANGED memory_critical
     \/ /\ usage = "low"
        /\ warned' = FALSE
        /\ UNCHANGED <<memory_throttle, memory_critical>>
  /\ UNCHANGED <<usage, monitoring>>

\* MemoryMonitor is dropped when the test thread returns: the thread ends.
MonitorDrop ==
  /\ monitoring' = FALSE
  /\ UNCHANGED <<usage, warned, memory_throttle, memory_critical>>

\* Faulty variant: recovery is noticed but the flag stays set.
SpawnBlockedForGood == memory_throttle

\* The main loop wants to spawn: it may not while throttled, unless a fresh
\* sample shows that memory has recovered.
SpawnBlocked == memory_throttle /\ usage # "low"

\* The flags after a spawn that was not blocked.
ClearThrottle ==
  /\ memory_throttle' = FALSE
  /\ memory_critical' = IF memory_throttle THEN FALSE ELSE memory_critical
  /\ UNCHANGED <<usage, monitoring, warned>>

MemoryTypeOK ==
  /\ usage \in Usage
  /\ {monitoring, warned, memory_throttle, memory_critical} \subseteq BOOLEAN
=============================================================================
