----------------------------- MODULE MCCommands -----------------------------
(***************************************************************************)
(* Model checking of the command line and of the functions its runs rest   *)
(* on.  A behaviour is that of one `part'; the variables of the others     *)
(* keep their initial values.                                              *)
(***************************************************************************)
EXTENDS Integers, Sequences

CONSTANTS
  Parts, None, Unset,
  MaxStages, MaxDur, MaxTarget,                           \* MCSchedule
  Metrics, Criteria,                                      \* Statistics
  MaxMetrics, Shards, HistMax, MaxLogs, MaxPacket,
  QuickRuns,                                              \* RunCommand
  MaxEdits, Clients                                       \* Commands

\* None is no number, no fraction and no way for a process to end; a histogram
\* takes a microsecond ...
ASSUME CommandAssumption ==
  /\ Shards \in Nat /\ HistMax \in Nat \ {0}
  /\ None \notin Nat /\ None \notin Nat \X Nat /\ None \notin {"ok", "failed"}

\* ... and no more than its buckets cover (an hour in the code, which is less).
ASSUME HistogramAssumption == HistMax \div 256 < 16777216

\* Requests have a duration, histograms and counters a value; thresholds compare
\* with whole numbers.
ASSUME MetricAssumption ==
  /\ \A m \in Metrics :
       \/ m.kind = "request" /\ m.dur \in Nat
       \/ m.kind \in {"check", "log", "gauge", "rate"}
       \/ m.kind \in {"histogram", "counter"} /\ m.value \in Nat
  /\ \A c \in Criteria : c.words \in Nat /\ c.value[1] \in Nat /\ c.value = <<c.value[1], 1>>

VARIABLES
  part,
  schedule, elapsed,
  shard, log,
  opt, pc, run, criteria, tui, active, halted, data, result, breached, hooks, made, lost,
  history, exit,
  file, lastModified, watch, content, ran, stage, recorded, forwarded, saved

\* A request: the segments and the name, how long it took, how it ended, and the
\* scenario of the worker.  0 is recorded as 1; 400, 1600 and 70000 lie in buckets
\* of 2, 16 and beyond the histogram.
Request(group, what, dur, status, error, by) ==
  [kind |-> "request", name |-> [group |-> group, what |-> what], dur |-> dur,
   status |-> status, error |-> error, by |-> by]

TestMetrics ==
  { Request(<<>>, "ping", 0, 200, None, "browse"), Request(<<>>, "home", 400, 200, None, "login"),
    Request(<<>>, "home", 70000, 0, "timeout", "login"),
    Request(<<"browse">>, "home", 1600, 500, None, "login"),
    Request(<<"login", "browse">>, "home", 3000, 500, None, "browse"),
    Request(<<"login">>, "iteration", 2000, 0, "thrown", "login"),
    Request(<<"login">>, "iteration_total", 2500, 0, "thrown", "login"),
    [kind |-> "check", name |-> "ok", success |-> TRUE],
    [kind |-> "check", name |-> "ok", success |-> FALSE],
    [kind |-> "log", name |-> "line"],
    [kind |-> "histogram", name |-> "size", value |-> 3],
    [kind |-> "counter", name |-> "items", value |-> 2],
    [kind |-> "gauge", name |-> "users", value |-> 1],
    [kind |-> "gauge", name |-> "users", value |-> 2],
    [kind |-> "rate", name |-> "won", success |-> TRUE] }

Criterion(metric, check, op, value, words) ==
  [metric |-> metric, check |-> check, op |-> op, value |-> <<value, 1>>, words |-> words]

TestCriteria ==
  { Criterion("http_req_duration", "max", "<", 2, 3), Criterion("http_req_duration", "max", "<", 2, 1),
    Criterion("http_req_duration", "min", ">", 0, 3), Criterion("http_req_duration", "p95", "<=", 1, 3),
    Criterion("http_req_failed", "rate", "<", 1, 3), Criterion("won", "rate", ">=", 1, 3),
    Criterion("items", "count", ">", 1, 3), Criterion("users", "value", "==", 2, 3),
    Criterion("size", "avg", "<", 3, 3) }

Thresholds == {{}, {"script", "file"}, {"script", "flag"}}

Stages == INSTANCE MCSchedule
Stats == INSTANCE Statistics
Cli == INSTANCE RunCommand
Cmds == INSTANCE Commands

stages == <<schedule, elapsed>>
stats == <<shard, log>>
cli == <<opt, pc, run, criteria, tui, active, halted, data, result, breached, hooks, made, lost,
         history, exit>>
commands == <<file, lastModified, watch, content, ran, stage, recorded, forwarded, saved>>
commandVars == <<part, stages, stats, cli, commands>>

NoOptions == CHOOSE o \in Cli!Options : TRUE

Init ==
  /\ part \in Parts
  /\ IF part = "schedule" THEN Stages!Init ELSE schedule = <<>> /\ elapsed = 0
  /\ Stats!StatInit
  /\ \E o \in IF part = "run" THEN Cli!Options ELSE {NoOptions} : Cli!RunInitWith(o)
  /\ Cmds!CommandInit

Scheduled == part = "schedule" /\ Stages!Next /\ UNCHANGED <<part, stats, cli, commands>>
Counting == part = "statistics" /\ Stats!StatNext /\ UNCHANGED <<part, stages, cli, commands>>
MainThread == part = "run" /\ Cli!Main /\ UNCHANGED <<part, stages, stats, commands>>
TuiThread == part = "run" /\ Cli!Tui /\ UNCHANGED <<part, stages, stats, commands>>
UserAnswers == part = "run" /\ Cli!Answer /\ UNCHANGED <<part, stages, stats, commands>>
TuiQuits == part = "run" /\ Cli!TuiQuits /\ UNCHANGED <<part, stages, stats, commands>>
Watching == part = "watch" /\ Cmds!WatchSteps /\ UNCHANGED <<part, stages, stats, cli>>
Editing == part = "watch" /\ Cmds!Edit /\ UNCHANGED <<part, stages, stats, cli>>
Recording == part = "record" /\ Cmds!Record /\ UNCHANGED <<part, stages, stats, cli>>

Next ==
  \/ Scheduled \/ Counting
  \/ MainThread \/ UserAnswers \/ TuiThread \/ TuiQuits
  \/ Watching \/ Editing \/ Recording

\* The threads of a run and the watch loop are scheduled; the user is not.
Spec ==
  /\ Init /\ [][Next]_commandVars
  /\ WF_commandVars(MainThread) /\ WF_commandVars(TuiThread) /\ WF_commandVars(Watching)

-----------------------------------------------------------------------------
\* Schedule: the target is on the line between the stages' targets.
TargetIsOnTheLine == part = "schedule" => Stages!TargetIsOnTheLine

\* Schedule: rate and target part only at the end of the schedule.
EndsDiffer == part = "schedule" => Stages!EndsDiffer

\* Schedule: within a stage the target moves towards the stage's target.
MovesTowardsStageTarget == Stages!MovesTowardsStageTarget

\* Statistics: the merge of the shards counts what one aggregator would.
MergeIsWhole == part = "statistics" => Stats!MergeIsWhole

\* Statistics: the report and the verdicts are about the requests made.
ReportIsOfRequests == part = "statistics" => Stats!ReportIsOfRequests /\ Stats!VerdictIsOfRequests

\* Statistics: a scenario is judged by what was recorded under its name.
JudgedBySegments == part = "statistics" => Stats!JudgedBySegments

\* Statistics: the exporters agree on every measure.
ExportersAgree == part = "statistics" => Stats!ExportersAgree

\* Run: the exit code tells whether the run was good.
ExitTells == part = "run" => Cli!ExitTells

\* Run: setup, workers, teardown and handleSummary, in order, with their data.
HooksInOrder == part = "run" => Cli!HooksInOrder

\* Run: the command comes back, unless the cost prompt is left open.
CommandEnds == part = "run" => Cli!CommandEnds

\* Watch: the last edit is the one that was run last.
LastEditRuns == part = "watch" => Cmds!LastEditRuns

\* Record: the flow holds every request that was forwarded.
FlowComplete == part = "record" => Cmds!FlowComplete

-----------------------------------------------------------------------------
\* "... evaluate thresholds only against that scenario's metrics."
ScenarioSeesRequests == part = "statistics" => Stats!ScenarioSeesRequests

\* http_req_failed is the share of the requests that failed.
FailedRateIsOfRequests == part = "statistics" => Stats!FailedRateIsOfRequests

\* Gauges: "take the last value".
GaugeIsLast == part = "statistics" => Stats!GaugeIsLast

\* The summary is not printed while the console owns the screen.
SummaryVisible == Cli!SummaryVisible

\* "... artifacts are produced even on failure."
ArtifactsOnFailure == Cli!ArtifactsOnFailure

\* "--threshold 'http_req_duration:p95<500'".
FlagsEnforced == Cli!FlagsEnforced

\* The process leaves no console behind.
TerminalRestored == Cli!TerminalRestored

\* "Fusillade automatically saves every test run": each run once.
SavedOnce == Cli!SavedOnce

\* What setup made, teardown gets to clean up.
SetupCleanedUp == Cli!SetupCleanedUp
=============================================================================
