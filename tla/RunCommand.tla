----------------------------- MODULE RunCommand -----------------------------
(***************************************************************************)
(* `fusillade run' (main.rs) around Engine::run_load_test: the layers of   *)
(* the configuration, the dry run, the cost estimate (a run of its own),   *)
(* the console thread, setup and teardown, the report and its artifacts,   *)
(* the thresholds and the exit code.  What the workers do meanwhile is     *)
(* LoadTest and the executors'; here they leave a result.                  *)
(***************************************************************************)
EXTENDS Naturals, Sequences, FiniteSets, SequencesExt

CONSTANTS
  Thresholds,    \* sets of places (script, file, flag) that define thresholds
  QuickRuns,     \* TRUE: a run may end before the console thread has started
  None

VARIABLES
  opt,           \* the command line, the config file, the script's options
  pc,            \* where the main thread is
  run,           \* "estimate" or "full": the engine run under way
  criteria,      \* where the thresholds of the final configuration come from
  tui, active,   \* the console thread; TUI_ACTIVE
  halted,        \* the shared ControlState is stopped
  data,          \* what setup() returned
  result,        \* of the workers: iterations that threw, criteria missed
  breached,      \* threshold_failures of the report
  hooks,         \* history: the hooks called, with the data they got
  made,          \* of the full run: "summary", and "out" or "no out" for --out
  lost,          \* the summary went to the alternate screen
  history,       \* runs in fusillade_history.db
  exit           \* how the process ended, None while it runs

engineVars == <<data, result, breached, hooks, made, lost, history>>
runVars == <<opt, pc, run, criteria, tui, active, halted, engineVars, exit>>

\* mode: --dry-run, --estimate-cost at a terminal or not, or neither; spaced:
\* the conditions of the flags are written with spaces.
Options ==
  [mode : {"plain", "dry", "tty", "piped"}, headless : BOOLEAN, abort : BOOLEAN,
   thresholds : Thresholds, spaced : BOOLEAN, out : BOOLEAN, save : BOOLEAN]

RunInitWith(o) ==
  /\ opt = o
  /\ pc = "script" /\ run = "full" /\ criteria = {} /\ exit = None
  /\ tui = "none" /\ active = FALSE /\ halted = FALSE
  /\ data = None /\ result = [failed |-> FALSE, missed |-> {}] /\ breached = {}
  /\ hooks = <<>> /\ made = {} /\ lost = FALSE /\ history = <<>>

RunInit == \E o \in Options : RunInitWith(o)

At(p) == exit = None /\ pc = p

Goto(p) == pc' = p /\ UNCHANGED exit
Exit(how) == exit' = how /\ UNCHANGED pc

-----------------------------------------------------------------------------
(* The command line up to the run.                                         *)

\* Read, transpile, extract_config; the config file replaces what it sets, the
\* flags add their thresholds.
MergeFrom(self, overrides) == IF overrides # {} THEN overrides ELSE self

Configured ==
  MergeFrom(opt.thresholds \cap {"script"}, opt.thresholds \cap {"file"})
    \cup (opt.thresholds \cap {"flag"})

LoadConfig ==
  /\ At("script")
  /\ \/ Goto("plan") /\ criteria' = Configured
     \/ Exit("error") /\ UNCHANGED criteria
  /\ UNCHANGED <<opt, run, tui, active, halted, engineVars>>

Plan ==
  /\ At("plan")
  /\ \/ opt.mode = "dry" /\ Exit("ok") /\ UNCHANGED run
     \/ opt.mode \in {"tty", "piped"} /\ Goto("setup") /\ run' = "estimate"
     \/ opt.mode = "plain" /\ Goto("tui") /\ UNCHANGED run
  /\ UNCHANGED <<opt, criteria, tui, active, halted, engineVars>>

\* After the estimate the run goes on; somebody at a terminal is asked first, and
\* may leave the question open.
Proceed ==
  /\ At("prompt") /\ opt.mode # "tty"
  /\ Goto("tui") /\ run' = "full"
  /\ UNCHANGED <<opt, criteria, tui, active, halted, engineVars>>

Asked == At("prompt") /\ opt.mode = "tty"

Answer ==
  /\ Asked
  /\ \/ Goto("tui") /\ run' = "full"
     \/ Exit("ok") /\ UNCHANGED run
  /\ UNCHANGED <<opt, criteria, tui, active, halted, engineVars>>

StartTui ==
  /\ At("tui") /\ Goto("setup")
  /\ tui' = IF opt.headless THEN "none" ELSE "starting"
  /\ UNCHANGED <<opt, run, criteria, active, halted, engineVars>>

-----------------------------------------------------------------------------
(* Engine::run_load_test.                                                  *)

\* setup() may return data, return nothing or throw, which is only printed.
RunSetup ==
  /\ At("setup") /\ Goto("validate")
  /\ \E d \in {None, run} :
       /\ data' = d
       /\ hooks' = Append(hooks, <<run, "setup", d>>)
  /\ result' = [failed |-> FALSE, missed |-> {}] /\ breached' = {}
  /\ UNCHANGED <<opt, run, criteria, tui, active, halted, made, lost, history>>

\* The script does not compile or has no function to run; the test thread finds
\* an invalid scenario name or duration.
PreValidate ==
  /\ At("validate")
  /\ Goto("workers") \/ Exit("error")
  /\ UNCHANGED <<opt, run, criteria, tui, active, halted, engineVars>>

\* The workers' iterations, up to control_state.stop().  The estimate has a
\* ControlState of its own.
RunWorkers ==
  /\ At("workers") /\ Goto("await")
  /\ QuickRuns \/ tui # "starting"
  /\ \E f \in BOOLEAN, m \in SUBSET criteria : result' = [failed |-> f, missed |-> m]
  /\ halted' = (halted \/ run = "full")
  /\ hooks' = Append(hooks, <<run, "workers", data>>)
  /\ UNCHANGED <<opt, run, criteria, tui, active, data, breached, made, lost, history>>

\* Waits until TUI_ACTIVE is off, for three seconds at most: a console that failed
\* to set up the terminal left it set, and one that is slow may still be up.
AwaitTui ==
  /\ At("await") /\ Goto("report")
  /\ UNCHANGED <<opt, run, criteria, tui, active, halted, engineVars>>

\* merge, to_report, the summary, the exports, the summary post, the history.
PrintReport ==
  /\ At("report") /\ Goto("teardown")
  /\ made' = IF run = "full" THEN made \cup {"summary"} ELSE made
  /\ lost' = (lost \/ (run = "full" /\ tui \in {"shown", "leaving"}))
  /\ \/ history' = Append(history, run)
     \/ UNCHANGED history                                   \* the database does not open
  /\ UNCHANGED <<opt, run, criteria, tui, active, halted, data, result, breached, hooks>>

\* Both hooks' failures are ignored.
SummaryFirst(h, d) == h \o << <<run, "summary", None>>, <<run, "teardown", d>> >>
ForgetsData(h, d) == h \o << <<run, "teardown", None>>, <<run, "summary", None>> >>
CallHooks(h, d) == h \o << <<run, "teardown", d>>, <<run, "summary", None>> >>

RunTeardown ==
  /\ At("teardown") /\ Goto("judge")
  /\ hooks' = CallHooks(hooks, data)
  /\ UNCHANGED <<opt, run, criteria, tui, active, halted, data, result, breached, made, lost, history>>

\* validate_thresholds skips a condition without spaces; the flags may be
\* written either way.
Enforced(c) == c # "flag" \/ opt.spaced

Judge ==
  /\ At("judge")
  /\ breached' = {c \in result.missed : Enforced(c)}
  /\ IF opt.abort /\ breached' # {} THEN Exit("error")
     ELSE Goto(IF run = "estimate" THEN "prompt" ELSE "join")
  /\ UNCHANGED <<opt, run, criteria, tui, active, halted, data, result, hooks, made, lost, history>>

-----------------------------------------------------------------------------
(* The command line after the run.                                         *)

JoinTui ==
  /\ At("join") /\ tui \in {"none", "gone"} /\ Goto("out")
  /\ UNCHANGED <<opt, run, criteria, tui, active, halted, engineVars>>

\* --out and --save-history; what fails is only printed, an unknown --out not even
\* that.
Export ==
  /\ At("out") /\ Goto("exit")
  /\ IF opt.out THEN \E o \in {"out", "no out"} : made' = made \cup {o} ELSE UNCHANGED made
  /\ \/ opt.save /\ history' = Append(history, "full")
     \/ UNCHANGED history
  /\ UNCHANGED <<opt, run, criteria, tui, active, halted, data, result, breached, hooks, lost>>

BreachesOnly == breached # {}
RunFailed == result.failed \/ breached # {}

ExitCode ==
  /\ At("exit") /\ Exit(IF RunFailed THEN "failed" ELSE "ok")
  /\ UNCHANGED <<opt, run, criteria, tui, active, halted, engineVars>>

-----------------------------------------------------------------------------
(* The console thread: run_tui and its TerminalGuard.                      *)

TuiMoves(from, to) == exit = None /\ tui = from /\ tui' = to
OthersUnchanged == UNCHANGED <<opt, pc, run, criteria, halted, engineVars, exit>>

TuiStart == TuiMoves("starting", "raw") /\ active' = TRUE /\ OthersUnchanged

TuiSetup ==
  /\ TuiMoves("raw", "shown") \/ TuiMoves("raw", "gone")
  /\ UNCHANGED active /\ OthersUnchanged

NeverSeesStop == FALSE
SeesStop == halted

\* The loop ends when the test has stopped; the guard clears the flag, then
\* leaves the alternate screen.
TuiEnds == TuiMoves("shown", "leaving") /\ SeesStop /\ active' = FALSE /\ OthersUnchanged
TuiLeaves == TuiMoves("leaving", "gone") /\ UNCHANGED active /\ OthersUnchanged

\* The user quits, or drawing fails.
TuiQuits == TuiMoves("shown", "leaving") /\ active' = FALSE /\ OthersUnchanged

Engine == RunSetup \/ PreValidate \/ RunWorkers \/ AwaitTui \/ PrintReport \/ RunTeardown \/ Judge
Main == LoadConfig \/ Plan \/ Proceed \/ StartTui \/ Engine \/ JoinTui \/ Export \/ ExitCode
Tui == TuiStart \/ TuiSetup \/ TuiEnds \/ TuiLeaves

RunNext == Main \/ Answer \/ Tui \/ TuiQuits

\* Both threads are scheduled by the operating system; the user owes no answer.
RunFairness == WF_runVars(Main) /\ WF_runVars(Tui)

-----------------------------------------------------------------------------
\* The exit code tells: after a full run it is 0 only if neither a script threw nor
\* an enforced threshold was missed, and it says that the run failed only if one
\* of them was so, after the summary and an attempt at the export.
Good == ~result.failed /\ \A c \in result.missed : ~Enforced(c)
Attempted == opt.out => made \cap {"out", "no out"} # {}

ExitTells ==
  /\ (exit = "ok" /\ "summary" \in made) => Good
  /\ exit = "failed" => ~Good /\ "summary" \in made /\ Attempted

Life(r, d) == << <<r, "setup", d>>, <<r, "workers", d>>, <<r, "teardown", d>>, <<r, "summary", None>> >>

\* Each engine run calls its hooks in order, once, and hands to the workers and
\* to teardown what its own setup returned; the full run starts after the
\* estimate's teardown.
HooksInOrder ==
  \E d, e \in {None, "estimate", "full"} :
    \/ IsPrefix(hooks, Life("full", d))
    \/ IsPrefix(hooks, Life("estimate", e) \o Life("full", d))

\* The command comes back, whoever fails, unless the user leaves the cost prompt
\* open: nobody waits for a console that does not end.
CommandEnds == <>(exit # None) \/ <>[]Asked

-----------------------------------------------------------------------------
\* The summary is not printed while the console owns the screen.
SummaryVisible == ~lost

\* "Exports and history saves above still run first, so artifacts are produced
\* even on failure", if the export itself does not fail.
ArtifactsOnFailure == (exit # None /\ breached # {} /\ run = "full") => Attempted

\* "--threshold 'http_req_duration:p95<500'": a threshold of the command line
\* that is missed fails the run.
FlagsEnforced == (exit = "ok" /\ "summary" \in made) => "flag" \notin result.missed

\* The process does not leave the terminal to a console that is still running.
TerminalRestored == exit # None => tui \in {"none", "starting", "gone"}

\* "Fusillade automatically saves every test run": each run once.
SavedOnce == \A r \in {"estimate", "full"} : Cardinality({i \in DOMAIN history : history[i] = r}) <= 1

\* What setup made, teardown gets to clean up.
SetupCleanedUp ==
  exit # None => \A i \in DOMAIN hooks : hooks[i][2] = "setup" =>
                   \E j \in DOMAIN hooks : hooks[j][2] = "teardown" /\ hooks[j][1] = hooks[i][1]
=============================================================================
