------------------------------ MODULE Console ------------------------------
(***************************************************************************)
(* The control path of a run with the TUI: the TUI thread (tui/mod.rs)     *)
(* turns keys into control commands and draws from the atomics of          *)
(* ControlState (engine/control.rs); the test thread takes the commands    *)
(* from their queue and updates those atomics.  Every load and store of an *)
(* atomic that the other thread can see is a step of its own, and so is    *)
(* every reading of the clock.                                             *)
(*                                                                         *)
(* Times are milliseconds of reference_instant, starting at 1: setup has   *)
(* taken at least one when the main loop starts.  The endpoint scroll      *)
(* position and the snapshot tables are left out.                          *)
(***************************************************************************)
EXTENDS Integers, Sequences, SequencesExt

CONSTANTS
  Keys,            \* keys the user presses
  InitialWorkers,  \* config.workers
  MaxKeys,         \* BOUND: keys pressed in a behaviour
  MaxNow           \* BOUND: the clock stops here

AllKeys == {"q", "esc", "ctrl_c", "p", "s", "+", "-", "r", "a", "t",
            "0", "2", "=", "enter", "backspace"}

ASSUME ConsoleAssumption ==
  /\ Keys \subseteq AllKeys
  /\ InitialWorkers \in Nat \ {0}
  /\ MaxKeys \in Nat /\ MaxNow \in Nat \ {0}

VARIABLES
  now,       \* the clock
  paused, pause_started_ms, total_paused_ms, target_workers, stopped,
  cmds,      \* the queue of control commands
  epc,       \* where the test thread is
  swapped,   \* resume()'s local `started`
  clock,     \* pause()'s or resume()'s local `now_ms`
  mode,      \* input_mode: "normal", "ramp" or "tag"
  text,      \* the text typed in that mode, as a sequence of keys
  tpc,       \* where the TUI thread is
  readTotal, \* total_paused()'s local `total`
  readStart, \* total_paused()'s local `started`
  shown,     \* the paused time the header shows, and when it was read
  pressed,   \* keys pressed so far (bound only)
  flagTime,  \* history: milliseconds during which `paused` was up
  callTime,  \* history: milliseconds spent in pause() or resume(), flag down
  late,      \* history: milliseconds the header spent between its load of the
             \* start and its look at the clock, flag down and no call going on
  repeated,  \* history: a pause() met a run that was paused already
  ups,       \* history: "+" and "=" keys in normal mode
  tui_active, \* TUI_ACTIVE
  deadline   \* tui_teardown_deadline has passed

controlVars == <<paused, pause_started_ms, total_paused_ms, target_workers, stopped>>
engineVars  == <<epc, swapped, clock, repeated, deadline>>
readVars    == <<readTotal, readStart>>
tuiVars     == <<mode, text, tpc, readVars, shown, pressed, ups, tui_active>>
timeVars    == <<now, flagTime, callTime, late>>
consoleVars == <<controlVars, engineVars, tuiVars, timeVars, cmds>>

ConsoleInit ==
  /\ now = 1
  /\ paused = FALSE /\ pause_started_ms = 0 /\ total_paused_ms = 0
  /\ target_workers = InitialWorkers /\ stopped = FALSE
  /\ cmds = <<>>
  /\ epc = "loop" /\ swapped = 0 /\ clock = 0
  /\ mode = "normal" /\ text = <<>>
  /\ tpc \in {"draw", "broken"}   \* enable_raw_mode()? may fail: no guard yet
  /\ tui_active = TRUE /\ deadline = FALSE
  /\ readTotal = 0 /\ readStart = 0 /\ shown = 0 /\ pressed = 0
  /\ flagTime = 0 /\ callTime = 0 /\ late = 0 /\ repeated = FALSE /\ ups = 0

InCall == epc \in {"pause_store", "pause_raise", "resume_swap", "resume_clock", "resume_add"}

Tick ==
  /\ now < MaxNow
  /\ now' = now + 1
  /\ flagTime' = IF paused THEN flagTime + 1 ELSE flagTime
  /\ callTime' = IF InCall /\ ~paused THEN callTime + 1 ELSE callTime
  /\ late' = IF tpc = "draw_clock" /\ ~paused /\ ~InCall THEN late + 1 ELSE late
  /\ UNCHANGED <<controlVars, engineVars, tuiVars, cmds>>

-----------------------------------------------------------------------------
(* The test thread: commands, one at a time.                               *)

Take == epc = "loop" /\ cmds # <<>> /\ cmds' = Tail(cmds)

\* pause(): read the clock ...
PauseReads ==
  /\ Take /\ Head(cmds).op = "pause"
  /\ clock' = now
  /\ epc' = "pause_store"
  /\ repeated' = (repeated \/ paused)
  /\ UNCHANGED <<deadline, controlVars, swapped, tuiVars, timeVars>>

\* ... store what it said, then raise the flag.
PauseStarts ==
  /\ epc = "pause_store"
  /\ pause_started_ms' = clock
  /\ epc' = "pause_raise"
  /\ UNCHANGED <<deadline, paused, total_paused_ms, target_workers, stopped, swapped,
                 clock, repeated, tuiVars, timeVars, cmds>>

PauseRaises ==
  /\ epc = "pause_raise"
  /\ paused' = TRUE
  /\ epc' = "loop"
  /\ UNCHANGED <<deadline, pause_started_ms, total_paused_ms, target_workers, stopped,
                 swapped, clock, repeated, tuiVars, timeVars, cmds>>

\* resume(): lower the flag, swap the start for 0 ...
ResumeLowers ==
  /\ Take /\ Head(cmds).op = "resume"
  /\ paused' = FALSE
  /\ epc' = "resume_swap"
  /\ UNCHANGED <<deadline, pause_started_ms, total_paused_ms, target_workers, stopped,
                 swapped, clock, repeated, tuiVars, timeVars>>

\* Faulty variant: the start is read and not reset.
ResumeLoads ==
  /\ epc = "resume_swap"
  /\ swapped' = pause_started_ms
  /\ epc' = IF swapped' > 0 THEN "resume_clock" ELSE "loop"
  /\ UNCHANGED <<deadline, controlVars, clock, repeated, tuiVars, timeVars, cmds>>

ResumeSwaps ==
  /\ epc = "resume_swap"
  /\ swapped' = pause_started_ms
  /\ pause_started_ms' = 0
  /\ epc' = IF swapped' > 0 THEN "resume_clock" ELSE "loop"
  /\ UNCHANGED <<deadline, paused, total_paused_ms, target_workers, stopped, clock,
                 repeated, tuiVars, timeVars, cmds>>

\* ... read the clock, and add the difference.
ResumeReads ==
  /\ epc = "resume_clock"
  /\ clock' = now
  /\ epc' = "resume_add"
  /\ UNCHANGED <<deadline, controlVars, swapped, repeated, tuiVars, timeVars, cmds>>

ResumeAdds ==
  /\ epc = "resume_add"
  /\ total_paused_ms' = total_paused_ms + (clock - swapped)
  /\ epc' = "loop"
  /\ UNCHANGED <<deadline, paused, pause_started_ms, target_workers, stopped, swapped,
                 clock, repeated, tuiVars, timeVars, cmds>>

\* Faulty variant: Ramp(0) is stored as a target.
HandleRampStoresZero ==
  /\ Take /\ Head(cmds).op = "ramp"
  /\ target_workers' = Head(cmds).n
  /\ UNCHANGED <<paused, pause_started_ms, total_paused_ms, stopped, engineVars,
                 tuiVars, timeVars>>

\* Ramp(n) stores the target, Ramp(0) does not.
HandleRamp ==
  /\ Take /\ Head(cmds).op = "ramp"
  /\ target_workers' = IF Head(cmds).n = 0 THEN target_workers ELSE Head(cmds).n
  /\ UNCHANGED <<paused, pause_started_ms, total_paused_ms, stopped, engineVars,
                 tuiVars, timeVars>>

HandleTag ==
  /\ Take /\ Head(cmds).op = "tag"
  /\ UNCHANGED <<controlVars, engineVars, tuiVars, timeVars>>

\* Stop, or the natural end of the test: the main loop is left and the stopped
\* flag raised for the TUI to see.
LoopEnds ==
  /\ \/ Take /\ Head(cmds).op = "stop"
     \/ epc = "loop" /\ UNCHANGED cmds
  /\ stopped' = TRUE
  /\ epc' = "wait"
  /\ UNCHANGED <<deadline, paused, pause_started_ms, total_paused_ms, target_workers,
                 swapped, clock, repeated, tuiVars, timeVars>>

\* The wait for the TUI is given up after 3 s.
WaitTimesOut ==
  /\ epc = "wait"
  /\ ~deadline
  /\ deadline' = TRUE
  /\ UNCHANGED <<controlVars, epc, swapped, clock, repeated, tuiVars, timeVars, cmds>>

\* The summary waits for TUI_ACTIVE to go down, or for the deadline.
PrintSummary ==
  /\ epc = "wait"
  /\ ~tui_active \/ deadline
  /\ epc' = "printed"
  /\ UNCHANGED <<controlVars, deadline, swapped, clock, repeated, tuiVars, timeVars, cmds>>

Engine ==
  \/ PauseReads \/ PauseStarts \/ PauseRaises
  \/ ResumeLowers \/ ResumeSwaps \/ ResumeReads \/ ResumeAdds
  \/ HandleRamp \/ HandleTag \/ LoopEnds \/ WaitTimesOut \/ PrintSummary

\* The steps the scheduling owes: commands are handled, calls are finished.
EngineDuty == Engine /\ (epc = "loop" => cmds' # cmds)

-----------------------------------------------------------------------------
(* The TUI thread: draw, poll for a key, look at the stopped flag.         *)

tuiFrame == <<controlVars, engineVars, timeVars>>

\* total_paused(): load the total ...
DrawTotal ==
  /\ tpc = "draw"
  /\ readTotal' = total_paused_ms
  /\ tpc' = "draw_paused"
  /\ UNCHANGED <<tuiFrame, tui_active, cmds, mode, text, readStart, shown, pressed, ups>>

\* ... then the flag, and without a pause going on return the total ...
DrawPaused ==
  /\ tpc = "draw_paused"
  /\ IF paused THEN tpc' = "draw_started" /\ UNCHANGED shown
               ELSE tpc' = "poll" /\ shown' = readTotal
  /\ UNCHANGED <<tuiFrame, tui_active, cmds, mode, text, readVars, pressed, ups>>

\* ... else load the start of the pause, which a resume() may have taken ...
DrawStarted ==
  /\ tpc = "draw_started"
  /\ readStart' = pause_started_ms
  /\ IF pause_started_ms > 0 THEN tpc' = "draw_clock" /\ UNCHANGED shown
                             ELSE tpc' = "poll" /\ shown' = readTotal
  /\ UNCHANGED <<tuiFrame, tui_active, cmds, mode, text, readTotal, pressed, ups>>

\* ... and add what the clock, read last, makes of it.
DrawClock ==
  /\ tpc = "draw_clock"
  /\ shown' = readTotal + (now - readStart)
  /\ tpc' = "poll"
  /\ UNCHANGED <<tuiFrame, tui_active, cmds, mode, text, readVars, pressed, ups>>

Post(op, n) == cmds' = Append(cmds, [op |-> op, n |-> n])

AtLeast1(n) == IF n < 1 THEN 1 ELSE n

\* handle_normal_key: the paused flag and the target are read here, when the
\* key is pressed, and acted upon when the test thread takes the command.
NormalKey(k) ==
  /\ mode = "normal"
  /\ \/ k \in {"q", "esc", "ctrl_c", "s"} /\ Post("stop", 0)
        /\ UNCHANGED <<mode, text, ups>>
     \/ k = "p" /\ Post(IF paused THEN "resume" ELSE "pause", 0)
        /\ UNCHANGED <<mode, text, ups>>
     \/ k \in {"+", "="} /\ Post("ramp", target_workers + 10)
        /\ ups' = ups + 1 /\ UNCHANGED <<mode, text>>
     \/ k = "-" /\ Post("ramp", AtLeast1(target_workers - 10))
        /\ UNCHANGED <<mode, text, ups>>
     \/ k = "a" /\ Post("ramp", 0) /\ UNCHANGED <<mode, text, ups>>
     \/ k = "r" /\ mode' = "ramp" /\ text' = <<>> /\ UNCHANGED <<cmds, ups>>
     \/ k = "t" /\ mode' = "tag" /\ text' = <<>> /\ UNCHANGED <<cmds, ups>>
     \/ k \in {"0", "2", "enter", "backspace"} /\ UNCHANGED <<cmds, mode, text, ups>>

Erased == IF text = <<>> THEN text ELSE Front(text)
Digit(k) == IF k = "2" THEN 2 ELSE 0
Number == FoldLeft(LAMBDA n, k : 10 * n + Digit(k), 0, text)

\* handle_ramp_key
RampKey(k) ==
  /\ mode = "ramp"
  /\ \/ k = "esc" /\ mode' = "normal" /\ UNCHANGED <<cmds, text>>
     \/ k = "enter" /\ mode' = "normal" /\ UNCHANGED text
        /\ IF text = <<>> THEN UNCHANGED cmds ELSE Post("ramp", Number)
     \/ k \in {"0", "2"} /\ text' = Append(text, k) /\ UNCHANGED <<cmds, mode>>
     \/ k = "backspace" /\ text' = Erased /\ UNCHANGED <<cmds, mode>>
     \/ k \notin {"esc", "enter", "0", "2", "backspace"} /\ UNCHANGED <<cmds, mode, text>>
  /\ UNCHANGED ups

\* handle_tag_key: every character is text, Ctrl+C's "c" too.
TagKey(k) ==
  /\ mode = "tag"
  /\ \/ k = "esc" /\ mode' = "normal" /\ UNCHANGED <<cmds, text>>
     \/ k = "enter" /\ mode' = "normal" /\ UNCHANGED text
        /\ IF \E i \in DOMAIN text : text[i] = "=" THEN Post("tag", 0) ELSE UNCHANGED cmds
     \/ k = "backspace" /\ text' = Erased /\ UNCHANGED <<cmds, mode>>
     \/ k \notin {"esc", "enter", "backspace"} /\ text' = Append(text, k)
        /\ UNCHANGED <<cmds, mode>>
  /\ UNCHANGED ups

Quits(k) == mode = "normal" /\ k \in {"q", "esc", "ctrl_c"}

\* A key is read and handled; a quitting key breaks the TUI loop.
Key(k) ==
  /\ tpc = "poll"
  /\ pressed < MaxKeys
  /\ pressed' = pressed + 1
  /\ NormalKey(k) \/ RampKey(k) \/ TagKey(k)
  /\ tpc' = IF Quits(k) THEN "closed" ELSE "check"
  /\ tui_active' = ~Quits(k)
  /\ UNCHANGED <<tuiFrame, readVars, shown>>

\* The poll times out.
NoKey ==
  /\ tpc = "poll"
  /\ tpc' = "check"
  /\ UNCHANGED <<tuiFrame, tui_active, cmds, mode, text, readVars, shown, pressed, ups>>

\* Faulty variant: the stopped flag is not looked at.
CheckStoppedNever ==
  /\ tpc = "check"
  /\ tpc' = "draw"
  /\ UNCHANGED <<tuiFrame, tui_active, cmds, mode, text, readVars, shown, pressed, ups>>

\* A stopped test ends the TUI loop; the guard lowers TUI_ACTIVE.
CheckStopped ==
  /\ tpc = "check"
  /\ tpc' = IF stopped THEN "closed" ELSE "draw"
  /\ tui_active' = ~stopped
  /\ UNCHANGED <<tuiFrame, cmds, mode, text, readVars, shown, pressed, ups>>

\* The terminal fails: run_tui returns an error, the guard lowers TUI_ACTIVE,
\* and nobody stops the test.
TuiBreaks ==
  /\ tpc \in {"draw", "draw_paused", "draw_started", "draw_clock", "poll", "check"}
  /\ tpc' = "broken"
  /\ tui_active' = FALSE
  /\ UNCHANGED <<tuiFrame, cmds, mode, text, readVars, shown, pressed, ups>>

Tui == DrawTotal \/ DrawPaused \/ DrawStarted \/ DrawClock \/ NoKey \/ CheckStopped

-----------------------------------------------------------------------------
TuiGone == tpc \in {"closed", "broken"}

Over == epc = "printed" /\ TuiGone /\ UNCHANGED consoleVars

ConsoleNext ==
  \/ Tick \/ Engine \/ Tui \/ TuiBreaks \/ (\E k \in Keys : Key(k)) \/ Over

\* Both threads are OS threads; nobody has to press a key, no test has to end.
Fairness == WF_consoleVars(EngineDuty) /\ WF_consoleVars(Tui)

ConsoleSpec == ConsoleInit /\ [][ConsoleNext]_consoleVars /\ Fairness

-----------------------------------------------------------------------------
TypeOK ==
  /\ now \in 1 .. MaxNow
  /\ {paused, stopped, repeated} \subseteq BOOLEAN
  /\ {pause_started_ms, total_paused_ms, swapped, clock} \subseteq 0 .. MaxNow
  /\ {shown, readTotal, readStart} \subseteq 0 .. MaxNow
  /\ target_workers \in Nat \ {0}
  /\ InCall \/ epc \in {"loop", "wait", "printed"}
  /\ mode \in {"normal", "ramp", "tag"} /\ text \in Seq(Keys)
  /\ tpc \in {"draw", "draw_paused", "draw_started", "draw_clock", "poll", "check",
              "closed", "broken"}
  /\ tui_active \in BOOLEAN /\ deadline \in BOOLEAN

\* total_paused() as the main loop calls it, between commands.
TotalPaused == total_paused_ms + (IF paused /\ pause_started_ms > 0
                                  THEN now - pause_started_ms ELSE 0)

\* The header reads three atomics and the clock one by one while pause() and
\* resume() change them.  It may meet a resume() between its load of the start
\* and its look at the clock, and then counts the time in between as paused; it
\* overstates the paused time, and with it the time left, by that and nothing
\* more (ControlState::total_paused).
OverstatedByDelay == shown <= flagTime + callTime + late

\* Between two commands the paused time is complete, unless pause() was called
\* on a run already paused (ControlState::pause / resume).
CompleteUnlessRepeated ==
  (epc = "loop" /\ ~repeated) => /\ flagTime <= TotalPaused
                                 /\ TotalPaused <= flagTime + callTime

\* Both together: what ControlState says of the paused time at the two places
\* that use it, the header and the main loop.
PausedTimeHonest == OverstatedByDelay /\ CompleteUnlessRepeated

\* However the test ends -- by key, by command or on its own -- both the TUI and
\* the test thread get out, neither waiting for the other for ever, also when
\* the terminal fails before the guard that lowers TUI_ACTIVE exists.
BothGetOut == (stopped \/ tpc = "closed") ~> (TuiGone /\ epc = "printed")

-----------------------------------------------------------------------------
(* What documentation and comments say and the code does not do.           *)

\* "Returns total time spent paused (including current pause ...)".
TotalPausedIsTotal == epc = "loop" => flagTime <= TotalPaused

\* ... nor is it the total for the header, which can count time after a resume().
NeverOverstated == shown <= flagTime + callTime

\* "Increase workers by 10": after nothing but `+` keys, all of them handled.
PlusAddsTen ==
  (cmds = <<>> /\ epc = "loop" /\ pressed = ups) =>
    target_workers = InitialWorkers + 10 * ups

\* "Force quit": Ctrl+C closes the TUI.
CtrlCQuits == [][Key("ctrl_c") => tpc' = "closed"]_consoleVars
=============================================================================
