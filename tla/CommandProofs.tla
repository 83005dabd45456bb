---------------------------- MODULE CommandProofs ----------------------------
(***************************************************************************)
(* Proofs about the main thread of `fusillade run' and about its console,  *)
(* which are two components, each with its own variables:                  *)
(*   - Console, for any keys, any number of them and any length of the     *)
(*     run: what ControlState says of the paused time is right for the     *)
(*     header, which reads the atomics one by one, and for the main loop;  *)
(*   - RunCommand, as MCCommands instantiates it, for any sources of       *)
(*     thresholds: what the exit code tells, and the order of the hooks.   *)
(* And about the proxy of `fusillade record' (Commands): what it saves.    *)
(***************************************************************************)
EXTENDS Console, MCCommands, SequenceTheorems, TLAPS

-----------------------------------------------------------------------------
(* The inductive invariant.  A pause that is going on, or that a resume()  *)
(* has not added yet, is pending: its start is in pause_started_ms until   *)
(* resume() swaps it out, then in resume()'s local.                        *)

Pending ==
  IF epc = "resume_add" THEN clock - swapped
  ELSE IF epc = "resume_clock" THEN now - swapped
  ELSE IF pause_started_ms > 0 THEN now - pause_started_ms ELSE 0

TimesOK ==
  /\ now \in Nat /\ now > 0
  /\ paused \in BOOLEAN /\ repeated \in BOOLEAN
  /\ pause_started_ms \in Nat /\ pause_started_ms <= now
  /\ swapped \in Nat /\ swapped <= now
  /\ clock \in Nat /\ clock <= now
  /\ readStart \in Nat /\ readStart <= now
  /\ total_paused_ms \in Nat /\ readTotal \in Nat /\ shown \in Nat
  /\ flagTime \in Nat /\ callTime \in Nat /\ late \in Nat

\* Where the start of a pause is, at every place of pause() and resume().
StartKept ==
  /\ epc = "pause_store" => clock > 0
  /\ epc = "pause_raise" => pause_started_ms > 0
  /\ epc = "resume_add" => swapped <= clock
  /\ paused => /\ epc \notin {"resume_swap", "resume_clock", "resume_add"}
               /\ pause_started_ms > 0
  /\ pause_started_ms > 0 => paused \/ epc \in {"pause_raise", "resume_swap"}

\* pause() meets a run that is paused only once a pause was repeated.
PauseIsFirst == (epc \in {"pause_store", "pause_raise"} /\ paused) => repeated

\* The paused time that is counted or pending is time that was paused ...
Covered == total_paused_ms + Pending <= flagTime + callTime

\* ... also once a pause() that has read the clock stores what it said ...
StoreCovered ==
  epc = "pause_store" => total_paused_ms + (now - clock) <= flagTime + callTime

\* ... and all of it, unless a repeated pause() has moved the start.
Complete == ~repeated => flagTime <= total_paused_ms + Pending

\* What the TUI has read is not more than what is counted now, and what it will
\* make of the start it has loaded is overstated by its own delay.
ReadEarlier == readTotal <= total_paused_ms
DelayCounted ==
  tpc = "draw_clock" => readTotal + (now - readStart) <= flagTime + callTime + late

ConsoleInv ==
  /\ TimesOK /\ StartKept /\ PauseIsFirst
  /\ Covered /\ StoreCovered /\ Complete
  /\ ReadEarlier /\ DelayCounted /\ OverstatedByDelay

LEMMA ConsoleInvInit == ConsoleInit => ConsoleInv
  <1> SUFFICES ASSUME ConsoleInit PROVE ConsoleInv
    OBVIOUS
  <1>1. TimesOK /\ ReadEarlier /\ DelayCounted /\ OverstatedByDelay
    <2>1. paused \in BOOLEAN /\ repeated \in BOOLEAN
      BY DEF ConsoleInit
    <2> QED
      BY <2>1 DEF ConsoleInit, TimesOK, ReadEarlier, DelayCounted, OverstatedByDelay
  <1>2. StartKept /\ PauseIsFirst
    BY DEF ConsoleInit, StartKept, PauseIsFirst
  <1>3. Covered /\ StoreCovered /\ Complete
    BY DEF ConsoleInit, Covered, StoreCovered, Complete, Pending
  <1> QED
    BY <1>1, <1>2, <1>3 DEF ConsoleInv

-----------------------------------------------------------------------------
(* The steps of the test thread and of the clock.                          *)

\* Time that passes is counted on both sides.
LEMMA TickKeeps == ConsoleInv /\ Tick => ConsoleInv'
  BY DEF Tick, InCall, controlVars, engineVars, tuiVars, readVars, ConsoleInv,
         TimesOK, StartKept, PauseIsFirst, Covered, StoreCovered, Complete, Pending, ReadEarlier,
         DelayCounted, OverstatedByDelay

\* pause() and resume(), one access of an atomic at a time.
LEMMA EngineKeeps == ConsoleInv /\ Engine => ConsoleInv'
  <1> SUFFICES ASSUME ConsoleInv, Engine PROVE ConsoleInv'
    OBVIOUS
  <1> USE DEF ConsoleInv, TimesOK, StartKept, PauseIsFirst, Covered, StoreCovered, Complete, Pending,
              ReadEarlier, DelayCounted, OverstatedByDelay
  <1>0. CASE PauseReads
    BY <1>0 DEF PauseReads, Take, controlVars, tuiVars, readVars, timeVars
  <1>1. CASE PauseStarts
    BY <1>1 DEF PauseStarts, tuiVars, readVars, timeVars
  <1>2. CASE PauseRaises
    BY <1>2 DEF PauseRaises, tuiVars, readVars, timeVars
  <1>3. CASE ResumeLowers
    BY <1>3 DEF ResumeLowers, Take, tuiVars, readVars, timeVars
  <1>4. CASE ResumeSwaps
    BY <1>4 DEF ResumeSwaps, tuiVars, readVars, timeVars
  <1>11. CASE ResumeReads
    BY <1>11 DEF ResumeReads, controlVars, tuiVars, readVars, timeVars
  <1>5. CASE ResumeAdds
    BY <1>5 DEF ResumeAdds, tuiVars, readVars, timeVars
  <1>6. CASE HandleRamp
    BY <1>6 DEF HandleRamp, Take, engineVars, tuiVars, readVars, timeVars
  <1>7. CASE HandleTag
    BY <1>7 DEF HandleTag, Take, controlVars, engineVars, tuiVars, readVars,
                timeVars
  <1>8. CASE LoopEnds
    BY <1>8 DEF LoopEnds, Take, tuiVars, readVars, timeVars
  <1>9. CASE WaitTimesOut
    BY <1>9 DEF WaitTimesOut, controlVars, tuiVars, readVars, timeVars
  <1>10. CASE PrintSummary
    BY <1>10 DEF PrintSummary, controlVars, tuiVars, readVars, timeVars
  <1> QED
    BY <1>0, <1>1, <1>2, <1>3, <1>4, <1>5, <1>6, <1>7, <1>8, <1>9, <1>10, <1>11
       DEF Engine

-----------------------------------------------------------------------------
(* The steps of the TUI thread.                                            *)

\* Drawing reads the atomics one by one; what it adds up was paused.
LEMMA TuiKeeps == ConsoleInv /\ (Tui \/ TuiBreaks) => ConsoleInv'
  <1> SUFFICES ASSUME ConsoleInv, Tui \/ TuiBreaks PROVE ConsoleInv'
    OBVIOUS
  <1> USE DEF ConsoleInv, TimesOK, StartKept, PauseIsFirst, Covered, StoreCovered, Complete, Pending,
              ReadEarlier, DelayCounted, OverstatedByDelay, tuiFrame, controlVars,
              engineVars, timeVars, readVars
  <1>1. CASE DrawTotal
    BY <1>1 DEF DrawTotal
  <1>2. CASE DrawPaused
    BY <1>2 DEF DrawPaused
  <1>3. CASE DrawStarted
    BY <1>3 DEF DrawStarted
  <1>7. CASE DrawClock
    BY <1>7 DEF DrawClock
  <1>4. CASE NoKey
    BY <1>4 DEF NoKey
  <1>5. CASE CheckStopped
    BY <1>5 DEF CheckStopped
  <1>6. CASE TuiBreaks
    BY <1>6 DEF TuiBreaks
  <1> QED
    BY <1>1, <1>2, <1>3, <1>4, <1>5, <1>6, <1>7 DEF Tui

\* A key posts a command; the paused time is changed when it is taken.
LEMMA KeyKeeps == ASSUME ConsoleInv, NEW k \in Keys, Key(k) PROVE ConsoleInv'
  <1>1. UNCHANGED <<tuiFrame, readVars, shown>> /\ tpc' # "draw_clock"
    BY DEF Key
  <1> QED
    BY <1>1 DEF tuiFrame, controlVars, engineVars, timeVars, readVars, ConsoleInv,
                TimesOK, StartKept, PauseIsFirst, Covered, StoreCovered, Complete, Pending,
                ReadEarlier, DelayCounted, OverstatedByDelay

-----------------------------------------------------------------------------
\* Every step keeps the invariant.
LEMMA ConsoleInvNext == ConsoleInv /\ [ConsoleNext]_consoleVars => ConsoleInv'
  <1> SUFFICES ASSUME ConsoleInv, [ConsoleNext]_consoleVars PROVE ConsoleInv'
    OBVIOUS
  <1>1. CASE Over \/ UNCHANGED consoleVars
    <2>1. UNCHANGED consoleVars
      BY <1>1 DEF Over
    <2> QED
      BY <2>1 DEF consoleVars, controlVars, engineVars, tuiVars, readVars,
                  timeVars, ConsoleInv, TimesOK, StartKept, PauseIsFirst, Covered, StoreCovered,
                  Complete, Pending, ReadEarlier, DelayCounted, OverstatedByDelay
  <1> QED
    BY <1>1, TickKeeps, EngineKeeps, TuiKeeps, KeyKeeps DEF ConsoleNext

\* The bounds for the main loop follow: between commands TotalPaused is the
\* counted time and the pending one.
LEMMA InvImpliesHonest == ConsoleInv => PausedTimeHonest
  BY DEF ConsoleInv, TimesOK, StartKept, Covered, StoreCovered, Complete, Pending,
         PausedTimeHonest, CompleteUnlessRepeated, TotalPaused

\* What ControlState says of the paused time (engine/control.rs) is right at
\* both places that use it: the header, which reads three atomics and the clock
\* one by one while pause() and resume() change them, shows more than was paused
\* by no more than it was late in looking at the clock, and between two commands
\* nothing is missing unless pause() was called twice.
THEOREM PausedTimeIsHonest == ConsoleSpec => []PausedTimeHonest
  <1>1. ConsoleInit => ConsoleInv
    BY ConsoleInvInit
  <1>2. ConsoleInv /\ [ConsoleNext]_consoleVars => ConsoleInv'
    BY ConsoleInvNext
  <1>3. ConsoleInv => PausedTimeHonest
    BY InvImpliesHonest
  <1> QED
    BY <1>1, <1>2, <1>3, PTL DEF ConsoleSpec

-----------------------------------------------------------------------------
(* The exit code.  The main thread decides in Judge what was breached and  *)
(* in ExitCode what the process returns; the console thread runs on        *)
(* meanwhile, and estimate and full run share the code.                    *)

Reported == {"teardown", "judge", "join", "out", "exit"}

\* The summary is that of the full run, which is past its report.
SummaryOfFull == "summary" \in made => run = "full" /\ pc \in Reported

\* What was judged is what the workers of the full run left, all of it.
JudgedIsMissed ==
  /\ run \in {"estimate", "full"}
  /\ pc \in {"join", "out", "exit"} =>
       run = "full" /\ breached = {c \in result.missed : Cli!Enforced(c)}

\* Past the report of the full run there is its summary, and before the exit code
\* the export has been tried.
Produced ==
  /\ (run = "full" /\ pc \in Reported) => "summary" \in made
  /\ pc = "exit" => Cli!Attempted

\* An exit with a code comes from the end of the full run, or from a plan or a
\* prompt before it.
ExitPlace ==
  /\ exit = "failed" => pc = "exit" /\ Cli!RunFailed
  /\ exit = "ok" => pc \in {"plan", "prompt"} \/ (pc = "exit" /\ ~Cli!RunFailed)

CliInv == SummaryOfFull /\ JudgedIsMissed /\ Produced /\ ExitPlace

LEMMA CliInvInit == None \notin {"ok", "failed"} /\ Cli!RunInit => CliInv
  BY DEF Cli!RunInit, Cli!RunInitWith, CliInv, SummaryOfFull, JudgedIsMissed, Produced,
         Reported, ExitPlace

\* The steps of the main thread.
LEMMA CliMain ==
  ASSUME None \notin {"ok", "failed"}, CliInv, Cli!Main \/ Cli!Answer
  PROVE  CliInv'
  <1> USE DEF CliInv, SummaryOfFull, JudgedIsMissed, Produced, ExitPlace, Reported,
              Cli!At, Cli!Goto, Cli!Exit, Cli!Enforced, Cli!RunFailed, Cli!Attempted, Cli!engineVars
  <1>1. CASE Cli!LoadConfig
    BY <1>1 DEF Cli!LoadConfig
  <1>2. CASE Cli!Plan
    BY <1>2 DEF Cli!Plan
  <1>3. CASE Cli!Proceed \/ Cli!Answer
    BY <1>3 DEF Cli!Proceed, Cli!Answer, Cli!Asked
  <1>4. CASE Cli!StartTui
    BY <1>4 DEF Cli!StartTui
  <1>5. CASE Cli!RunSetup
    BY <1>5 DEF Cli!RunSetup
  <1>6. CASE Cli!PreValidate
    BY <1>6 DEF Cli!PreValidate
  <1>7. CASE Cli!RunWorkers
    BY <1>7 DEF Cli!RunWorkers
  <1>8. CASE Cli!AwaitTui
    BY <1>8 DEF Cli!AwaitTui
  <1>9. CASE Cli!PrintReport
    BY <1>9 DEF Cli!PrintReport
  <1>10. CASE Cli!RunTeardown
    BY <1>10 DEF Cli!RunTeardown
  <1>11. CASE Cli!Judge
    <2>1. /\ breached' = {c \in result'.missed : (c # "flag" \/ opt'.spaced)}
          /\ UNCHANGED <<opt, run, result, made>> /\ exit = None /\ pc = "judge"
      BY <1>11 DEF Cli!Judge
    <2>2. \/ exit' = "error" /\ pc' = "judge"
          \/ exit' = exit /\ run = "estimate" /\ pc' = "prompt"
          \/ exit' = exit /\ run # "estimate" /\ pc' = "join"
      BY <1>11 DEF Cli!Judge
    <2> QED
      BY <2>1, <2>2
  <1>12. CASE Cli!JoinTui
    BY <1>12 DEF Cli!JoinTui
  <1>13. CASE Cli!Export
    BY <1>13 DEF Cli!Export
  <1>14. CASE Cli!ExitCode
    BY <1>14 DEF Cli!ExitCode
  <1> QED
    BY <1>1, <1>2, <1>3, <1>4, <1>5, <1>6, <1>7, <1>8, <1>9, <1>10, <1>11, <1>12, <1>13,
    <1>14
       DEF Cli!Main, Cli!Engine

\* The console thread and the user change nothing the exit code rests on.
LEMMA CliOthers ==
  ASSUME CliInv, Cli!Tui \/ Cli!TuiQuits \/ UNCHANGED Cli!runVars
  PROVE  CliInv'
  <1>1. UNCHANGED <<opt, pc, run, result, breached, made, exit>>
    BY DEF Cli!Tui, Cli!TuiStart, Cli!TuiSetup, Cli!TuiEnds, Cli!TuiLeaves, Cli!TuiQuits,
           Cli!OthersUnchanged, Cli!TuiMoves, Cli!engineVars, Cli!runVars
  <1> QED
    BY <1>1 DEF CliInv, SummaryOfFull, JudgedIsMissed, Produced, ExitPlace, Cli!Enforced,
                Cli!RunFailed, Cli!Attempted, Reported

-----------------------------------------------------------------------------
(* The hooks.  While the engine runs the script's hooks, what it has       *)
(* called is what the estimate before it called, if there was one, and     *)
(* then its own hooks up to the place of the main thread.                  *)

Runs == {"estimate", "full"}
Data == {None} \cup Runs
Hook == Runs \X {"setup", "workers", "teardown", "summary"} \X Data

\* What may have been called before a run.
Before == {<<>>} \cup {Cli!Life("estimate", d) : d \in Data}

SetUp == << <<run, "setup", data>> >>
Worked == << <<run, "setup", data>>, <<run, "workers", data>> >>
Ended == << <<run, "teardown", data>>, <<run, "summary", None>> >>

HooksAt(b) ==
  /\ run = "estimate" \/ pc \in {"script", "plan"} => b = <<>>
  /\ pc \in {"script", "plan", "tui", "setup"} => hooks = b
  /\ pc \in {"validate", "workers"} => hooks = b \o SetUp
  /\ pc \in {"await", "report", "teardown"} => hooks = b \o Worked
  /\ pc \in {"judge", "prompt", "join", "out", "exit"} => hooks = b \o Cli!Life(run, data)

HooksInv ==
  /\ run \in Runs /\ data \in Data
  /\ pc \in {"script", "plan", "tui", "setup", "validate", "workers", "await", "report",
            "teardown", "judge", "prompt", "join", "out", "exit"}
  /\ pc = "prompt" => run = "estimate"
  /\ pc \in {"script", "plan"} => run = "full"
  /\ \E b \in Before : HooksAt(b)

LEMMA LifeIsHooks ==
  ASSUME NEW r \in Runs, NEW d \in Data
  PROVE  Cli!Life(r, d) \in Seq(Hook) /\ Len(Cli!Life(r, d)) = 4
  <1>1. /\ <<r, "setup", d>> \in Hook /\ <<r, "workers", d>> \in Hook
        /\ <<r, "teardown", d>> \in Hook /\ <<r, "summary", None>> \in Hook
    BY DEF Hook, Data
  <1> QED
    BY <1>1 DEF Cli!Life

LEMMA BeforeIsHooks == \A b \in Before : b \in Seq(Hook)
  <1>1. <<>> \in Seq(Hook)
    OBVIOUS
  <1>2. ASSUME NEW d \in Data PROVE Cli!Life("estimate", d) \in Seq(Hook)
    BY LifeIsHooks DEF Runs
  <1> QED
    BY <1>1, <1>2 DEF Before

\* Growing a list of hooks by one, and by one more.
LEMMA GrowOne ==
  ASSUME NEW S, NEW b \in Seq(S), NEW x \in S, NEW y \in S
  PROVE  Append(b, x) = b \o <<x>> /\ Append(b \o <<x>>, y) = b \o <<x, y>>
  OBVIOUS

\* The last two hooks complete the life of the run.
LEMMA WholeLife ==
  run \in Runs /\ data \in Data =>
    \A b \in Seq(Hook) : (b \o Worked) \o Ended = b \o Cli!Life(run, data)
  <1> SUFFICES ASSUME run \in Runs, data \in Data, NEW b \in Seq(Hook)
               PROVE  (b \o Worked) \o Ended = b \o Cli!Life(run, data)
    OBVIOUS
  <1> DEFINE x == <<run, "setup", data>>
             y == <<run, "workers", data>>
             z == <<run, "teardown", data>>
             u == <<run, "summary", None>>
  <1>1. x \in Hook /\ y \in Hook /\ z \in Hook /\ u \in Hook
    BY DEF Hook, Data
  <1>2. Worked = <<x, y>> /\ Ended = <<z, u>> /\ Cli!Life(run, data) = <<x, y, z, u>>
    BY DEF Worked, Ended, Cli!Life
  <1> HIDE DEF x, y, z, u
  <1>3. (b \o <<x, y>>) \o <<z, u>> = b \o <<x, y, z, u>>
    BY <1>1
  <1> QED
    BY <1>2, <1>3

LEMMA HooksInit == ASSUME NEW o, Cli!RunInitWith(o) PROVE HooksInv
  <1>1. HooksAt(<<>>)
    BY DEF Cli!RunInitWith, HooksAt
  <1> QED
    BY <1>1 DEF Cli!RunInitWith, HooksInv, Before, Runs, Data

\* Steps to another place before setup, or to none.
LEMMA HooksKept ==
  ASSUME HooksInv, UNCHANGED <<run, data, hooks>>,
         pc' \in {"tui", "setup"} \cup {pc}, pc' # pc => pc \in {"plan", "tui"}
  PROVE  HooksInv'
  BY DEF HooksInv, HooksAt, SetUp, Worked, Cli!Life

LEMMA HooksMain ==
  ASSUME HooksInv, Cli!Main \/ Cli!Answer
  PROVE  HooksInv'
  <1> USE DEF Cli!At, Cli!Goto, Cli!Exit, Cli!engineVars
  <1>0. PICK b \in Before : HooksAt(b)
    BY DEF HooksInv
  <1>a. b \in Seq(Hook) /\ run \in Runs /\ data \in Data
    BY BeforeIsHooks DEF HooksInv
  <1>1. CASE Cli!LoadConfig \/ Cli!Plan \/ Cli!StartTui
    <2>1. HooksAt(b)' /\ run' \in Runs /\ data' = data
      BY <1>0, <1>1 DEF Cli!LoadConfig, Cli!Plan, Cli!StartTui, HooksAt, HooksInv, Runs
    <2> QED
      BY <1>1, <2>1 DEF HooksInv, Cli!LoadConfig, Cli!Plan, Cli!StartTui
  <1>2. CASE Cli!Proceed \/ Cli!Answer
    <2>1. CASE pc' = "prompt"
      <3>1. UNCHANGED <<run, data, hooks>> /\ pc' = pc
        BY <1>2, <2>1 DEF Cli!Proceed, Cli!Answer, Cli!Asked
      <3> QED
        BY <3>1, HooksKept
    <2>2. CASE pc' = "tui" /\ run' = "full"
      <3>1. pc = "prompt" /\ run = "estimate" /\ UNCHANGED <<data, hooks>>
        BY <1>2 DEF Cli!Proceed, Cli!Answer, Cli!Asked, HooksInv
      <3>2. b = <<>> /\ hooks = b \o Cli!Life("estimate", data)
        BY <1>0, <3>1 DEF HooksAt
      <3>3. hooks = Cli!Life("estimate", data)
        BY <1>a, <3>2, LifeIsHooks DEF Runs
      <3>4. hooks \in Before
        BY <1>a, <3>3 DEF Before
      <3>5. HooksAt(hooks)'
        BY <2>2, <3>1 DEF HooksAt
      <3> QED
        BY <1>a, <2>2, <3>1, <3>4, <3>5 DEF HooksInv, Before, Runs
    <2> QED
      BY <1>2, <2>1, <2>2 DEF Cli!Proceed, Cli!Answer, Cli!Asked
  <1>3. CASE Cli!RunSetup
    <2>1. /\ pc = "setup" /\ pc' = "validate" /\ run' = run /\ data' \in {None, run}
          /\ hooks' = Append(hooks, <<run, "setup", data'>>)
      BY <1>3 DEF Cli!RunSetup
    <2>2. hooks' = b \o SetUp'
      <3>1. hooks = b /\ <<run, "setup", data'>> \in Hook
        BY <1>0, <1>a, <2>1 DEF HooksAt, Hook, Data
      <3> QED
        BY <1>a, <2>1, <3>1, GrowOne DEF SetUp
    <2>3. HooksAt(b)'
      BY <1>0, <2>1, <2>2 DEF HooksAt
    <2> QED
      BY <1>a, <2>1, <2>3 DEF HooksInv, Data, Before
  <1>4. CASE Cli!PreValidate
    <2>1. HooksAt(b)' /\ UNCHANGED <<run, data>>
      BY <1>0, <1>4 DEF Cli!PreValidate, HooksAt, SetUp
    <2> QED
      BY <1>4, <2>1 DEF HooksInv, Before, Cli!PreValidate
  <1>5. CASE Cli!RunWorkers
    <2>1. /\ pc = "workers" /\ pc' = "await" /\ UNCHANGED <<run, data>>
          /\ hooks' = Append(hooks, <<run, "workers", data>>)
      BY <1>5 DEF Cli!RunWorkers
    <2>2. hooks' = b \o Worked'
      <3>1. /\ hooks = b \o << <<run, "setup", data>> >>
            /\ <<run, "setup", data>> \in Hook /\ <<run, "workers", data>> \in Hook
        BY <1>0, <1>a, <2>1 DEF HooksAt, SetUp, Hook
      <3> DEFINE x == <<run, "setup", data>>
                 y == <<run, "workers", data>>
      <3>2. x \in Hook /\ y \in Hook /\ hooks = b \o <<x>> /\ hooks' = Append(hooks, y)
        BY <2>1, <3>1
      <3>3. Worked' = <<x, y>>
        BY <2>1 DEF Worked
      <3> HIDE DEF x, y
      <3>4. Append(b \o <<x>>, y) = b \o <<x, y>>
        BY <1>a, <3>2, GrowOne
      <3> QED
        BY <3>2, <3>3, <3>4
    <2>3. HooksAt(b)'
      BY <1>0, <2>1, <2>2 DEF HooksAt
    <2> QED
      BY <1>a, <2>1, <2>3 DEF HooksInv, Before
  <1>6. CASE Cli!AwaitTui \/ Cli!PrintReport
    <2>1. HooksAt(b)' /\ UNCHANGED <<run, data>>
      BY <1>0, <1>6 DEF Cli!AwaitTui, Cli!PrintReport, HooksAt, Worked
    <2> QED
      BY <1>6, <2>1 DEF HooksInv, Before, Cli!AwaitTui, Cli!PrintReport
  <1>7. CASE Cli!RunTeardown
    <2>1. /\ pc = "teardown" /\ pc' = "judge" /\ UNCHANGED <<run, data>>
          /\ hooks' = hooks \o << <<run, "teardown", data>>, <<run, "summary", None>> >>
      BY <1>7 DEF Cli!RunTeardown, Cli!CallHooks
    <2>2. hooks' = b \o Cli!Life(run, data)
      <3>1. hooks = b \o Worked /\ hooks' = hooks \o Ended
        BY <1>0, <2>1 DEF HooksAt, Ended
      <3> QED
        BY <1>a, <3>1, WholeLife
    <2>3. HooksAt(b)'
      BY <1>0, <2>1, <2>2 DEF HooksAt, Cli!Life
    <2> QED
      BY <1>a, <2>1, <2>3 DEF HooksInv, Before
  <1>8. CASE Cli!Judge \/ Cli!JoinTui \/ Cli!Export \/ Cli!ExitCode
    <2>1. UNCHANGED <<run, data, hooks>>
      BY <1>8 DEF Cli!Judge, Cli!JoinTui, Cli!Export, Cli!ExitCode
    <2>2. /\ {pc, pc'} \subseteq {"judge", "prompt", "join", "out", "exit"}
          /\ pc' = "prompt" => run = "estimate"
      BY <1>8 DEF Cli!Judge, Cli!JoinTui, Cli!Export, Cli!ExitCode
    <2>3. HooksAt(b)'
      BY <1>0, <2>1, <2>2 DEF HooksAt, Cli!Life
    <2> QED
      BY <1>a, <2>1, <2>2, <2>3 DEF HooksInv, Before
  <1> QED
    BY <1>1, <1>2, <1>3, <1>4, <1>5, <1>6, <1>7, <1>8 DEF Cli!Main, Cli!Engine

\* The console thread and the user call no hooks.
LEMMA HooksOthers ==
  ASSUME HooksInv, Cli!Tui \/ Cli!TuiQuits \/ UNCHANGED Cli!runVars
  PROVE  HooksInv'
  <1>1. UNCHANGED <<pc, run, data, hooks>>
    BY DEF Cli!Tui, Cli!TuiStart, Cli!TuiSetup, Cli!TuiEnds, Cli!TuiLeaves, Cli!TuiQuits,
           Cli!OthersUnchanged, Cli!TuiMoves, Cli!engineVars, Cli!runVars
  <1> QED
    BY <1>1, HooksKept

\* Any number of the first hooks of a run is a prefix of the whole.
LEMMA FirstHooks ==
  ASSUME NEW S, NEW b \in Seq(S), NEW x \in S, NEW y \in S, NEW z \in S, NEW u \in S
  PROVE  LET all == b \o <<x, y, z, u>> IN
           /\ Cli!IsPrefix(b, all) /\ Cli!IsPrefix(b \o <<x>>, all)
           /\ Cli!IsPrefix(b \o <<x, y>>, all) /\ Cli!IsPrefix(all, all)
  BY DEF Cli!IsPrefix

-----------------------------------------------------------------------------
LEMMA CliInvExit == CliInv => Cli!ExitTells
  BY DEF CliInv, SummaryOfFull, JudgedIsMissed, Produced, ExitPlace, Reported,
         Cli!ExitTells, Cli!Good, Cli!RunFailed

\* A prefix stays one when the whole is continued.
LEMMA PrefixExtends ==
  ASSUME NEW S, NEW p \in Seq(S), NEW s \in Seq(S), NEW t \in Seq(S), Cli!IsPrefix(p, s)
  PROVE  Cli!IsPrefix(p, s \o t)
  BY DEF Cli!IsPrefix

LEMMA HooksInvOrder == HooksInv => Cli!HooksInOrder
  <1> SUFFICES ASSUME HooksInv PROVE Cli!HooksInOrder
    OBVIOUS
  <1>0. PICK b \in Before : HooksAt(b)
    BY DEF HooksInv
  <1>1. b \in Seq(Hook) /\ run \in Runs /\ data \in Data
    BY BeforeIsHooks DEF HooksInv
  <1> DEFINE x == <<run, "setup", data>>
             y == <<run, "workers", data>>
             z == <<run, "teardown", data>>
             u == <<run, "summary", None>>
             all == b \o <<x, y, z, u>>
  <1>2. x \in Hook /\ y \in Hook /\ z \in Hook /\ u \in Hook
    BY <1>1 DEF Hook, Data
  <1>3. hooks \in {b, b \o <<x>>, b \o <<x, y>>, all}
    BY <1>0 DEF HooksInv, HooksAt, SetUp, Worked, Cli!Life
  <1>4. all = b \o Cli!Life(run, data)
    BY DEF Cli!Life
  <1> HIDE DEF x, y, z, u
  <1>5. /\ Cli!IsPrefix(b, all) /\ Cli!IsPrefix(b \o <<x>>, all)
        /\ Cli!IsPrefix(b \o <<x, y>>, all) /\ Cli!IsPrefix(all, all)
    BY <1>1, <1>2, FirstHooks
  <1> HIDE DEF all
  <1>6. Cli!IsPrefix(hooks, b \o Cli!Life(run, data))
    BY <1>3, <1>4, <1>5
  <1>7. CASE b = <<>>
    <2>1. Cli!IsPrefix(hooks, Cli!Life(run, data))
      <3>1. <<>> \o Cli!Life(run, data) = Cli!Life(run, data)
        BY <1>1, LifeIsHooks
      <3> QED
        BY <1>6, <1>7, <3>1
    <2>2. CASE run = "full"
      BY <1>1, <2>1, <2>2 DEF Cli!HooksInOrder, Data, Runs
    <2>3. CASE run = "estimate"
      <3> DEFINE l == Cli!Life("estimate", data)
                 m == Cli!Life("full", None)
      <3>1. l \in Seq(Hook) /\ m \in Seq(Hook) /\ hooks \in Seq(Hook)
        <4>1. b \o <<x>> \in Seq(Hook) /\ b \o <<x, y>> \in Seq(Hook) /\ all \in Seq(Hook)
          BY <1>1, <1>2 DEF all
        <4>2. "estimate" \in Runs /\ "full" \in Runs /\ None \in Data
          BY DEF Runs, Data
        <4> QED
          BY <1>1, <1>3, <4>1, <4>2, LifeIsHooks
      <3>2. Cli!IsPrefix(hooks, l)
        BY <2>1, <2>3
      <3> HIDE DEF l, m
      <3>3. Cli!IsPrefix(hooks, l \o m)
        BY <3>1, <3>2, PrefixExtends
      <3> QED
        BY <1>1, <3>3 DEF Cli!HooksInOrder, Data, Runs, l, m
    <2> QED
      BY <1>1, <2>2, <2>3 DEF Runs
  <1>8. ASSUME NEW e \in Data, b = Cli!Life("estimate", e), b # <<>>
        PROVE  Cli!HooksInOrder
    <2>1. run = "full"
      BY <1>0, <1>1, <1>8 DEF HooksAt, Runs
    <2> QED
      BY <1>1, <1>6, <1>8, <2>1 DEF Cli!HooksInOrder, Data, Runs
  <1> QED
    BY <1>7, <1>8 DEF Before

-----------------------------------------------------------------------------
(* The specification: a behaviour is that of one part, and the variables   *)
(* of the run are changed by its threads only.                             *)

\* What a step of any part is for the run.
LEMMA RunSteps ==
  [Next]_commandVars /\ part' = "run" =>
    part = "run" /\ (Cli!Main \/ Cli!Answer \/ Cli!Tui \/ Cli!TuiQuits \/ UNCHANGED Cli!runVars)
  BY DEF Next, Scheduled, Counting, MainThread, UserAnswers, TuiThread, TuiQuits,
         Watching, Editing, Recording, commandVars, cli, Cli!runVars, Cli!engineVars

\* The exit code of `fusillade run' (main.rs): 0 after a full run means that no
\* script threw and no enforced threshold was missed, and a failing code that one
\* of them did, after the summary and an attempt at the export -- for any
\* thresholds, with or without a console and an estimate before the run.
THEOREM ExitCodeTells == Spec => []ExitTells
  <1> USE CommandAssumption
  <1> DEFINE Inv == part = "run" => CliInv
  <1>1. Init => Inv
    BY CliInvInit DEF Init, Cli!RunInit
  <1>2. Inv /\ [Next]_commandVars => Inv'
    BY RunSteps, CliMain, CliOthers
  <1>3. Inv => ExitTells
    BY CliInvExit DEF ExitTells
  <1> QED
    BY <1>1, <1>2, <1>3, PTL DEF Spec

\* The hooks (run_load_test of engine/mod.rs): every engine run calls setup,
\* the workers, teardown and handleSummary in that order and once each, and hands
\* on what its own setup returned, whatever setup did before, wherever the run
\* breaks off and whether or not an estimate ran first.
THEOREM HooksCalledInOrder == Spec => []HooksInOrder
  <1> DEFINE Inv == part = "run" => HooksInv
  <1>1. Init => Inv
    BY HooksInit DEF Init
  <1>2. Inv /\ [Next]_commandVars => Inv'
    BY RunSteps, HooksMain, HooksOthers
  <1>3. Inv => HooksInOrder
    BY HooksInvOrder DEF HooksInOrder
  <1> QED
    BY <1>1, <1>2, <1>3, PTL DEF Spec

-----------------------------------------------------------------------------
(* The recorder.  A request is forwarded only after it has been put on the *)
(* list, and Ctrl+C, after which nothing is taken, writes the whole list.  *)

FlowInv ==
  /\ forwarded \in Seq(Clients) /\ recorded \in Seq(Clients)
  /\ Cmds!ToSet(forwarded) \subseteq Cmds!ToSet(recorded)
  /\ \A c \in Clients : stage[c] = "recorded" => c \in Cmds!ToSet(recorded)
  /\ stage = [c \in Clients |-> stage[c]]
  /\ saved # Unset => saved = recorded

LEMMA ListGrows ==
  ASSUME NEW S, NEW s \in Seq(S), NEW x \in S
  PROVE  Append(s, x) \in Seq(S) /\ Cmds!ToSet(Append(s, x)) = Cmds!ToSet(s) \cup {x}
  <1> DEFINE t == Append(s, x)
             n == Len(s)
  <1>1. /\ t \in Seq(S) /\ n \in Nat /\ DOMAIN s = 1..n /\ DOMAIN t = 1..(n + 1)
        /\ t[n + 1] = x /\ \A i \in 1..n : t[i] = s[i]
    OBVIOUS
  <1> HIDE DEF t, n
  <1>2. n + 1 \in DOMAIN t /\ DOMAIN t = DOMAIN s \cup {n + 1}
    BY <1>1
  <1>3. \A i \in DOMAIN s : t[i] = s[i]
    BY <1>1
  <1>4. \A i \in DOMAIN t : t[i] \in Cmds!ToSet(s) \cup {x}
    BY <1>1, <1>2, <1>3 DEF Cmds!ToSet
  <1>5. \A v \in Cmds!ToSet(s) \cup {x} : \E i \in DOMAIN t : v = t[i]
    BY <1>1, <1>2, <1>3 DEF Cmds!ToSet
  <1>6. Cmds!ToSet(t) = Cmds!ToSet(s) \cup {x}
    BY <1>4, <1>5 DEF Cmds!ToSet
  <1> QED
    BY <1>1, <1>6 DEF t

LEMMA FlowKept ==
  ASSUME FlowInv, Cmds!Record \/ UNCHANGED Cmds!recordVars
  PROVE  FlowInv'
  <1> USE DEF FlowInv, Cmds!Running, Cmds!MayForward
  <1>1. ASSUME NEW c \in Clients, Cmds!RecordRequest(c) PROVE FlowInv'
    <2>1. Cmds!ToSet(recorded') = Cmds!ToSet(recorded) \cup {c} /\ recorded' \in Seq(Clients)
      BY <1>1, ListGrows DEF Cmds!RecordRequest
    <2> QED
      BY <1>1, <2>1 DEF Cmds!RecordRequest
  <1>2. ASSUME NEW c \in Clients, Cmds!Forward(c) PROVE FlowInv'
    <2>1. Cmds!ToSet(forwarded') = Cmds!ToSet(forwarded) \cup {c} /\ forwarded' \in Seq(Clients)
      BY <1>2, ListGrows DEF Cmds!Forward
    <2> QED
      BY <1>2, <2>1 DEF Cmds!Forward
  <1>3. ASSUME NEW c \in Clients, Cmds!Refuse(c) PROVE FlowInv'
    BY <1>3 DEF Cmds!Refuse
  <1>4. CASE Cmds!SaveFlow
    BY <1>4 DEF Cmds!SaveFlow
  <1>5. CASE UNCHANGED Cmds!recordVars
    BY <1>5 DEF Cmds!recordVars
  <1> QED
    BY <1>1, <1>2, <1>3, <1>4, <1>5 DEF Cmds!Record

LEMMA FlowInit == Cmds!CommandInit => FlowInv
  BY DEF Cmds!CommandInit, FlowInv, Cmds!ToSet

LEMMA FlowSteps == [Next]_commandVars => Cmds!Record \/ UNCHANGED Cmds!recordVars
  BY DEF Next, Scheduled, Counting, MainThread, UserAnswers, TuiThread, TuiQuits,
         Watching, Editing, Recording, commandVars, commands, Cmds!recordVars,
         Cmds!WatchSteps, Cmds!ReadScript, Cmds!RunScript, Cmds!Poll, Cmds!Edit

\* The recorded flow (save_flow of cli/recorder.rs) holds every request the
\* target saw, at whatever place of however many handlers Ctrl+C comes: the
\* handlers put a request on the list before they send it on.
THEOREM RecordedFlowIsComplete == Spec => []FlowComplete
  <1>1. Init => FlowInv
    BY FlowInit DEF Init
  <1>2. FlowInv /\ [Next]_commandVars => FlowInv'
    BY FlowSteps, FlowKept
  <1>3. FlowInv => FlowComplete
    BY DEF FlowInv, FlowComplete, Cmds!FlowComplete
  <1> QED
    BY <1>1, <1>2, <1>3, PTL DEF Spec
=============================================================================
