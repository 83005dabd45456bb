----------------------------- MODULE MCSchedule -----------------------------
(***************************************************************************)
(* Runs the schedule functions over every schedule of up to MaxStages      *)
(* stages with bounded durations and targets, one tick of elapsed time per *)
(* step, and compares them with a declarative reading of a schedule.       *)
(***************************************************************************)
EXTENDS Schedule, FiniteSets

CONSTANTS MaxStages, MaxDur, MaxTarget

Stage == [dur : 0 .. MaxDur, target : 0 .. MaxTarget]

VARIABLES schedule, elapsed
clockVars == <<schedule, elapsed>>

Init ==
  /\ schedule \in UNION {[1 .. n -> Stage] : n \in 1 .. MaxStages}
  /\ elapsed = 0

Tick ==
  /\ elapsed <= ScheduleLength(schedule)
  /\ elapsed' = elapsed + 1
  /\ UNCHANGED schedule

\* Past the end of the schedule nothing is left to look at.
Over == elapsed > ScheduleLength(schedule) /\ UNCHANGED clockVars

Next == Tick \/ Over

Spec == Init /\ [][Next]_clockVars

-----------------------------------------------------------------------------
\* Start of stage i: the time the stages before it take.
StartOf(i) == ScheduleLength(SubSeq(schedule, 1, i - 1))
TargetBefore(i) == IF i = 1 THEN 0 ELSE schedule[i - 1].target

\* The stage that contains the current time.
Current(i) ==
  /\ i \in DOMAIN schedule
  /\ StartOf(i) <= elapsed
  /\ elapsed < StartOf(i) + schedule[i].dur

\* calculate_target is the piecewise linear function through the stage ends:
\* in the stage that contains the time it is the largest integer not above
\* the straight line between the previous target and the stage's.
TargetIsOnTheLine ==
  \A i \in DOMAIN schedule : Current(i) =>
    LET v == CalculateTarget(schedule, elapsed)
        line == TargetBefore(i) * (StartOf(i) + schedule[i].dur - elapsed)
                + schedule[i].target * (elapsed - StartOf(i))
    IN  v * schedule[i].dur <= line /\ line < (v + 1) * schedule[i].dur

\* Rate and target agree while the schedule runs and part at its end: the
\* pool of a legacy run is asked down to 0, an arrival rate goes on at the
\* last stage's rate.
EndsDiffer ==
  IF elapsed < ScheduleLength(schedule)
  THEN CalculateRate(schedule, elapsed) = CalculateTarget(schedule, elapsed)
  ELSE /\ CalculateTarget(schedule, elapsed) = 0
       /\ CalculateRate(schedule, elapsed) = schedule[Len(schedule)].target

\* Inside one stage the target moves only in the direction of the stage, and
\* never past the stage's target.
MovesTowardsStageTarget ==
  [][\A i \in DOMAIN schedule : (Current(i) /\ Current(i)') =>
       LET old == CalculateTarget(schedule, elapsed)
           new == CalculateTarget(schedule, elapsed')
       IN  IF schedule[i].target >= TargetBefore(i)
           THEN old <= new /\ new <= schedule[i].target
           ELSE old >= new /\ new >= schedule[i].target]_clockVars
=============================================================================
