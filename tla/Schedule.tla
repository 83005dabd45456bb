------------------------------ MODULE Schedule ------------------------------
(***************************************************************************)
(* The two pure functions that turn a schedule ("stages") and the elapsed  *)
(* time into a worker target and an arrival rate (engine/mod.rs).  Times   *)
(* are whole ticks and the interpolation is exact; the code computes it in *)
(* f64 and truncates, so it may be one lower where the product of two      *)
(* rounded factors falls just short of an integer.                         *)
(***************************************************************************)
EXTENDS Integers, Sequences, SequencesExt

IsSchedule(s) == \A i \in DOMAIN s : s[i].dur \in Nat /\ s[i].target \in Nat

\* Faulty variant: every stage starts from zero.
InterpolateFromZero(prev, stage, into) == (stage.target * into) \div stage.dur

\* Faulty variant: the difference is taken without its sign.
InterpolateUnsigned(prev, stage, into) ==
  LET diff == IF stage.target >= prev THEN stage.target - prev ELSE prev - stage.target
  IN  (prev * stage.dur + diff * into) \div stage.dur

\* prev + diff * progress, truncated; never negative, so \div truncates too.
Interpolate(prev, stage, into) ==
  (prev * stage.dur + (stage.target - prev) * into) \div stage.dur

\* One stage: either it contains `elapsed', or the walk takes its time and its
\* target along.
WalkStage(walk, stage, elapsed) ==
  IF walk.found THEN walk
  ELSE IF elapsed < walk.used + stage.dur
  THEN [found |-> TRUE, used |-> walk.used,
        value |-> Interpolate(walk.value, stage, elapsed - walk.used)]
  ELSE [found |-> FALSE, used |-> walk.used + stage.dur, value |-> stage.target]

\* The loop shared by both functions: walk over the stages, carrying the time
\* they have used up and the previous target, until one contains `elapsed`.
WalkStages(schedule, elapsed) ==
  FoldLeft(LAMBDA walk, stage : WalkStage(walk, stage, elapsed),
           [found |-> FALSE, used |-> 0, value |-> 0],
           schedule)

\* Faulty variant: past its end the schedule holds the last target.
CalculateTargetHolds(schedule, elapsed) == WalkStages(schedule, elapsed).value

\* Worker target: 0 once the schedule is over.
CalculateTarget(schedule, elapsed) ==
  LET walk == WalkStages(schedule, elapsed)
  IN  IF walk.found THEN walk.value ELSE 0

\* Faulty variant: past its end the rate drops to zero.
CalculateRateDrops(schedule, elapsed) ==
  LET walk == WalkStages(schedule, elapsed)
  IN  IF walk.found THEN walk.value ELSE 0

\* Arrival rate: the last rate once the schedule is over.
CalculateRate(schedule, elapsed) == WalkStages(schedule, elapsed).value

\* Total length, as `schedule_legacy.iter().map(|(d, _)| *d).sum()`.
ScheduleLength(schedule) ==
  FoldLeft(LAMBDA total, stage : total + stage.dur, 0, schedule)
=============================================================================
