----------------------------- MODULE MCLoadTest -----------------------------
(* Values for the constants of LoadTest.                                   *)
EXTENDS LoadTest

\* `workers: n, duration: d`, as run_load_test turns it into a schedule.
Constant(n, d) == << [dur |-> 0, target |-> n], [dur |-> d, target |-> n] >>

OneWorker  == Constant(1, 2)
TwoWorkers == Constant(2, 1)
\* Ramp up to two workers, then down to none.
UpAndDown  == << [dur |-> 0, target |-> 2], [dur |-> 1, target |-> 2], [dur |-> 2, target |-> 0] >>

RampTo(n) == [op |-> "ramp", n |-> n]
Simple(op) == [op |-> op, n |-> 0]

NoCommands   == {}
StopOnly     == {Simple("stop")}
Interactive  == {RampTo(0), RampTo(1), RampTo(3), Simple("pause"), Simple("resume"),
                 Simple("stop"), Simple("status")}
PauseAndRamp == {RampTo(2), Simple("pause")}
PauseAndStop == {Simple("pause"), Simple("resume"), Simple("stop")}
=============================================================================
