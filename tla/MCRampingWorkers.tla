-------------------------- MODULE MCRampingWorkers --------------------------
(* Values for the constants of RampingWorkers.                             *)
EXTENDS RampingWorkers

\* Up to two workers at once, down to none, and up again to one.
UpDownUp == << [dur |-> 0, target |-> 2], [dur |-> 1, target |-> 2],
               [dur |-> 1, target |-> 0], [dur |-> 1, target |-> 1],
               [dur |-> 1, target |-> 1] >>
\* Two workers, then none.
UpDown   == << [dur |-> 0, target |-> 2], [dur |-> 2, target |-> 0], [dur |-> 1, target |-> 0] >>
=============================================================================
