---------------------------- MODULE MetricLedger ----------------------------
(***************************************************************************)
(* What the metric path of a run promises, without channel, threads or     *)
(* shards: a metric handed to `tx` is counted in the statistics once, some *)
(* time later, and is never uncounted.                                     *)
(***************************************************************************)
CONSTANT Metric    \* every metric a run may send

VARIABLES sent,    \* metrics handed to the channel
          counted  \* metrics present in the aggregated statistics

ledgerVars == <<sent, counted>>

Init ==
  /\ sent = {}
  /\ counted = {}

\* A worker or the engine emits a metric that was never emitted before.
Emit(m) ==
  /\ m \notin sent
  /\ sent' = sent \cup {m}
  /\ UNCHANGED counted

\* The statistics take in one metric that was sent and not counted yet.
Count(m) ==
  /\ m \in sent \ counted
  /\ counted' = counted \cup {m}
  /\ UNCHANGED sent

Next == \E m \in Metric : Emit(m) \/ Count(m)

Spec ==
  /\ Init
  /\ [][Next]_ledgerVars
  /\ \A m \in Metric : WF_ledgerVars(Count(m))
=============================================================================
