--------------------------- MODULE MetricPipeline ---------------------------
(***************************************************************************)
(* The metric path of one run (engine/mod.rs, run_load_test): producers    *)
(* send into one bounded crossbeam channel, NumAggregators threads receive *)
(* from it and add to the shards of a ShardedAggregator, the test thread   *)
(* merges the shards one read lock at a time, and with a controller URL    *)
(* aggregator 0 also batches what it received and posts it.                *)
(*                                                                         *)
(* A metric is identified by its sender and the sender's running number;   *)
(* its name, timings and tags are abstracted.  What `StatsAggregator::add` *)
(* accumulates is abstracted to the set of metrics a shard has taken in.   *)
(***************************************************************************)
EXTENDS Integers, Sequences, FiniteSets

CONSTANTS
  Producers,       \* the threads and coroutines that may hold a clone of tx
  Main,            \* the test thread, which holds the first tx
  NumAggregators,  \* num_cpus::get().max(2) / 2 consumer threads
  NumShards,       \* shards of the ShardedAggregator
  ChannelCap,      \* channel_size
  MaxPerProducer,  \* BOUND: metrics one producer sends in a behaviour
  Remote,          \* controller_metrics_url is Some(..)
  BatchSize        \* metrics that fill a MetricBatch (100 in the code)

ASSUME PipelineAssumption ==
  /\ Main \in Producers
  /\ NumAggregators \in Nat \ {0}
  /\ NumShards \in Nat \ {0}
  /\ ChannelCap \in Nat \ {0}
  /\ MaxPerProducer \in Nat
  /\ Remote \in BOOLEAN
  /\ BatchSize \in Nat \ {0}

Aggregators == 0 .. NumAggregators - 1
Shards      == 0 .. NumShards - 1
Metric      == [from : Producers, seq : 1 .. MaxPerProducer]

VARIABLES
  open,      \* the producers of whose clones of tx one is alive
  kept,      \* those with clones in the globals of a JS runtime, never dropped
  produced,  \* metrics each producer has sent so far
  channel,   \* the crossbeam queue
  apc,       \* where each aggregator thread is
  held,      \* the metric an aggregator received and has not added yet (a set of at most one)
  local,     \* local_counter of each aggregator, reduced modulo num_shards
  shards,    \* what each shard has taken in
  batch,     \* aggregator 0's unsent MetricBatch
  posted,    \* metrics of the batches handed to the HTTP client
  mpos,      \* next shard the merge reads; NumShards when no merge is going on
  acc,       \* what the merge in progress has collected
  report     \* the result of the last finished merge

pipeVars == <<open, kept, produced, channel, apc, held, local, shards, batch,
              posted, mpos, acc, report>>
txVars == <<open, kept>>
mergeVars == <<mpos, acc, report>>
consumerVars == <<apc, held, local, shards, batch, posted>>

-----------------------------------------------------------------------------
Sent      == {m \in Metric : m.seq <= produced[m.from]}
InChannel == {channel[i] : i \in DOMAIN channel}
InHands   == UNION {held[a] : a \in Aggregators}
Stored    == UNION {shards[s] : s \in Shards}

PipeInit ==
  /\ open     = {Main}
  /\ kept     = {}
  /\ produced = [p \in Producers |-> 0]
  /\ channel  = <<>>
  /\ apc      = [a \in Aggregators |-> "recv"]
  /\ held     = [a \in Aggregators |-> {}]
  /\ local    = [a \in Aggregators |-> a % NumShards]
  /\ shards   = [s \in Shards |-> {}]
  /\ batch    = {}
  /\ posted   = {}
  /\ mpos     = NumShards
  /\ acc      = {}
  /\ report   = {}

-----------------------------------------------------------------------------
\* tx.clone() for newly spawned workers: somebody must still hold a tx.
CloneTx(Q) ==
  /\ open # {}
  /\ open' = open \cup Q
  /\ UNCHANGED <<kept, produced, channel, mergeVars, consumerVars>>

\* tx.send(metric): blocks while the channel is full.
Send(p) ==
  /\ p \in open
  /\ produced[p] < MaxPerProducer
  /\ Len(channel) < ChannelCap
  /\ produced' = [produced EXCEPT ![p] = @ + 1]
  /\ channel' = Append(channel, [from |-> p, seq |-> produced[p] + 1])
  /\ UNCHANGED <<txVars, mergeVars, consumerVars>>

\* A worker has its JS runtime: the closures in its globals hold clones of tx,
\* and they are not dropped with the worker, which forgets the runtime.
KeepTx(p) ==
  /\ p \in open \ {Main}
  /\ kept' = kept \cup {p}
  /\ UNCHANGED <<open, produced, channel, mergeVars, consumerVars>>

\* The last clone of a producer is dropped: the test thread or a scenario thread
\* ends (never half-way through a merge), or a worker that got no runtime.
DropTx(p) ==
  /\ p \in open \ kept
  /\ p = Main => mpos = NumShards
  /\ open' = open \ {p}
  /\ UNCHANGED <<kept, produced, channel, mergeVars, consumerVars>>

-----------------------------------------------------------------------------
\* Faulty variant: the metric stays in the queue while it is handled.
RecvPeeks(a) ==
  /\ apc[a] = "recv"
  /\ channel # <<>>
  /\ held' = [held EXCEPT ![a] = {Head(channel)}]
  /\ apc' = [apc EXCEPT ![a] = "add"]
  /\ UNCHANGED <<txVars, produced, channel, local, shards, batch, posted, mergeVars>>

\* rx.recv() returns the oldest metric.
Recv(a) ==
  /\ apc[a] = "recv"
  /\ channel # <<>>
  /\ held' = [held EXCEPT ![a] = {Head(channel)}]
  /\ channel' = Tail(channel)
  /\ apc' = [apc EXCEPT ![a] = "add"]
  /\ UNCHANGED <<txVars, produced, local, shards, batch, posted, mergeVars>>

\* Faulty variant: add() on a shard that starts over instead of accumulating.
AddOverwrites(a) ==
  /\ apc[a] = "add"
  /\ shards' = [shards EXCEPT ![local[a]] = held[a]]
  /\ local' = [local EXCEPT ![a] = (@ + NumAggregators) % NumShards]
  /\ held' = [held EXCEPT ![a] = {}]
  /\ apc' = [apc EXCEPT ![a] = "recv"]
  /\ UNCHANGED <<txVars, produced, channel, batch, posted, mergeVars>>

\* Faulty variant: the local counter is not reduced to a shard index.
AddNoModulo(a) ==
  /\ apc[a] = "add"
  /\ shards' = [shards EXCEPT ![local[a]] = @ \cup held[a]]
  /\ local' = [local EXCEPT ![a] = @ + NumAggregators]
  /\ held' = [held EXCEPT ![a] = {}]
  /\ apc' = [apc EXCEPT ![a] = "recv"]
  /\ UNCHANGED <<txVars, produced, channel, batch, posted, mergeVars>>

\* agg_handle.add(shard, metric) under the shard's write lock.  The primary
\* aggregator of a run with a URL also pushes the metric on its batch and,
\* when the batch is full or a second has passed (due), goes on to post it.
Add(a) ==
  /\ apc[a] = "add"
  /\ shards' = [shards EXCEPT ![local[a]] = @ \cup held[a]]
  /\ local' = [local EXCEPT ![a] = (@ + NumAggregators) % NumShards]
  /\ held' = [held EXCEPT ![a] = {}]
  /\ IF Remote /\ a = 0
     THEN /\ batch' = batch \cup held[a]
          /\ \E due \in BOOLEAN :
               apc' = [apc EXCEPT ![a] =
                 IF due \/ Cardinality(batch') >= BatchSize THEN "post" ELSE "recv"]
     ELSE /\ apc' = [apc EXCEPT ![a] = "recv"]
          /\ UNCHANGED batch
  /\ UNCHANGED <<txVars, produced, channel, posted, mergeVars>>

\* Faulty variant: the payload is a copy and the batch is not taken.
PostKeepsBatch(a) ==
  /\ apc[a] = "post"
  /\ posted' = posted \cup batch
  /\ apc' = [apc EXCEPT ![a] = "recv"]
  /\ UNCHANGED <<txVars, produced, channel, held, local, shards, batch, mergeVars>>

\* The batch is taken (mem::take) and POSTed; the outcome is ignored.
Post(a) ==
  /\ apc[a] = "post"
  /\ posted' = posted \cup batch
  /\ batch' = {}
  /\ apc' = [apc EXCEPT ![a] = "recv"]
  /\ UNCHANGED <<txVars, produced, channel, held, local, shards, mergeVars>>

\* rx.recv() fails: the queue is empty and no tx is left.
AggExit(a) ==
  /\ apc[a] = "recv"
  /\ channel = <<>>
  /\ open = {}
  /\ apc' = [apc EXCEPT ![a] = "exited"]
  /\ UNCHANGED <<txVars, produced, channel, held, local, shards, batch, posted,
                 mergeVars>>

Aggregate(a) == Recv(a) \/ Add(a) \/ Post(a) \/ AggExit(a)

-----------------------------------------------------------------------------
\* ShardedAggregator::merge starts from an empty StatsAggregator.
MergeStart ==
  /\ mpos = NumShards
  /\ Main \in open
  /\ mpos' = 0
  /\ acc' = {}
  /\ UNCHANGED <<txVars, produced, channel, report, consumerVars>>

\* Faulty variant: a shard somebody is about to write is skipped (try_read).
MergeShardTryRead ==
  /\ mpos < NumShards
  /\ mpos' = mpos + 1
  /\ acc' = IF \E a \in Aggregators : apc[a] = "add" /\ local[a] = mpos
            THEN acc ELSE acc \cup shards[mpos]
  /\ report' = IF mpos + 1 = NumShards THEN acc' ELSE report
  /\ UNCHANGED <<txVars, produced, channel, consumerVars>>

\* One turn of `for shard in &self.shards`: each shard is read under its own
\* lock, so adds to the other shards go on in between.
MergeShard ==
  /\ mpos < NumShards
  /\ mpos' = mpos + 1
  /\ acc' = acc \cup shards[mpos]
  /\ report' = IF mpos + 1 = NumShards THEN acc' ELSE report
  /\ UNCHANGED <<txVars, produced, channel, consumerVars>>

-----------------------------------------------------------------------------
\* A run that is over: the test thread has left, and the aggregators are gone
\* or wait for the metrics of a tx that will never be used nor dropped.
Drained(a) == apc[a] = "exited" \/ (apc[a] = "recv" /\ channel = <<>> /\ open # {})

PipeEnded ==
  /\ Main \notin open
  /\ \A a \in Aggregators : Drained(a)
  /\ mpos = NumShards
  /\ UNCHANGED pipeVars

PipeNext ==
  \/ \E Q \in SUBSET Producers : CloneTx(Q)
  \/ \E p \in Producers : Send(p) \/ KeepTx(p) \/ DropTx(p)
  \/ \E a \in Aggregators : Aggregate(a)
  \/ MergeStart
  \/ MergeShard
  \/ PipeEnded

PipeFairness == \A a \in Aggregators : WF_pipeVars(Aggregate(a))

PipeSpec == PipeInit /\ [][PipeNext]_pipeVars /\ PipeFairness

-----------------------------------------------------------------------------
PipeTypeOK ==
  /\ open \subseteq Producers /\ kept \subseteq open
  /\ produced \in [Producers -> 0 .. MaxPerProducer]
  /\ channel \in Seq(Metric)
  /\ apc \in [Aggregators -> {"recv", "add", "post", "exited"}]
  /\ held \in [Aggregators -> SUBSET Metric]
  /\ local \in [Aggregators -> Shards]
  /\ shards \in [Shards -> SUBSET Metric]
  /\ batch \subseteq Metric
  /\ posted \subseteq Metric
  /\ mpos \in 0 .. NumShards
  /\ acc \subseteq Metric
  /\ report \subseteq Metric

\* Nothing is lost on the way to the statistics: a metric that was sent is in
\* the channel, in the hands of one aggregator thread, or in a shard
\* (the recv loop of the aggregator threads and ShardedAggregator::add).
Conservation == Sent = InChannel \cup InHands \cup Stored

\* Nothing is counted twice: no metric is at two of these places, at two
\* positions of the channel, with two aggregators or in two shards, so sums
\* over the shards count it once (ShardedAggregator::merge adds them up).
CountedOnce ==
  /\ \A i, j \in DOMAIN channel : channel[i] = channel[j] => i = j
  /\ \A a, b \in Aggregators : a # b => held[a] \cap held[b] = {}
  /\ \A s, t \in Shards : s # t => shards[s] \cap shards[t] = {}
  /\ InChannel \cap InHands = {}
  /\ InChannel \cap Stored = {}
  /\ InHands \cap Stored = {}

\* A report contains only metrics that were really sent and stored, whatever
\* the aggregators added while the merge was walking over the shards.
ReportSound == report \subseteq Stored /\ acc \subseteq Stored

\* The totals a run reports to its control plane never go backwards: a later
\* merge contains everything an earlier one did, although no merge reads
\* the shards atomically (the 5 s reports and the final report).
ReportsGrow == [][report \subseteq report']_pipeVars

\* The primary aggregator hands no metric to the HTTP client twice, and only
\* metrics the local statistics have too.
PostedOnce == batch \cap posted = {} /\ batch \cup posted \subseteq Stored

\* Everything consumed by the time the run is over was also reported remotely.
RemoteSeesEverything ==
  (Remote /\ Main \notin open /\ \A a \in Aggregators : Drained(a)) => posted = Stored

\* The path as an implementation of the ledger: a metric sent is counted
\* once, later, and stays counted.
Ledger == INSTANCE MetricLedger WITH sent <- Sent, counted <- Stored
ImplementsLedger == Ledger!Spec
=============================================================================
