--------------------------- MODULE LoadTestProofs ---------------------------
(***************************************************************************)
(* Proofs about MetricPipeline, for every number of producers, aggregator  *)
(* threads and shards and every capacity; and, resting on them, about      *)
(* LoadTest, for every number of workers, every schedule, every sequence   *)
(* of commands and every size of the metric path.                          *)
(***************************************************************************)
EXTENDS LoadTest, SequenceTheorems, TLAPS

-----------------------------------------------------------------------------
(* MetricPipeline.  The elements of a queue.                               *)

Elements(q) == {q[i] : i \in DOMAIN q}

\* No element of S is in the queue twice.
NoRepeats(q, S) == \A i, j \in DOMAIN q : q[i] = q[j] /\ q[i] \in S => i = j

\* What is appended to a queue joins its elements.
LEMMA AppendElements ==
  ASSUME NEW S, NEW q \in Seq(S), NEW e \in S, NEW R
  PROVE  /\ Append(q, e) \in Seq(S)
         /\ Elements(Append(q, e)) = Elements(q) \cup {e}
         /\ NoRepeats(q, R) /\ (e \in R => e \notin Elements(q)) => NoRepeats(Append(q, e), R)
  <1> DEFINE r == Append(q, e)
  <1>1. r \in Seq(S) /\ Len(r) = Len(q) + 1
    OBVIOUS
  <1>2. DOMAIN r = DOMAIN q \cup {Len(q) + 1} /\ Len(q) + 1 \notin DOMAIN q
    OBVIOUS
  <1>3. \A i \in DOMAIN q : r[i] = q[i]
    OBVIOUS
  <1>4. r[Len(q) + 1] = e
    OBVIOUS
  <1>5. Elements(r) = Elements(q) \cup {e}
    BY <1>2, <1>3, <1>4 DEF Elements
  <1>6. NoRepeats(q, R) /\ (e \in R => e \notin Elements(q)) => NoRepeats(r, R)
    BY <1>2, <1>3, <1>4 DEF Elements, NoRepeats
  <1> QED
    BY <1>1, <1>5, <1>6

\* What is taken from a queue is one of its elements, and the others stay.
LEMMA TailElements ==
  ASSUME NEW S, NEW q \in Seq(S), q # << >>, NEW R
  PROVE  /\ Tail(q) \in Seq(S)
         /\ Head(q) \in S
         /\ Elements(q) = Elements(Tail(q)) \cup {Head(q)}
         /\ NoRepeats(q, R) => /\ NoRepeats(Tail(q), R)
                               /\ Head(q) \in R => Head(q) \notin Elements(Tail(q))
  <1>1. Tail(q) \in Seq(S) /\ Head(q) \in S /\ Head(q) = q[1] /\ 1 \in DOMAIN q
    OBVIOUS
  <1>2. \A i \in DOMAIN Tail(q) : i + 1 \in DOMAIN q /\ i + 1 # 1 /\ Tail(q)[i] = q[i + 1]
    OBVIOUS
  <1>3. \A i \in DOMAIN q : i # 1 => i - 1 \in DOMAIN Tail(q) /\ Tail(q)[i - 1] = q[i]
    OBVIOUS
  <1>4. Elements(q) = Elements(Tail(q)) \cup {Head(q)}
    <2>1. \A x \in Elements(Tail(q)) : x \in Elements(q)
      BY <1>2 DEF Elements
    <2>2. ASSUME NEW i \in DOMAIN q, i # 1 PROVE q[i] \in Elements(Tail(q))
      <3>1. i - 1 \in DOMAIN Tail(q) /\ Tail(q)[i - 1] = q[i]
        BY <1>3, <2>2
      <3> QED
        BY <3>1 DEF Elements
    <2>3. Head(q) \in Elements(q)
      BY <1>1 DEF Elements
    <2> QED
      BY <1>1, <2>1, <2>2, <2>3 DEF Elements
  <1>5. ASSUME NoRepeats(q, R)
        PROVE  /\ NoRepeats(Tail(q), R)
               /\ Head(q) \in R => Head(q) \notin Elements(Tail(q))
    <2>1. \A i, j \in DOMAIN Tail(q) : i \in Int /\ (i + 1 = j + 1 => i = j)
      BY <1>1
    <2> QED
      BY <1>1, <1>2, <1>5, <2>1 DEF Elements, NoRepeats
  <1> QED
    BY <1>1, <1>4, <1>5

-----------------------------------------------------------------------------
(* Type correctness.                                                       *)

\* The shard index of an aggregator stays inside the array of shards.
LEMMA ShardIndex ==
  ASSUME NEW i \in Nat
  PROVE  i % NumShards \in Shards
  BY PipelineAssumption DEF PipelineAssumption, Shards

LEMMA TypeInit == PipeInit => PipeTypeOK
  <1> SUFFICES ASSUME PipeInit PROVE PipeTypeOK
    OBVIOUS
  <1>1. local \in [Aggregators -> Shards]
    BY ShardIndex DEF PipeInit, Aggregators
  <1>2. \A a \in Aggregators : a \in Nat
    BY PipelineAssumption DEF PipelineAssumption, Aggregators
  <1> QED
    BY <1>1, PipelineAssumption DEF PipeInit, PipeTypeOK, PipelineAssumption, Aggregators, Shards

LEMMA TypeStep == PipeTypeOK /\ [PipeNext]_pipeVars => PipeTypeOK'
  <1> SUFFICES ASSUME PipeTypeOK, [PipeNext]_pipeVars PROVE PipeTypeOK'
    OBVIOUS
  <1> USE PipelineAssumption DEF PipelineAssumption, txVars, mergeVars, consumerVars
  <1>1. ASSUME NEW Q \in SUBSET Producers, CloneTx(Q) PROVE PipeTypeOK'
    BY <1>1 DEF CloneTx, PipeTypeOK
  <1>2. ASSUME NEW p \in Producers, Send(p) PROVE PipeTypeOK'
    <2> DEFINE m == [from |-> p, seq |-> produced[p] + 1]
    <2>1. produced[p] \in 0 .. MaxPerProducer /\ produced[p] + 1 \in 1 .. MaxPerProducer
      BY <1>2 DEF Send, PipeTypeOK
    <2>2. m \in Metric
      BY <2>1 DEF Metric
    <2>3. channel' \in Seq(Metric)
      BY <1>2, <2>2, AppendElements DEF Send, PipeTypeOK
    <2>4. produced' \in [Producers -> 0 .. MaxPerProducer]
      BY <1>2, <2>1 DEF Send, PipeTypeOK
    <2> QED
      BY <1>2, <2>3, <2>4 DEF Send, PipeTypeOK
  <1>3. ASSUME NEW p \in Producers, KeepTx(p) \/ DropTx(p) PROVE PipeTypeOK'
    BY <1>3 DEF KeepTx, DropTx, PipeTypeOK
  <1>4. ASSUME NEW a \in Aggregators, Recv(a) PROVE PipeTypeOK'
    <2>1. Head(channel) \in Metric /\ Tail(channel) \in Seq(Metric)
      BY <1>4, TailElements DEF Recv, PipeTypeOK
    <2> QED
      BY <1>4, <2>1 DEF Recv, PipeTypeOK
  <1>5. ASSUME NEW a \in Aggregators, Add(a) PROVE PipeTypeOK'
    <2>1. local[a] + NumAggregators \in Nat
      BY DEF PipeTypeOK, Shards
    <2>2. local' \in [Aggregators -> Shards]
      BY <1>5, <2>1, ShardIndex DEF Add, PipeTypeOK
    <2>3. shards' \in [Shards -> SUBSET Metric] /\ held' \in [Aggregators -> SUBSET Metric]
      BY <1>5 DEF Add, PipeTypeOK
    <2>4. apc' \in [Aggregators -> {"recv", "add", "post", "exited"}] /\ batch' \subseteq Metric
      BY <1>5 DEF Add, PipeTypeOK
    <2> QED
      BY <1>5, <2>2, <2>3, <2>4 DEF Add, PipeTypeOK
  <1>6. ASSUME NEW a \in Aggregators, Post(a) PROVE PipeTypeOK'
    BY <1>6 DEF Post, PipeTypeOK
  <1>7. ASSUME NEW a \in Aggregators, AggExit(a) PROVE PipeTypeOK'
    BY <1>7 DEF AggExit, PipeTypeOK
  <1>8. CASE MergeStart
    BY <1>8 DEF MergeStart, PipeTypeOK
  <1>9. CASE MergeShard
    <2>1. mpos \in Shards /\ mpos + 1 \in 0 .. NumShards
      BY <1>9 DEF MergeShard, PipeTypeOK, Shards
    <2>2. acc' \subseteq Metric /\ report' \subseteq Metric
      BY <1>9, <2>1 DEF MergeShard, PipeTypeOK
    <2> QED
      BY <1>9, <2>1, <2>2 DEF MergeShard, PipeTypeOK
  <1>10. CASE UNCHANGED pipeVars
    BY <1>10 DEF pipeVars, PipeTypeOK
  <1> QED
    BY <1>1, <1>2, <1>3, <1>4, <1>5, <1>6, <1>7, <1>8, <1>9, <1>10
       DEF PipeNext, Aggregate, PipeEnded

\* Every variable keeps its type; above all an aggregator's local counter,
\* which selects the shard it locks, always names one that exists.
THEOREM TypeCorrect == PipeSpec => []PipeTypeOK
  BY TypeInit, TypeStep, PTL DEF PipeSpec

-----------------------------------------------------------------------------
(* Nothing is lost and nothing is counted twice.                           *)

\* An aggregator about to add a metric holds that one, and no other holds any.
HandsFull ==
  \A a \in Aggregators : IF apc[a] = "add" THEN \E m \in Metric : held[a] = {m}
                                           ELSE held[a] = {}

IInv == PipeTypeOK /\ HandsFull /\ Conservation /\ CountedOnce

LEMMA ChannelElements == InChannel = Elements(channel)
  BY DEF InChannel, Elements

\* CountedOnce says of the channel what NoRepeats does.
LEMMA ChannelNoRepeats ==
  ASSUME channel \in Seq(Metric)
  PROVE  CountedOnce => NoRepeats(channel, Metric)
  BY DEF CountedOnce, NoRepeats

LEMMA InvInit == PipeInit => IInv
  <1> SUFFICES ASSUME PipeInit PROVE IInv
    OBVIOUS
  <1>1. PipeTypeOK
    BY TypeInit
  <1>2. Sent = {} /\ InChannel = {} /\ InHands = {} /\ Stored = {}
    BY DEF PipeInit, Sent, InChannel, InHands, Stored, Metric
  <1>3. HandsFull
    BY DEF PipeInit, HandsFull
  <1>4. Conservation
    BY <1>2 DEF Conservation
  <1>5. CountedOnce
    BY <1>2 DEF PipeInit, CountedOnce
  <1> QED
    BY <1>1, <1>3, <1>4, <1>5 DEF IInv

\* A send adds one metric to those sent.
LEMMA SentGrows ==
  ASSUME PipeTypeOK, NEW p \in Producers, Send(p)
  PROVE  LET m == [from |-> p, seq |-> produced[p] + 1]
         IN  m \in Metric /\ m \notin Sent /\ Sent' = Sent \cup {m}
  <1> DEFINE m == [from |-> p, seq |-> produced[p] + 1]
  <1> USE PipelineAssumption DEF PipelineAssumption
  <1>1. produced[p] \in Nat /\ produced[p] + 1 \in 1 .. MaxPerProducer
    BY DEF Send, PipeTypeOK
  <1>2. m \in Metric
    BY <1>1 DEF Metric
  <1>3. m \notin Sent
    BY <1>1 DEF Sent
  <1>4. Sent' = Sent \cup {m}
    <2>1. \A x \in Metric : x.from \in Producers /\ x.seq \in 1 .. MaxPerProducer
      BY DEF Metric
    <2>2. \A q \in Producers : produced[q] \in Nat
      BY DEF PipeTypeOK
    <2>3. \A q \in Producers : produced'[q] = IF q = p THEN produced[p] + 1 ELSE produced[q]
      BY DEF Send, PipeTypeOK
    <2>4. \A x \in Metric : x.from = p /\ x.seq = produced[p] + 1 <=> x = m
      BY <1>2 DEF Metric
    <2>5. \A x \in Metric : x.seq <= produced'[x.from] <=> x.seq <= produced[x.from] \/ x = m
      BY <2>1, <2>2, <2>3, <2>4
    <2> QED
      BY <2>5, <1>2 DEF Sent
  <1> QED
    BY <1>2, <1>3, <1>4

\* A metric sent is new: it is in none of the places.
LEMMA InvSend ==
  ASSUME IInv, NEW p \in Producers, Send(p), PipeTypeOK'
  PROVE  IInv'
  <1> DEFINE m == [from |-> p, seq |-> produced[p] + 1]
  <1> USE PipelineAssumption DEF PipelineAssumption
  <1>1. UNCHANGED <<apc, held, shards>> /\ channel' = Append(channel, m)
    BY DEF Send, consumerVars
  <1>3. m \in Metric
    BY SentGrows DEF IInv
  <1>4. m \notin Sent
    BY SentGrows DEF IInv
  <1>5. Sent' = Sent \cup {m}
    BY SentGrows DEF IInv
  <1>6. m \notin InChannel /\ m \notin InHands /\ m \notin Stored
    BY <1>4 DEF IInv, Conservation
  <1>7. InHands' = InHands /\ Stored' = Stored
    BY <1>1 DEF InHands, Stored
  <1>8. /\ InChannel' = InChannel \cup {m}
        /\ NoRepeats(channel', Metric)
    <2>1. channel \in Seq(Metric) /\ NoRepeats(channel, Metric)
      BY ChannelNoRepeats DEF IInv, PipeTypeOK
    <2>2. m \notin Elements(channel)
      BY <1>6, ChannelElements
    <2>3. /\ Elements(Append(channel, m)) = Elements(channel) \cup {m}
          /\ NoRepeats(Append(channel, m), Metric)
      BY <1>3, <2>1, <2>2, AppendElements
    <2> QED
      BY <1>1, <2>3 DEF InChannel, Elements
  <1>9. Conservation'
    BY <1>5, <1>7, <1>8 DEF IInv, Conservation
  <1>10. CountedOnce'
    <2>1. \A i, j \in DOMAIN channel' : channel'[i] = channel'[j] => i = j
      BY <1>8 DEF NoRepeats, PipeTypeOK
    <2> QED
      BY <1>1, <1>6, <1>7, <1>8, <2>1 DEF IInv, CountedOnce
  <1>11. HandsFull'
    BY <1>1 DEF IInv, HandsFull
  <1> QED
    BY <1>9, <1>10, <1>11 DEF IInv

\* A metric received leaves the channel and comes into one pair of hands.
LEMMA InvRecv ==
  ASSUME IInv, NEW a \in Aggregators, Recv(a), PipeTypeOK'
  PROVE  IInv'
  <1> DEFINE m == Head(channel)
  <1>1. UNCHANGED <<produced, shards>> /\ channel' = Tail(channel)
    BY DEF Recv
  <1>2. held[a] = {}
    BY DEF IInv, HandsFull, Recv
  <1>3. \A b \in Aggregators : held'[b] = IF b = a THEN {m} ELSE held[b]
    BY DEF Recv, IInv, PipeTypeOK
  <1>4. InHands' = InHands \cup {m}
    BY <1>2, <1>3 DEF InHands
  <1>5. Sent' = Sent /\ Stored' = Stored
    BY <1>1 DEF Sent, Stored
  <1>6. /\ InChannel = InChannel' \cup {m}
        /\ m \notin InChannel'
        /\ NoRepeats(channel', Metric)
    <2>1. channel \in Seq(Metric) /\ NoRepeats(channel, Metric) /\ channel # << >>
      BY ChannelNoRepeats DEF IInv, PipeTypeOK, Recv
    <2>2. /\ Elements(channel) = Elements(Tail(channel)) \cup {m}
          /\ NoRepeats(Tail(channel), Metric) /\ m \notin Elements(Tail(channel))
      BY <2>1, TailElements
    <2> QED
      BY <1>1, <2>2 DEF InChannel, Elements
  <1>7. Conservation'
    BY <1>4, <1>5, <1>6 DEF IInv, Conservation
  <1>8. CountedOnce'
    <2>1. m \notin InHands /\ m \notin Stored
      BY <1>6 DEF IInv, CountedOnce
    <2>2. \A b \in Aggregators : m \notin held[b]
      BY <2>1 DEF InHands
    <2>3. \A b, c \in Aggregators : b # c => held'[b] \cap held'[c] = {}
      BY <1>3, <2>2 DEF IInv, CountedOnce
    <2> QED
      BY <1>1, <1>4, <1>5, <1>6, <2>1, <2>3 DEF IInv, CountedOnce, NoRepeats
  <1>9. HandsFull'
    <2>1. \A b \in Aggregators : apc'[b] = IF b = a THEN "add" ELSE apc[b]
      BY DEF Recv, IInv, PipeTypeOK
    <2>2. m \in Metric
      BY TailElements DEF Recv, IInv, PipeTypeOK
    <2> QED
      BY <1>3, <2>1, <2>2 DEF IInv, HandsFull
  <1> QED
    BY <1>7, <1>8, <1>9 DEF IInv

\* An add puts what the aggregator holds into the shards.
LEMMA StoredGrows ==
  ASSUME PipeTypeOK, NEW a \in Aggregators, Add(a)
  PROVE  Stored' = Stored \cup held[a]
  <1>1. local[a] \in Shards
    BY DEF PipeTypeOK
  <1>2. \A s \in Shards : shards'[s] = IF s = local[a] THEN shards[s] \cup held[a] ELSE shards[s]
    BY DEF Add, PipeTypeOK
  <1>3. held[a] \subseteq Stored'
    <2>1. held[a] \subseteq shards'[local[a]]
      BY <1>1, <1>2
    <2> QED
      BY <1>1, <2>1 DEF Stored
  <1>4. Stored \subseteq Stored'
    <2>1. \A s \in Shards : shards[s] \subseteq shards'[s]
      BY <1>2
    <2> QED
      BY <2>1 DEF Stored
  <1>5. Stored' \subseteq Stored \cup held[a]
    <2>1. \A s \in Shards : shards'[s] \subseteq shards[s] \cup held[a]
      BY <1>2
    <2> QED
      BY <2>1 DEF Stored
  <1> QED
    BY <1>3, <1>4, <1>5

\* A metric added moves from an aggregator's hands into one shard.
LEMMA InvAdd ==
  ASSUME IInv, NEW a \in Aggregators, Add(a), PipeTypeOK'
  PROVE  IInv'
  <1>1. UNCHANGED <<produced, channel>>
    BY DEF Add
  <1>2. \A b \in Aggregators : held'[b] = IF b = a THEN {} ELSE held[b]
    BY DEF Add, IInv, PipeTypeOK
  <1>3. local[a] \in Shards
    BY DEF IInv, PipeTypeOK
  <1>4. \A s \in Shards : shards'[s] = IF s = local[a] THEN shards[s] \cup held[a] ELSE shards[s]
    BY DEF Add, IInv, PipeTypeOK
  <1>5. InChannel' = InChannel /\ Sent' = Sent
    BY <1>1 DEF InChannel, Sent
  <1>6. Stored' = Stored \cup held[a]
    BY StoredGrows DEF IInv
  <1>7. InHands = InHands' \cup held[a] /\ InHands' \cap held[a] = {}
    <2>1. \A b \in Aggregators : b # a => held[b] \cap held[a] = {}
      BY DEF IInv, CountedOnce
    <2> QED
      BY <1>2, <2>1 DEF InHands
  <1>8. Conservation'
    BY <1>5, <1>6, <1>7 DEF IInv, Conservation
  <1>9. CountedOnce'
    <2>1. held[a] \cap Stored = {} /\ held[a] \cap InChannel = {}
      BY <1>7 DEF IInv, CountedOnce
    <2>2. \A s \in Shards : held[a] \cap shards[s] = {}
      BY <2>1 DEF Stored
    <2>3. \A s, t \in Shards : s # t => shards'[s] \cap shards'[t] = {}
      BY <1>4, <2>2 DEF IInv, CountedOnce
    <2>4. \A b, c \in Aggregators : b # c => held'[b] \cap held'[c] = {}
      BY <1>2 DEF IInv, CountedOnce
    <2>5. /\ InChannel' \cap InHands' = {}
          /\ InChannel' \cap Stored' = {}
          /\ InHands' \cap Stored' = {}
      BY <1>5, <1>6, <1>7, <2>1 DEF IInv, CountedOnce
    <2> QED
      BY <1>1, <2>3, <2>4, <2>5 DEF IInv, CountedOnce
  <1>10. HandsFull'
    <2>1. apc'[a] # "add" /\ \A b \in Aggregators : b # a => apc'[b] = apc[b]
      BY DEF Add, IInv, PipeTypeOK
    <2> QED
      BY <1>2, <2>1 DEF IInv, HandsFull
  <1> QED
    BY <1>8, <1>9, <1>10 DEF IInv

\* The other steps move no metric.
LEMMA InvOther ==
  ASSUME IInv, PipeTypeOK', UNCHANGED <<produced, channel, held, shards>>,
         \A a \in Aggregators : apc'[a] = "add" <=> apc[a] = "add"
  PROVE  IInv'
  <1>1. Conservation'
    BY DEF IInv, Conservation, Sent, InChannel, InHands, Stored
  <1>2. CountedOnce'
    BY DEF IInv, CountedOnce, InChannel, InHands, Stored
  <1>3. HandsFull'
    BY DEF IInv, HandsFull
  <1> QED
    BY <1>1, <1>2, <1>3 DEF IInv

LEMMA InvStep == IInv /\ [PipeNext]_pipeVars => IInv'
  <1> SUFFICES ASSUME IInv, [PipeNext]_pipeVars PROVE IInv'
    OBVIOUS
  <1>0. PipeTypeOK'
    BY TypeStep DEF IInv
  <1> USE <1>0 DEF txVars, mergeVars, consumerVars
  <1>1. ASSUME NEW Q \in SUBSET Producers, CloneTx(Q) PROVE IInv'
    BY <1>1, InvOther DEF CloneTx
  <1>2. ASSUME NEW p \in Producers, Send(p) PROVE IInv'
    BY <1>2, InvSend
  <1>3. ASSUME NEW p \in Producers, KeepTx(p) \/ DropTx(p) PROVE IInv'
    BY <1>3, InvOther DEF KeepTx, DropTx
  <1>4. ASSUME NEW a \in Aggregators, Recv(a) PROVE IInv'
    BY <1>4, InvRecv
  <1>5. ASSUME NEW a \in Aggregators, Add(a) PROVE IInv'
    BY <1>5, InvAdd
  <1>6. ASSUME NEW a \in Aggregators, Post(a) \/ AggExit(a) PROVE IInv'
    <2>1. \A b \in Aggregators : apc'[b] = "add" <=> apc[b] = "add"
      BY <1>6 DEF Post, AggExit, IInv, PipeTypeOK
    <2>2. UNCHANGED <<produced, channel, held, shards>>
      BY <1>6 DEF Post, AggExit
    <2> QED
      BY <2>1, <2>2, InvOther
  <1>7. CASE MergeStart \/ MergeShard
    BY <1>7, InvOther DEF MergeStart, MergeShard
  <1>8. CASE UNCHANGED pipeVars
    BY <1>8, InvOther DEF pipeVars
  <1> QED
    BY <1>1, <1>2, <1>3, <1>4, <1>5, <1>6, <1>7, <1>8 DEF PipeNext, Aggregate, PipeEnded

LEMMA Inductive == PipeSpec => []IInv
  BY InvInit, InvStep, PTL DEF PipeSpec

\* No metric that was sent is lost, however many threads send and receive.
THEOREM NothingLost == PipeSpec => []Conservation
  <1>1. IInv => Conservation
    BY DEF IInv
  <1> QED
    BY <1>1, Inductive, PTL

\* No metric is counted twice, whichever aggregator thread receives it and
\* whichever shards it is spread over.
THEOREM NothingCountedTwice == PipeSpec => []CountedOnce
  <1>1. IInv => CountedOnce
    BY DEF IInv
  <1> QED
    BY <1>1, Inductive, PTL

-----------------------------------------------------------------------------
(* Reports.                                                                *)

\* What a merge in progress has collected and what it has still to read
\* together cover the last report.
ReportCovered ==
  mpos # NumShards => report \subseteq acc \cup UNION {shards[s] : s \in mpos .. NumShards - 1}

RInv == IInv /\ ReportSound /\ ReportCovered

\* The shards only grow, whatever step is taken.
LEMMA ShardsGrow ==
  ASSUME IInv, [PipeNext]_pipeVars
  PROVE  \A s \in Shards : shards[s] \subseteq shards'[s]
  <1>1. ASSUME NEW a \in Aggregators, Add(a)
        PROVE  \A s \in Shards : shards[s] \subseteq shards'[s]
    BY <1>1 DEF Add, IInv, PipeTypeOK
  <1>2. CASE UNCHANGED shards
    BY <1>2
  <1> QED
    BY <1>1, <1>2 DEF PipeNext, CloneTx, Send, KeepTx, DropTx, Aggregate, Recv, Post, AggExit,
       MergeStart, MergeShard, PipeEnded, txVars, consumerVars, pipeVars

LEMMA ReportStep ==
  ASSUME RInv, [PipeNext]_pipeVars
  PROVE  RInv' /\ report \subseteq report'
  <1> USE PipelineAssumption DEF PipelineAssumption, RInv
  <1>1. IInv' /\ \A s \in Shards : shards[s] \subseteq shards'[s]
    BY InvStep, ShardsGrow
  <1>2. Stored \subseteq Stored'
    BY <1>1 DEF Stored
  <1>3. mpos \in 0 .. NumShards
    BY DEF IInv, PipeTypeOK
  <1>4. CASE UNCHANGED mergeVars
    <2>1. ReportSound'
      BY <1>2, <1>4 DEF ReportSound, mergeVars
    <2>2. ReportCovered'
      <3>1. \A s \in mpos .. NumShards - 1 : s \in Shards
        BY <1>3 DEF Shards
      <3> QED
        BY <1>1, <1>4, <3>1 DEF ReportCovered, mergeVars
    <2> QED
      BY <1>1, <1>4, <2>1, <2>2 DEF mergeVars
  <1>5. CASE MergeStart
    <2>1. ReportSound' /\ report' = report
      BY <1>2, <1>5 DEF MergeStart, ReportSound
    <2>2. ReportCovered'
      BY <1>5 DEF MergeStart, ReportCovered, ReportSound, Stored, Shards, consumerVars
    <2> QED
      BY <1>1, <2>1, <2>2
  <1>6. CASE MergeShard
    <2>1. mpos \in Shards /\ shards' = shards /\ acc' = acc \cup shards[mpos]
      BY <1>3, <1>6 DEF MergeShard, Shards, consumerVars
    <2>2. shards[mpos] \subseteq Stored
      BY <2>1 DEF Stored
    <2>3. report \subseteq acc' \cup UNION {shards[s] : s \in mpos + 1 .. NumShards - 1}
      <3>1. \A s \in mpos .. NumShards - 1 : s = mpos \/ s \in mpos + 1 .. NumShards - 1
        BY <1>3
      <3>2. report \subseteq acc \cup UNION {shards[s] : s \in mpos .. NumShards - 1}
        BY <1>6 DEF MergeShard, ReportCovered
      <3> QED
        BY <2>1, <3>1, <3>2
    <2>4. CASE mpos + 1 = NumShards
      <3>1. report' = acc' /\ mpos' = NumShards
        BY <1>6, <2>4 DEF MergeShard
      <3>2. report \subseteq acc'
        BY <1>3, <2>3, <2>4
      <3>3. ReportSound'
        BY <1>2, <2>1, <2>2, <3>1 DEF ReportSound
      <3> QED
        BY <1>1, <3>1, <3>2, <3>3 DEF ReportCovered
    <2>5. CASE mpos + 1 # NumShards
      <3>1. report' = report /\ mpos' = mpos + 1
        BY <1>6, <2>5 DEF MergeShard
      <3>2. ReportSound'
        BY <1>2, <2>1, <2>2, <3>1 DEF ReportSound
      <3>3. ReportCovered'
        BY <2>1, <2>3, <3>1 DEF ReportCovered
      <3> QED
        BY <1>1, <3>1, <3>2, <3>3
    <2> QED
      BY <2>4, <2>5
  <1> QED
    BY <1>4, <1>5, <1>6 DEF PipeNext, CloneTx, Send, KeepTx, DropTx, Aggregate, Recv, Add, Post, AggExit,
       PipeEnded, pipeVars, txVars, mergeVars

LEMMA ReportInit == PipeInit => RInv
  <1> SUFFICES ASSUME PipeInit PROVE RInv
    OBVIOUS
  <1>1. IInv
    BY InvInit
  <1>2. ReportSound /\ ReportCovered
    BY DEF PipeInit, ReportSound, ReportCovered
  <1> QED
    BY <1>1, <1>2 DEF RInv

\* A report holds stored metrics only, although no merge locks the shards
\* together.
THEOREM ReportsSound == PipeSpec => []ReportSound
  <1>1. RInv /\ [PipeNext]_pipeVars => RInv'
    BY ReportStep
  <1>2. RInv => ReportSound
    BY DEF RInv
  <1> QED
    BY <1>1, <1>2, ReportInit, PTL DEF PipeSpec

\* A later report contains every earlier one.
THEOREM ReportsNeverShrink == PipeSpec => ReportsGrow
  <1>1. RInv /\ [PipeNext]_pipeVars => RInv' /\ [report \subseteq report']_pipeVars
    BY ReportStep
  <1> QED
    BY <1>1, ReportInit, PTL DEF PipeSpec, ReportsGrow

-----------------------------------------------------------------------------
(* Remote batches.                                                         *)

LEMMA PostedStep ==
  ASSUME IInv, PostedOnce, [PipeNext]_pipeVars
  PROVE  PostedOnce'
  <1>1. Stored \subseteq Stored'
    BY ShardsGrow DEF Stored
  <1>2. CASE UNCHANGED <<batch, posted>>
    BY <1>1, <1>2 DEF PostedOnce
  <1>3. ASSUME NEW a \in Aggregators, Add(a) PROVE PostedOnce'
    <2>1. held[a] \cap Stored = {}
      BY DEF IInv, CountedOnce, InHands
    <2>2. held[a] \subseteq Stored'
      <3>1. local[a] \in Shards /\ held[a] \subseteq shards'[local[a]]
        BY <1>3 DEF Add, IInv, PipeTypeOK
      <3> QED
        BY <3>1 DEF Stored
    <2>3. posted' = posted /\ (batch' = batch \/ batch' = batch \cup held[a])
      BY <1>3 DEF Add
    <2> QED
      BY <1>1, <2>1, <2>2, <2>3 DEF PostedOnce
  <1>4. ASSUME NEW a \in Aggregators, Post(a) PROVE PostedOnce'
    BY <1>1, <1>4 DEF Post, PostedOnce
  <1> QED
    BY <1>2, <1>3, <1>4 DEF PipeNext, CloneTx, Send, KeepTx, DropTx, Aggregate, Recv, AggExit,
       MergeStart, MergeShard, PipeEnded, txVars, consumerVars, pipeVars

\* No metric is posted twice, and none is posted that the local statistics lack.
THEOREM PostedAtMostOnce == PipeSpec => []PostedOnce
  <1>1. PipeInit => PostedOnce
    BY DEF PipeInit, PostedOnce
  <1>2. IInv /\ PostedOnce /\ [PipeNext]_pipeVars => PostedOnce'
    BY PostedStep
  <1> QED
    BY <1>1, <1>2, Inductive, PTL DEF PipeSpec

-----------------------------------------------------------------------------
(* The pipeline implements the ledger (its steps; TLC checks its fairness). *)

LEMMA LedgerInit == PipeInit => Ledger!Init
  BY DEF PipeInit, Ledger!Init, Sent, Stored, Metric

LEMMA LedgerStep ==
  ASSUME IInv, [PipeNext]_pipeVars
  PROVE  [Ledger!Next]_(Ledger!ledgerVars)
  <1> USE DEF Ledger!ledgerVars
  <1>1. CASE UNCHANGED <<produced, shards>>
    BY <1>1 DEF Sent, Stored
  <1>2. ASSUME NEW p \in Producers, Send(p)
        PROVE  Ledger!Next
    <2> DEFINE m == [from |-> p, seq |-> produced[p] + 1]
    <2>1. produced[p] \in Nat /\ m \in Metric /\ m \notin Sent
      <3>1. produced[p] \in Nat /\ produced[p] + 1 \in 1 .. MaxPerProducer
        BY <1>2, PipelineAssumption DEF Send, IInv, PipeTypeOK, PipelineAssumption
      <3> QED
        BY <3>1 DEF Metric, Sent
    <2>2. Sent' = Sent \cup {m}
      BY <1>2, SentGrows DEF IInv
    <2>3. Stored' = Stored
      BY <1>2 DEF Send, Stored, consumerVars
    <2> QED
      BY <2>1, <2>2, <2>3 DEF Ledger!Next, Ledger!Emit
  <1>3. ASSUME NEW a \in Aggregators, Add(a)
        PROVE  Ledger!Next
    <2>1. PICK m \in Metric : held[a] = {m}
      BY <1>3 DEF Add, IInv, HandsFull
    <2>2. m \in Sent \ Stored
      <3>1. m \in InHands
        BY <2>1 DEF InHands
      <3> QED
        BY <3>1 DEF IInv, Conservation, CountedOnce
    <2>3. Stored' = Stored \cup {m}
      BY <1>3, <2>1, StoredGrows DEF IInv
    <2>4. Sent' = Sent
      BY <1>3 DEF Add, Sent
    <2> QED
      BY <2>2, <2>3, <2>4 DEF Ledger!Next, Ledger!Count
  <1> QED
    BY <1>1, <1>2, <1>3 DEF PipeNext, CloneTx, KeepTx, DropTx, Aggregate, Recv, Post, AggExit,
       MergeStart, MergeShard, PipeEnded, txVars, consumerVars, pipeVars

\* Every step of the channel, the aggregator threads and the merges is a step
\* of the ledger or none at all: a metric is emitted once, counted once, and
\* only after it was emitted.
THEOREM StepsOfTheLedger == PipeSpec => Ledger!Init /\ [][Ledger!Next]_(Ledger!ledgerVars)
  BY LedgerInit, LedgerStep, Inductive, PTL DEF PipeSpec

-----------------------------------------------------------------------------
(* LoadTest.  The inductive invariant.                                     *)

\* Whoever has begun an iteration may still count it.
IterationsLeft ==
  \A w \in Workers : wpc[w] \in {"call", "iteration", "iteration_total"} => iters[w] < IterBound

\* The time of a pause is kept only while it lasts.
PauseNoted == pausing # NoPause => paused

\* A worker that began an iteration in this pause is not about to begin
\* another.
HeldByPause == \A w \in Workers : (paused /\ begun[w] # 0) => wpc[w] # "gate"

\* A worker holds tx from its spawn on, and for ever once it has registered its
\* globals, whether it has returned or not; the test thread holds its own until
\* the run is over, and a merge goes on exactly while the test thread is in one.
TxHeld ==
  /\ \A w \in Workers : w \in open <=> wpc[w] = "init" \/ w \in kept
  /\ \A w \in Workers : wpc[w] \in {"unborn", "init"} => w \notin kept
  /\ \A w \in Workers : wpc[w] \notin {"unborn", "init", "exited"} => w \in kept
  /\ \A w \in Workers : w >= nextId => wpc[w] = "unborn"
  /\ Main \notin kept
  /\ Main \in open <=> epc # "returned"
  /\ mpos = NumShards <=> epc \notin {"merging", "final"}

\* An aggregator thread that is gone has seen the channel closed.
ExitedMeansClosed == \A a \in Aggregators : apc[a] = "exited" => open = {}

RunInv ==
  /\ TypeOK /\ IterationsLeft /\ PauseNoted
  /\ HeldByPause /\ OneIterationPerPause
  /\ NoOrphans /\ TxHeld /\ ExitedMeansClosed

-----------------------------------------------------------------------------
(* Scaling the pool.                                                       *)

\* The k next ids.
LEMMA NextIds ==
  ASSUME NEW n \in Nat \ {0}, NEW k \in Nat, MaxWorkers \in Nat, n + k <= MaxWorkers + 1
  PROVE  LET more == [i \in 1 .. k |-> n + i - 1] IN
           more \in Seq(Workers) /\ Len(more) = k /\ \A i \in 1 .. k : more[i] = n + i - 1
  <1> DEFINE more == [i \in 1 .. k |-> n + i - 1]
  <1>1. \A i \in 1 .. k : n + i - 1 \in Workers
    BY DEF Workers
  <1>2. more \in [1 .. k -> Workers] /\ \A i \in 1 .. k : more[i] = n + i - 1
    BY <1>1
  <1> HIDE DEF more
  <1>3. more \in Seq(Workers) /\ Len(more) = k
    BY <1>2
  <1> QED
    BY <1>2, <1>3 DEF more

\* New workers get the next ids, join the pool and are raised.
LEMMA SpawnPool ==
  ASSUME TypeOK, NEW k \in Nat, k <= MaxWorkers - nextId + 1, Spawn(k)
  PROVE  /\ active' \in Seq(Workers) /\ Len(active') = Len(active) + k /\ k \in Nat
         /\ nextId' = nextId + k /\ nextId' \in 1 .. MaxWorkers + 1
         /\ nextId .. nextId + k - 1 \subseteq Workers
         /\ \A i \in 1 .. Len(active) : active'[i] = active[i]
         /\ \A w \in nextId .. nextId + k - 1 :
              \E i \in 1 .. Len(active') : active'[i] = w
  <1>1. MaxWorkers \in Nat /\ nextId \in 1 .. MaxWorkers + 1 /\ active \in Seq(Workers)
    BY LoadTestAssumption DEF LoadTestAssumption, TypeOK
  <1>2. k \in Nat /\ nextId + k <= MaxWorkers + 1 /\ nextId \in Nat \ {0}
    BY <1>1
  <1>3. /\ active' = active \o [i \in 1 .. k |-> nextId + i - 1] /\ nextId' = nextId + k
    BY DEF Spawn
  <1>4. /\ active' \in Seq(Workers) /\ Len(active') = Len(active) + k
        /\ \A i \in 1 .. Len(active) : active'[i] = active[i]
        /\ \A w \in nextId .. nextId + k - 1 :
              \E i \in 1 .. Len(active') : active'[i] = w
    <2> DEFINE a == active
               n == nextId
               b == active'
               more == [i \in 1 .. k |-> n + i - 1]
    <2>1. /\ MaxWorkers \in Nat /\ a \in Seq(Workers) /\ n \in Nat \ {0} /\ n \in Nat
          /\ n + k <= MaxWorkers + 1 /\ b = a \o more
      BY <1>1, <1>2, <1>3
    <2> HIDE DEF a, n, b
    <2>2. more \in Seq(Workers) /\ Len(more) = k /\ \A i \in 1 .. k : more[i] = n + i - 1
      BY <2>1, NextIds
    <2> HIDE DEF more
    <2>3. /\ b \in Seq(Workers) /\ Len(b) = Len(a) + Len(more) /\ Len(a) \in Nat
          /\ \A i \in 1 .. Len(a) + Len(more) :
               b[i] = IF i <= Len(a) THEN a[i] ELSE more[i - Len(a)]
      <3> DEFINE c == a \o more
      <3>1. a \in Seq(Workers) /\ more \in Seq(Workers) /\ b = c
        BY <2>1, <2>2
      <3>2. /\ c \in Seq(Workers) /\ Len(c) = Len(a) + Len(more)
            /\ \A i \in 1 .. Len(a) + Len(more) :
                 c[i] = IF i <= Len(a) THEN a[i] ELSE more[i - Len(a)]
        <4>1. a \in Seq(Workers) /\ more \in Seq(Workers)
          BY <3>1
        <4> QED
          BY <4>1, ConcatProperties
      <3>3. Len(a) \in Nat
        BY <3>1
      <3> HIDE DEF c
      <3> QED
        BY <3>1, <3>2, <3>3
    <2>4. \A i \in 1 .. Len(a) : b[i] = a[i]
      BY <2>2, <2>3
    <2>5. ASSUME NEW w \in n .. n + k - 1 PROVE \E i \in 1 .. Len(b) : b[i] = w
      <3> DEFINE j == w - n + 1
                 l == Len(a) + j
      <3>1. /\ j \in 1 .. k /\ n + j - 1 = w /\ l \in 1 .. Len(a) + Len(more)
            /\ ~(l <= Len(a)) /\ l - Len(a) = j
        BY <2>1, <2>2, <2>3
      <3> HIDE DEF j, l
      <3>2. b[l] = more[l - Len(a)]
        BY <2>3, <3>1
      <3>3. b[l] = w
        BY <2>2, <3>1, <3>2
      <3> QED
        BY <2>3, <3>1, <3>3
    <2> QED
      BY <2>2, <2>3, <2>4, <2>5 DEF a, n, b
  <1>5. nextId .. nextId + k - 1 \subseteq Workers
    BY <1>1, <1>2 DEF Workers
  <1>6. nextId' \in 1 .. MaxWorkers + 1
    BY <1>1, <1>2, <1>3
  <1> QED
    BY <1>2, <1>3, <1>4, <1>5, <1>6

\* The k oldest workers stay.
LEMMA ShrinkPool ==
  ASSUME TypeOK, NEW k \in Nat, k < Len(active), Shrink(k)
  PROVE  /\ active' \in Seq(Workers) /\ Len(active') = k
         /\ \A i \in 1 .. k : active'[i] = active[i]
  BY DEF TypeOK, Shrink

\* The branches of Scale, each with what it needs of the types.
ScaleGrows == \E k \in Nat :
                /\ k <= MaxWorkers - nextId + 1
                /\ (k = Target - Len(active)
                      \/ (k = MaxWorkers - nextId + 1 /\ k < Target - Len(active)))
                /\ Spawn(k) /\ epc' = "report"
ScaleShrinks == dyn \in Nat /\ dyn < Len(active) /\ Shrink(dyn) /\ epc' = "report"
ScaleWaits == /\ epc' \in {"sleep", "report"}
              /\ UNCHANGED <<pipeVars, active, nextId, workerVars>>

LEMMA ScaleCases ==
  ASSUME TypeOK, Scale
  PROVE  /\ ScaleGrows \/ ScaleShrinks \/ ScaleWaits
         /\ epc = "scale" /\ UNCHANGED <<controlVars, dyn, waited>>
  <1>1. dyn # NoRamp => dyn \in Nat
    BY DEF TypeOK
  <1> QED
    BY <1>1 DEF Scale, ScaleGrows, ScaleShrinks, ScaleWaits

-----------------------------------------------------------------------------
(* The run as a user of the metric path.                                   *)

LEMMA WorkersProduce == Workers \subseteq Producers /\ Main \in Producers /\ Main \notin Workers
  BY LoadTestAssumption DEF LoadTestAssumption, Workers

\* What a worker does to the metric path.
LEMMA WorkerPipe ==
  ASSUME NEW w \in Workers, Worker(w)
  PROVE  UNCHANGED pipeVars \/ Send(w) \/ KeepTx(w) \/ DropTx(w)
  BY DEF Worker, WorkerInit, WorkerHead, WorkerGate, WorkerCall, SendIteration,
         SendIterationTotal, WorkerLimit, Leave

\* Every step of a run is one of the metric path, or does not touch it.
LEMMA PipelineStep ==
  ASSUME TypeOK, [Next]_vars
  PROVE  [PipeNext]_pipeVars
  <1>1. CASE UNCHANGED pipeVars
    BY <1>1
  <1>2. ASSUME NEW c \in Commands, Command(c) PROVE [PipeNext]_pipeVars
    BY <1>1, <1>2 DEF Command
  <1>3. CASE Scale
    <2>1. CASE ScaleGrows
      <3>1. PICK k \in Nat : k <= MaxWorkers - nextId + 1 /\ Spawn(k)
        BY <2>1 DEF ScaleGrows
      <3>2. nextId .. nextId + k - 1 \in SUBSET Producers
        BY <3>1, SpawnPool, WorkersProduce
      <3>3. CloneTx(nextId .. nextId + k - 1)
        BY <3>1 DEF Spawn
      <3> QED
        BY <3>2, <3>3 DEF PipeNext
    <2> QED
      BY <1>1, <1>3, <2>1, ScaleCases DEF ScaleShrinks, ScaleWaits, Shrink
  <1>4. CASE Return
    BY <1>4, WorkersProduce DEF Return, PipeNext
  <1>5. CASE PeriodicReport \/ FinalMerge \/ MergeStep
    BY <1>1, <1>5 DEF PeriodicReport, FinalMerge, MergeStep, PipeNext
  <1>6. CASE TopOfLoop \/ HandleCommand \/ NoMoreCommands \/ Sleep \/ Finish \/ GracefulStop
    BY <1>1, <1>6 DEF TopOfLoop, HandleCommand, NoMoreCommands, Sleep, Finish, GracefulStop
  <1>7. ASSUME NEW w \in Workers, Worker(w) PROVE [PipeNext]_pipeVars
    BY <1>1, <1>7, WorkerPipe, WorkersProduce DEF PipeNext
  <1>8. ASSUME NEW a \in Aggregators, AggregatorStep(a) PROVE [PipeNext]_pipeVars
    BY <1>8 DEF AggregatorStep, PipeNext
  <1>9. CASE MemoryStep \/ Ended \/ UNCHANGED vars
    BY <1>1, <1>9 DEF MemoryStep, Ended, vars
  <1> QED
    BY <1>2, <1>3, <1>4, <1>5, <1>6, <1>7, <1>8, <1>9 DEF Next, Engine

-----------------------------------------------------------------------------
(* Types.                                                                  *)

WorkerPlaces == {"unborn", "init", "head", "gate", "call", "iteration", "iteration_total",
                 "limit", "exited"}
EnginePlaces == {"top", "commands", "scale", "report", "merging", "sleep", "finish", "grace",
                 "merge", "final", "done", "returned"}

ControlTypes ==
  /\ cmds \in Seq(Commands) /\ issued \in 0 .. MaxCommands
  /\ paused \in BOOLEAN /\ stopped \in BOOLEAN
  /\ ran \in Int /\ pausing \in NoPause .. MaxPause
  /\ dyn \in Nat \cup {NoRamp}
  /\ PauseNoted

PoolTypes == active \in Seq(Workers) /\ nextId \in 1 .. MaxWorkers + 1

WorkerTypes ==
  /\ running \in [Workers -> BOOLEAN]
  /\ wpc \in [Workers -> WorkerPlaces]
  /\ iters \in [Workers -> 0 .. IterBound]
  /\ begun \in [Workers -> 0 .. 2]
  /\ IterationsLeft

EngineTypes == epc \in EnginePlaces /\ waited \in 0 .. GraceTicks

RunTypes == ControlTypes /\ PoolTypes /\ WorkerTypes /\ EngineTypes /\ MemoryTypeOK

\* TypeOK, cut into the parts that a step leaves alone or not.
LEMMA TypesTogether ==
  /\ (TypeOK /\ IterationsLeft /\ PauseNoted) <=> (PipeTypeOK /\ RunTypes)
  /\ (PipeTypeOK /\ RunTypes)' => (TypeOK /\ IterationsLeft /\ PauseNoted)'
  BY DEF TypeOK, RunTypes, ControlTypes, PoolTypes, WorkerTypes, EngineTypes, WorkerPlaces,
         EnginePlaces

LEMMA ControlKept == ControlTypes /\ UNCHANGED <<controlVars, dyn>> => ControlTypes'
  BY DEF ControlTypes, PauseNoted, controlVars

LEMMA PoolKept == PoolTypes /\ UNCHANGED <<active, nextId>> => PoolTypes'
  BY DEF PoolTypes

LEMMA WorkersKept == WorkerTypes /\ UNCHANGED workerVars => WorkerTypes'
  BY DEF WorkerTypes, IterationsLeft, workerVars

LEMMA MemoryKept == MemoryTypeOK /\ UNCHANGED memoryVars => MemoryTypeOK'
  BY DEF MemoryTypeOK, memoryVars

\* A worker's own step.
LEMMA WorkerTypesStep ==
  ASSUME RunTypes, NEW w \in Workers, Worker(w)
  PROVE  WorkerTypes' /\ UNCHANGED workerFrame
  <1> USE LoadTestAssumption DEF LoadTestAssumption, RunTypes, WorkerTypes, IterationsLeft,
          WorkerPlaces, Goto, Leave
  <1>1. running' = running /\ UNCHANGED workerFrame
    BY DEF Worker, WorkerInit, WorkerHead, WorkerGate, WorkerCall, SendIteration,
           SendIterationTotal, WorkerLimit, workerFrame
  <1>2. CASE WorkerInit(w)
    BY <1>1, <1>2 DEF WorkerInit
  <1>3. CASE WorkerHead(w)
    BY <1>1, <1>3 DEF WorkerHead
  <1>4. CASE WorkerGate(w)
    <2>1. begun' \in [Workers -> 0 .. 2] /\ iters' = iters
      BY <1>4 DEF WorkerGate
    <2>2. /\ wpc' \in [Workers -> WorkerPlaces]
          /\ IterationsLeft'
      BY <1>4, <2>1 DEF WorkerGate
    <2> QED
      BY <1>1, <2>1, <2>2
  <1>5. CASE WorkerCall(w)
    BY <1>1, <1>5 DEF WorkerCall
  <1>6. CASE SendIteration(w)
    BY <1>1, <1>6 DEF SendIteration
  <1>7. CASE SendIterationTotal(w)
    <2>1. iters[w] \in 0 .. IterBound /\ iters[w] < IterBound
      BY <1>7 DEF SendIterationTotal
    <2>2. iters' \in [Workers -> 0 .. IterBound] /\ wpc' \in [Workers -> WorkerPlaces]
      BY <1>7, <2>1 DEF SendIterationTotal
    <2>3. IterationsLeft'
      BY <1>7 DEF SendIterationTotal
    <2> QED
      BY <1>1, <1>7, <2>2, <2>3 DEF SendIterationTotal
  <1>8. CASE WorkerLimit(w)
    BY <1>1, <1>8 DEF WorkerLimit
  <1> QED
    BY <1>2, <1>3, <1>4, <1>5, <1>6, <1>7, <1>8 DEF Worker

\* The command at the head of the queue.
LEMMA CommandTypesStep ==
  ASSUME RunTypes, HandleCommand
  PROVE  RunTypes'
  <1>1. /\ cmds # <<>> /\ cmds' = Tail(cmds) /\ epc = "commands"
        /\ UNCHANGED <<memoryVars, issued, active, nextId, waited, running, wpc, iters>>
    BY DEF HandleCommand
  <1>2. Head(cmds) \in Commands /\ Tail(cmds) \in Seq(Commands)
    BY <1>1, HeadTailProperties DEF RunTypes, ControlTypes
  <1>3. \/ Head(cmds).op = "ramp" /\ Ramp(Head(cmds).n)
        \/ Pause \/ Resume \/ Stop
        \/ UNCHANGED <<epc, stopped, dyn, paused, pausing, ran, begun>>
    BY DEF HandleCommand
  <1>4. ControlTypes' /\ begun' \in [Workers -> 0 .. 2] /\ epc' \in {"commands", "finish"}
    <2> USE <1>1, <1>2, LoadTestAssumption
        DEF LoadTestAssumption, RunTypes, ControlTypes, WorkerTypes, PauseNoted, NoPause, NoRamp
    <2>1. CASE Head(cmds).op = "ramp" /\ Ramp(Head(cmds).n)
      <3>1. Head(cmds).n \in Nat
        BY <2>1
      <3> QED
        BY <2>1, <3>1 DEF Ramp
    <2>2. CASE Pause
      BY <2>2 DEF Pause
    <2>3. CASE Resume
      <3>1. /\ paused' = FALSE /\ pausing' = -1 /\ UNCHANGED <<epc, dyn, stopped, begun>>
            /\ ran' = ran \/ ran' = ran - pausing
        BY <2>3 DEF Resume
      <3>2. ran \in Int /\ pausing \in Int
        OBVIOUS
      <3>3. ran - pausing \in Int
        BY <3>2
      <3>4. ran' \in Int
        BY <3>1, <3>2, <3>3
      <3>5. pausing' \in -1 .. MaxPause
        BY <3>1
      <3> QED
        BY <3>1, <3>4, <3>5
    <2>4. CASE Stop
      BY <2>4 DEF Stop
    <2>5. CASE UNCHANGED <<epc, stopped, dyn, paused, pausing, ran, begun>>
      BY <2>5
    <2> QED
      BY <1>3, <2>1, <2>2, <2>3, <2>4, <2>5
  <1> QED
    BY <1>1, <1>4, MemoryKept, PoolKept
       DEF RunTypes, WorkerTypes, IterationsLeft, EngineTypes, EnginePlaces

\* Scaling: the pool, the flags and the places of the workers.
LEMMA ScaleTypesStep ==
  ASSUME TypeOK, RunTypes, Scale
  PROVE  RunTypes'
  <1>1. UNCHANGED <<controlVars, dyn, waited>> /\ epc' \in {"sleep", "report"}
    BY ScaleCases DEF ScaleGrows, ScaleShrinks, ScaleWaits
  <1>2. ControlTypes' /\ EngineTypes'
    BY <1>1, ControlKept DEF RunTypes, EngineTypes, EnginePlaces
  <1>3. MemoryTypeOK'
    BY MemoryKept DEF Scale, ClearThrottle, RunTypes, MemoryTypeOK, memoryVars
  <1>4. CASE ScaleGrows
    <2>1. PICK k \in Nat : k <= MaxWorkers - nextId + 1 /\ Spawn(k)
      BY <1>4 DEF ScaleGrows
    <2>2. PoolTypes'
      BY <2>1, SpawnPool DEF PoolTypes
    <2>3. /\ running' = [w \in Workers |-> w \in nextId .. nextId + k - 1 \/ running[w]]
          /\ wpc' = [w \in Workers |-> IF w \in nextId .. nextId + k - 1 THEN "init" ELSE wpc[w]]
          /\ UNCHANGED <<iters, begun>>
      BY <2>1 DEF Spawn
    <2>4. WorkerTypes'
      BY <2>3 DEF RunTypes, WorkerTypes, IterationsLeft, WorkerPlaces
    <2> QED
      BY <1>2, <1>3, <2>2, <2>4 DEF RunTypes
  <1>5. CASE ScaleShrinks
    <2>1. PoolTypes'
      BY <1>5, ShrinkPool DEF ScaleShrinks, Shrink, PoolTypes, RunTypes
    <2>2. WorkerTypes'
      BY <1>5 DEF ScaleShrinks, Shrink, RunTypes, WorkerTypes, IterationsLeft
    <2> QED
      BY <1>2, <1>3, <2>1, <2>2 DEF RunTypes
  <1>6. CASE ScaleWaits
    BY <1>2, <1>3, <1>6, PoolKept, WorkersKept DEF ScaleWaits, RunTypes
  <1> QED
    BY <1>4, <1>5, <1>6, ScaleCases

LEMMA EngineTypesStep ==
  ASSUME TypeOK, RunTypes, Engine
  PROVE  RunTypes'
  <1> USE LoadTestAssumption DEF LoadTestAssumption, EngineTypes, EnginePlaces
  <1>1. CASE TopOfLoop \/ NoMoreCommands \/ PeriodicReport \/ FinalMerge \/ MergeStep
    <2>1. /\ UNCHANGED <<memoryVars, controlVars, workerVars, dyn, active, nextId, waited>>
          /\ epc' \in EnginePlaces
      BY <1>1 DEF TopOfLoop, NoMoreCommands, PeriodicReport, FinalMerge, MergeStep, RunTypes
    <2> QED
      BY <2>1, ControlKept, PoolKept, WorkersKept, MemoryKept DEF RunTypes
  <1>2. CASE GracefulStop
    <2>1. /\ UNCHANGED <<memoryVars, controlVars, workerVars, dyn, active, nextId>>
          /\ epc' \in EnginePlaces /\ waited' \in 0 .. GraceTicks
      BY <1>2 DEF GracefulStop, RunTypes
    <2> QED
      BY <2>1, ControlKept, PoolKept, WorkersKept, MemoryKept DEF RunTypes
  <1>3. CASE Sleep
    <2>1. /\ UNCHANGED <<memoryVars, cmds, issued, paused, stopped, workerVars, dyn, active, nextId,
                         waited>>
          /\ epc' = "top"
      BY <1>3 DEF Sleep
    <2>2. ran' \in Int /\ pausing' \in NoPause .. MaxPause /\ (pausing' # NoPause => paused)
      <3>1. /\ ran \in Int /\ pausing \in NoPause .. MaxPause /\ MaxPause \in Nat
            /\ (pausing # NoPause => paused)
        BY DEF RunTypes, ControlTypes, PauseNoted
      <3> QED
        BY <1>3, <3>1 DEF Sleep, NoPause
    <2>3. ControlTypes'
      BY <2>1, <2>2 DEF RunTypes, ControlTypes, PauseNoted
    <2> QED
      BY <2>1, <2>3, PoolKept, WorkersKept, MemoryKept DEF RunTypes
  <1>4. CASE Finish
    <2>1. ControlTypes'
      BY <1>4 DEF Finish, RunTypes, ControlTypes, PauseNoted
    <2>2. WorkerTypes'
      BY <1>4 DEF Finish, RunTypes, WorkerTypes, IterationsLeft
    <2> QED
      BY <1>4, <2>1, <2>2, PoolKept, MemoryKept DEF Finish, RunTypes
  <1>5. CASE Return
    <2>1. MemoryTypeOK'
      BY <1>5 DEF Return, MonitorDrop, RunTypes, MemoryTypeOK
    <2> QED
      BY <1>5, <2>1, ControlKept, PoolKept, WorkersKept DEF Return, RunTypes
  <1> QED
    BY <1>1, <1>2, <1>3, <1>4, <1>5, CommandTypesStep, ScaleTypesStep DEF Engine

LEMMA RunTypesStep ==
  ASSUME TypeOK, RunTypes, [Next]_vars
  PROVE  RunTypes'
  <1>1. CASE UNCHANGED <<memoryVars, runVars>>
    BY <1>1, ControlKept, PoolKept, WorkersKept, MemoryKept
       DEF runVars, engineVars, RunTypes, EngineTypes
  <1>2. ASSUME NEW c \in Commands, Command(c) PROVE RunTypes'
    <2>1. /\ cmds' \in Seq(Commands) /\ issued' \in 0 .. MaxCommands
          /\ UNCHANGED <<memoryVars, engineVars, workerVars, paused, stopped, ran, pausing>>
      BY <1>2, LoadTestAssumption, AppendProperties
         DEF LoadTestAssumption, Command, RunTypes, ControlTypes
    <2>2. ControlTypes'
      BY <2>1 DEF RunTypes, ControlTypes, PauseNoted, engineVars
    <2> QED
      BY <2>1, <2>2, PoolKept, WorkersKept, MemoryKept DEF RunTypes, engineVars, EngineTypes
  <1>3. ASSUME NEW w \in Workers, Worker(w) PROVE RunTypes'
    BY <1>3, WorkerTypesStep, ControlKept, PoolKept, MemoryKept
       DEF RunTypes, workerFrame, engineVars, EngineTypes
  <1>4. ASSUME NEW a \in Aggregators, AggregatorStep(a) PROVE RunTypes'
    BY <1>1, <1>4 DEF AggregatorStep
  <1>5. CASE MemoryStep
    <2>1. MemoryTypeOK'
      BY <1>5 DEF MemoryStep, UsageChanges, MonitorCheck, RunTypes, MemoryTypeOK
    <2> QED
      BY <1>5, <2>1, ControlKept, PoolKept, WorkersKept
         DEF MemoryStep, runVars, engineVars, RunTypes, EngineTypes
  <1>6. CASE Ended \/ UNCHANGED vars
    BY <1>1, <1>6 DEF Ended, vars
  <1> QED
    BY <1>2, <1>3, <1>4, <1>5, <1>6, EngineTypesStep DEF Next

-----------------------------------------------------------------------------
(* Pausing.                                                                *)

LEMMA PauseStep ==
  ASSUME RunTypes, HeldByPause, OneIterationPerPause, [Next]_vars
  PROVE  HeldByPause' /\ OneIterationPerPause'
  <1> USE DEF HeldByPause, OneIterationPerPause
  <1>0. /\ wpc \in [Workers -> WorkerPlaces] /\ begun \in [Workers -> 0 .. 2]
        /\ paused \in BOOLEAN
    BY DEF RunTypes, WorkerTypes, ControlTypes
  <1>1. CASE UNCHANGED <<paused, begun, wpc>>
    BY <1>1
  <1>2. ASSUME NEW c \in Commands, Command(c) PROVE UNCHANGED <<paused, begun, wpc>>
    BY <1>2 DEF Command, workerVars
  <1>3. CASE TopOfLoop \/ NoMoreCommands \/ PeriodicReport \/ Sleep \/ Finish \/ GracefulStop
             \/ FinalMerge \/ MergeStep \/ Return
    BY <1>1, <1>3 DEF TopOfLoop, NoMoreCommands, PeriodicReport, Sleep, Finish, GracefulStop,
       FinalMerge, MergeStep, Return, controlVars, workerVars
  <1>4. CASE HandleCommand
    <2>1. CASE Pause
      <3>1. wpc' = wpc /\ (paused => begun' = begun)
            /\ (~paused => \A w \in Workers : begun'[w] = 0)
        BY <1>4, <2>1 DEF HandleCommand, Pause
      <3> QED
        BY <1>0, <2>1, <3>1 DEF Pause
    <2>2. CASE Resume
      BY <1>0, <1>4, <2>2 DEF HandleCommand, Resume
    <2>3. CASE Stop \/ Ramp(Head(cmds).n)
               \/ UNCHANGED <<epc, stopped, dyn, paused, pausing, ran, begun>>
      BY <1>1, <1>4, <2>3 DEF HandleCommand, Stop, Ramp
    <2> QED
      BY <1>4, <2>1, <2>2, <2>3 DEF HandleCommand
  <1>5. CASE Scale
    <2>1. begun' = begun /\ paused' = paused
          /\ \A w \in Workers : wpc'[w] = wpc[w] \/ wpc'[w] = "init"
      BY <1>0, <1>5 DEF Scale, Spawn, Shrink, controlVars, workerVars
    <2> QED
      BY <1>0, <2>1
  <1>6. ASSUME NEW w \in Workers, Worker(w) PROVE HeldByPause' /\ OneIterationPerPause'
    <2> USE <1>0 DEF Goto, Leave, WorkerPlaces
    <2>1. paused' = paused
      BY <1>6 DEF Worker, WorkerInit, WorkerHead, WorkerGate, WorkerCall, SendIteration,
             SendIterationTotal, WorkerLimit, workerFrame, controlVars
    <2>2. CASE WorkerHead(w)
      BY <2>1, <2>2 DEF WorkerHead
    <2>3. CASE WorkerGate(w)
      <3>1. wpc' \in [Workers -> WorkerPlaces] /\ wpc'[w] # "gate" /\ wpc[w] = "gate"
            /\ \A v \in Workers : v # w => wpc'[v] = wpc[v]
        BY <2>3 DEF WorkerGate
      <3>2. /\ \A v \in Workers : v # w => begun'[v] = begun[v]
            /\ begun'[w] = begun[w] \/ (paused /\ begun'[w] = begun[w] + 1)
        BY <2>3 DEF WorkerGate
      <3>3. paused => begun[w] = 0
        BY <3>1
      <3>4. \A v \in Workers : begun'[v] <= 1
        BY <3>2, <3>3
      <3> QED
        BY <2>1, <3>1, <3>2, <3>4
    <2>4. CASE WorkerInit(w) \/ WorkerCall(w) \/ SendIteration(w) \/ SendIterationTotal(w)
               \/ WorkerLimit(w)
      <3>1. begun' = begun /\ wpc'[w] # "gate" /\ \A v \in Workers : v # w => wpc'[v] = wpc[v]
        BY <2>4 DEF WorkerInit, WorkerCall, SendIteration, SendIterationTotal, WorkerLimit
      <3> QED
        BY <2>1, <3>1
    <2> QED
      BY <1>6, <2>2, <2>3, <2>4 DEF Worker
  <1>7. ASSUME NEW a \in Aggregators, AggregatorStep(a) PROVE UNCHANGED <<paused, begun, wpc>>
    BY <1>7 DEF AggregatorStep, runVars, controlVars, workerVars
  <1>8. CASE MemoryStep \/ Ended \/ UNCHANGED vars
    BY <1>1, <1>8 DEF MemoryStep, Ended, vars, runVars, controlVars, workerVars
  <1> QED
    BY <1>1, <1>2, <1>3, <1>4, <1>5, <1>6, <1>7, <1>8 DEF Next, Engine

-----------------------------------------------------------------------------
(* Who holds a flag, and who a tx.                                         *)

LEMMA OrphansStep ==
  ASSUME TypeOK, NoOrphans, [Next]_vars
  PROVE  NoOrphans'
  <1> USE DEF NoOrphans, InPool
  <1>0. running \in [Workers -> BOOLEAN] /\ active \in Seq(Workers)
        /\ DOMAIN active = 1 .. Len(active) /\ Len(active) \in Nat
    BY DEF TypeOK
  <1>1. CASE UNCHANGED <<running, active>>
    BY <1>1
  <1>2. ASSUME NEW c \in Commands, Command(c) PROVE UNCHANGED <<running, active>>
    BY <1>2 DEF Command, workerVars, engineVars
  <1>3. CASE TopOfLoop \/ HandleCommand \/ NoMoreCommands \/ PeriodicReport \/ Sleep
             \/ GracefulStop \/ FinalMerge \/ MergeStep \/ Return
    BY <1>1, <1>3 DEF TopOfLoop, HandleCommand, NoMoreCommands, PeriodicReport, Sleep,
       GracefulStop, FinalMerge, MergeStep, Return, workerVars
  <1>4. CASE Finish
    BY <1>0, <1>4 DEF Finish
  <1>5. CASE Scale
    <2>1. CASE ScaleGrows
      <3>1. PICK k \in Nat : k <= MaxWorkers - nextId + 1 /\ Spawn(k)
        BY <2>1 DEF ScaleGrows
      <3> DEFINE born == nextId .. nextId + k - 1
      <3>2. /\ active' \in Seq(Workers) /\ Len(active') = Len(active) + k
            /\ \A i \in 1 .. Len(active) : active'[i] = active[i]
            /\ \A w \in born : \E i \in 1 .. Len(active') : active'[i] = w
        BY <3>1, SpawnPool
      <3>3. running' = [w \in Workers |-> w \in born \/ running[w]]
        BY <3>1 DEF Spawn
      <3> HIDE DEF born
      <3>4. DOMAIN active' = 1 .. Len(active') /\ 1 .. Len(active) \subseteq 1 .. Len(active')
        BY <1>0, <3>2
      <3> QED
        BY <1>0, <3>2, <3>3, <3>4
    <2>2. CASE ScaleShrinks
      <3>1. /\ dyn \in Nat /\ dyn < Len(active) /\ active' \in Seq(Workers) /\ Len(active') = dyn
            /\ \A i \in 1 .. dyn : active'[i] = active[i]
        BY <2>2, ShrinkPool DEF ScaleShrinks
      <3>2. \A w \in Workers :
              running'[w] => running[w] /\ \A i \in dyn + 1 .. Len(active) : active[i] # w
        BY <2>2, <1>0 DEF ScaleShrinks, Shrink
      <3>3. ASSUME NEW w \in Workers, running'[w] PROVE \E i \in DOMAIN active' : active'[i] = w
        <4>1. PICK i \in 1 .. Len(active) : active[i] = w
          BY <1>0, <3>2, <3>3
        <4>2. i \in 1 .. dyn
          BY <1>0, <3>1, <3>2, <3>3, <4>1
        <4>3. DOMAIN active' = 1 .. dyn
          BY <3>1
        <4> QED
          BY <3>1, <4>1, <4>2, <4>3
      <3> QED
        BY <3>3
    <2>3. CASE ScaleWaits
      BY <1>1, <2>3 DEF ScaleWaits, workerVars
    <2> QED
      BY <1>5, <2>1, <2>2, <2>3, ScaleCases
  <1>6. ASSUME NEW w \in Workers, Worker(w) PROVE UNCHANGED <<running, active>>
    BY <1>6 DEF Worker, WorkerInit, WorkerHead, WorkerGate, WorkerCall, SendIteration,
           SendIterationTotal, WorkerLimit, workerFrame, engineVars
  <1>7. ASSUME NEW a \in Aggregators, AggregatorStep(a) PROVE UNCHANGED <<running, active>>
    BY <1>7 DEF AggregatorStep, runVars, engineVars, workerVars
  <1>8. CASE MemoryStep \/ Ended \/ UNCHANGED vars
    BY <1>1, <1>8 DEF MemoryStep, Ended, vars, runVars, engineVars, workerVars
  <1> QED
    BY <1>1, <1>2, <1>3, <1>4, <1>5, <1>6, <1>7, <1>8 DEF Next, Engine

\* The places of a worker with a runtime.
Registered == {"head", "gate", "call", "iteration", "iteration_total", "limit"}

\* What a worker's step does to its place and to tx.
LEMMA WorkerTx ==
  ASSUME TypeOK, NEW w \in Workers, Worker(w)
  PROVE  /\ \A v \in Workers : v # w => wpc'[v] = wpc[v]
         /\ \/ wpc[w] = "init" /\ wpc'[w] \in {"head", "exited"} /\ KeepTx(w)
            \/ wpc[w] = "init" /\ wpc'[w] = "exited" /\ DropTx(w)
            \/ /\ wpc[w] \in Registered /\ wpc'[w] \in Registered \cup {"exited"}
               /\ UNCHANGED txVars
         /\ UNCHANGED <<mpos, nextId, epc>>
  <1>0. wpc \in [Workers -> WorkerPlaces]
    BY DEF TypeOK, WorkerPlaces
  <1> USE <1>0 DEF Goto, Leave, WorkerPlaces, Registered, Send, txVars, mergeVars, pipeVars,
                   workerFrame, engineVars
  <1>1. CASE WorkerInit(w)
    <2>1. UNCHANGED <<mpos, nextId, epc>>
      BY <1>1 DEF WorkerInit, KeepTx, DropTx
    <2> QED
      BY <1>1, <2>1 DEF WorkerInit
  <1>2. CASE WorkerHead(w)
    BY <1>2 DEF WorkerHead
  <1>3. CASE WorkerGate(w)
    BY <1>3 DEF WorkerGate
  <1>4. CASE WorkerCall(w)
    BY <1>4 DEF WorkerCall
  <1>5. CASE SendIteration(w)
    BY <1>5 DEF SendIteration
  <1>6. CASE SendIterationTotal(w)
    BY <1>6 DEF SendIterationTotal
  <1>7. CASE WorkerLimit(w)
    BY <1>7 DEF WorkerLimit
  <1> QED
    BY <1>1, <1>2, <1>3, <1>4, <1>5, <1>6, <1>7 DEF Worker

\* While an aggregator thread is gone nobody gets a tx any more.
LEMMA ClosedStep ==
  ASSUME PipeTypeOK, ExitedMeansClosed, [PipeNext]_pipeVars
  PROVE  ExitedMeansClosed'
  <1> USE DEF ExitedMeansClosed, PipeTypeOK
  <1>1. CASE UNCHANGED <<open, apc>>
    BY <1>1
  <1>2. ASSUME NEW Q \in SUBSET Producers, CloneTx(Q) PROVE ExitedMeansClosed'
    BY <1>2 DEF CloneTx, consumerVars
  <1>3. ASSUME NEW p \in Producers, DropTx(p) PROVE ExitedMeansClosed'
    BY <1>3 DEF DropTx, consumerVars
  <1>4. ASSUME NEW a \in Aggregators, Aggregate(a) PROVE ExitedMeansClosed'
    BY <1>4 DEF Aggregate, Recv, Add, Post, AggExit, txVars
  <1> QED
    BY <1>1, <1>2, <1>3, <1>4 DEF PipeNext, Send, KeepTx, MergeStart, MergeShard, PipeEnded,
       txVars, consumerVars, pipeVars

LEMMA TxStep ==
  ASSUME TypeOK, TxHeld, [Next]_vars
  PROVE  TxHeld'
  <1> USE DEF TxHeld, txVars
  <1>0. /\ wpc \in [Workers -> WorkerPlaces] /\ nextId \in 1 .. MaxWorkers + 1
        /\ MaxWorkers \in Nat /\ Workers = 1 .. MaxWorkers /\ Main \notin Workers
        /\ mpos \in 0 .. NumShards /\ NumShards \in Nat \ {0}
    BY LoadTestAssumption, PipelineAssumption, WorkersProduce
       DEF LoadTestAssumption, PipelineAssumption, TypeOK, PipeTypeOK, WorkerPlaces, Workers
  <1>1. CASE /\ UNCHANGED <<txVars, wpc, nextId, mpos>>
             /\ epc \notin {"merging", "final", "returned"}
             /\ epc' \notin {"merging", "final", "returned"}
    BY <1>1
  <1>2. CASE UNCHANGED <<txVars, wpc, nextId, mpos, epc>>
    BY <1>2
  <1>3. ASSUME NEW c \in Commands, Command(c) PROVE UNCHANGED <<txVars, wpc, nextId, mpos, epc>>
    BY <1>3 DEF Command, pipeVars, workerVars, engineVars
  <1>4. CASE TopOfLoop \/ NoMoreCommands \/ Sleep \/ Finish \/ GracefulStop
    BY <1>1, <1>4 DEF TopOfLoop, NoMoreCommands, Sleep, Finish, GracefulStop, pipeVars, workerVars
  <1>5. CASE HandleCommand
    BY <1>1, <1>5 DEF HandleCommand, Pause, Resume, Ramp, Stop, pipeVars
  <1>6. CASE Scale
    <2>1. CASE ScaleGrows
      <3>1. PICK k \in Nat : k <= MaxWorkers - nextId + 1 /\ Spawn(k) /\ epc' = "report"
        BY <2>1 DEF ScaleGrows
      <3> DEFINE born == nextId .. nextId + k - 1
      <3>2. /\ wpc' = [w \in Workers |-> IF w \in born THEN "init" ELSE wpc[w]]
            /\ open' = open \cup born /\ kept' = kept
            /\ nextId' = nextId + k /\ mpos' = mpos
        BY <3>1 DEF Spawn, CloneTx, mergeVars
      <3>3. /\ born \subseteq Workers /\ nextId' \in 1 .. MaxWorkers + 1
            /\ \A w \in Workers : w >= nextId' => w >= nextId /\ w \notin born
            /\ \A w \in born : wpc[w] = "unborn"
        BY <1>0, <3>1, <3>2
      <3>4. epc = "scale" /\ epc' = "report"
        BY <1>6, <3>1 DEF Scale
      <3> HIDE DEF born
      <3>5. /\ \A w \in Workers : w \in open' <=> wpc'[w] = "init" \/ w \in kept'
            /\ \A w \in Workers : wpc'[w] \in {"unborn", "init"} => w \notin kept'
            /\ \A w \in Workers : wpc'[w] \notin {"unborn", "init", "exited"} => w \in kept'
        BY <1>0, <3>2, <3>3
      <3>6. \A w \in Workers : w >= nextId' => wpc'[w] = "unborn"
        BY <1>0, <3>2, <3>3
      <3>7. Main \in open' <=> Main \in open
        BY <1>0, <3>2, <3>3
      <3> QED
        BY <3>2, <3>4, <3>5, <3>6, <3>7
    <2> QED
      BY <1>1, <1>6, <2>1, ScaleCases DEF ScaleShrinks, ScaleWaits, Shrink, pipeVars, workerVars
  <1>7. CASE PeriodicReport \/ FinalMerge
    <2>1. CASE MergeStart /\ epc' \in {"merging", "final"}
      <3>1. UNCHANGED <<txVars, wpc, nextId>> /\ mpos' = 0 /\ Main \in open
        BY <1>7, <2>1 DEF PeriodicReport, FinalMerge, MergeStart, workerVars
      <3>2. epc \notin {"merging", "final", "returned"}
        BY <1>7 DEF PeriodicReport, FinalMerge
      <3> QED
        BY <1>0, <2>1, <3>1, <3>2
    <2> QED
      BY <1>1, <1>7, <2>1 DEF PeriodicReport, FinalMerge, pipeVars, workerVars
  <1>8. CASE MergeStep
    <2>1. /\ UNCHANGED <<txVars, wpc, nextId>> /\ mpos' = mpos + 1 /\ mpos < NumShards
          /\ epc \in {"merging", "final"}
      BY <1>8 DEF MergeStep, MergeShard, workerVars
    <2>2. mpos' = NumShards <=> epc' \notin {"merging", "final"}
      BY <1>0, <1>8, <2>1 DEF MergeStep
    <2>3. epc' # "returned"
      BY <1>8 DEF MergeStep
    <2> QED
      BY <2>1, <2>2, <2>3
  <1>9. CASE Return
    BY <1>0, <1>9 DEF Return, DropTx, mergeVars, workerVars
  <1>10. ASSUME NEW w \in Workers, Worker(w) PROVE TxHeld'
    <2>1. /\ \A v \in Workers : v # w => wpc'[v] = wpc[v]
          /\ UNCHANGED <<mpos, nextId, epc>>
      BY <1>10, WorkerTx
    <2>2. w \in Workers /\ w # Main
      BY <1>0
    <2>3. CASE wpc[w] = "init" /\ wpc'[w] \in {"head", "exited"} /\ KeepTx(w)
      BY <2>1, <2>2, <2>3 DEF KeepTx
    <2>4. CASE wpc[w] = "init" /\ wpc'[w] = "exited" /\ DropTx(w)
      BY <2>1, <2>2, <2>4 DEF DropTx
    <2>5. CASE /\ wpc[w] \in Registered /\ wpc'[w] \in Registered \cup {"exited"}
               /\ UNCHANGED txVars
      BY <2>1, <2>5 DEF Registered
    <2> QED
      BY <1>10, <2>3, <2>4, <2>5, WorkerTx
  <1>11. ASSUME NEW a \in Aggregators, AggregatorStep(a)
         PROVE  UNCHANGED <<txVars, wpc, nextId, mpos, epc>>
    BY <1>11 DEF AggregatorStep, Aggregate, Recv, Add, Post, AggExit, mergeVars, runVars, engineVars,
                workerVars
  <1>12. CASE MemoryStep \/ Ended \/ UNCHANGED vars
    BY <1>2, <1>12 DEF MemoryStep, Ended, vars, runVars, engineVars, workerVars, pipeVars
  <1> QED
    BY <1>2, <1>3, <1>4, <1>5, <1>6, <1>7, <1>8, <1>9, <1>10, <1>11, <1>12 DEF Next, Engine

-----------------------------------------------------------------------------
(* The invariant and what follows from it.                                 *)

LEMMA RunInit == Init => RunInv
  <1> SUFFICES ASSUME Init PROVE RunInv
    OBVIOUS
  <1> USE LoadTestAssumption, PipelineAssumption DEF LoadTestAssumption, PipelineAssumption, Init
  <1>1. PipeTypeOK
    BY TypeInit
  <1>2. RunTypes
    <2>1. MemoryTypeOK
      BY MemoryAssumption DEF MemoryAssumption, MemoryInit, MemoryTypeOK, Usage
    <2>2. ControlTypes
      <3>1. cmds \in Seq(Commands) /\ issued \in 0 .. MaxCommands
        OBVIOUS
      <3>2. paused \in BOOLEAN /\ stopped \in BOOLEAN
        OBVIOUS
      <3>3. ran \in Int /\ pausing \in NoPause .. MaxPause
        BY DEF NoPause
      <3> QED
        BY <3>1, <3>2, <3>3 DEF ControlTypes, PauseNoted
    <2>3. PoolTypes /\ EngineTypes
      BY DEF PoolTypes, EngineTypes, EnginePlaces
    <2>4. WorkerTypes
      BY DEF WorkerTypes, IterationsLeft, WorkerPlaces
    <2> QED
      BY <2>1, <2>2, <2>3, <2>4 DEF RunTypes
  <1>3. TypeOK /\ IterationsLeft /\ PauseNoted
    BY <1>1, <1>2, TypesTogether
  <1>4. HeldByPause /\ OneIterationPerPause /\ NoOrphans
    BY DEF HeldByPause, OneIterationPerPause, NoOrphans
  <1>5. TxHeld /\ ExitedMeansClosed
    BY WorkersProduce DEF TxHeld, ExitedMeansClosed, PipeInit
  <1> QED
    BY <1>3, <1>4, <1>5 DEF RunInv

LEMMA RunStep ==
  ASSUME RunInv, [Next]_vars
  PROVE  RunInv' /\ [PipeNext]_pipeVars
  <1>1. TypeOK /\ PipeTypeOK /\ RunTypes
    BY TypesTogether DEF RunInv
  <1>2. [PipeNext]_pipeVars
    BY <1>1, PipelineStep
  <1>3. PipeTypeOK'
    BY <1>1, <1>2, TypeStep
  <1>4. RunTypes'
    BY <1>1, RunTypesStep
  <1>5. (TypeOK /\ IterationsLeft /\ PauseNoted)'
    BY <1>3, <1>4, TypesTogether
  <1>6. HeldByPause' /\ OneIterationPerPause'
    BY <1>1, PauseStep DEF RunInv
  <1>7. NoOrphans' /\ TxHeld' /\ ExitedMeansClosed'
    BY <1>1, <1>2, OrphansStep, TxStep, ClosedStep DEF RunInv
  <1> QED
    BY <1>2, <1>5, <1>6, <1>7 DEF RunInv

\* The types of a run, and its invariant.
THEOREM RunInvariant == Spec => []RunInv
  BY RunInit, RunStep, PTL DEF Spec

\* A worker with its flag up is one the test thread can signal, however often
\* the pool grew and shrank (active_legacy_workers).
THEOREM EveryWorkerReachable == Spec => []NoOrphans
  <1>1. RunInv => NoOrphans
    BY DEF RunInv
  <1> QED
    BY <1>1, RunInvariant, PTL

\* A pause costs each worker at most one more iteration, whatever commands
\* come while it lasts (the pause loop of the workers).
THEOREM PauseHolds == Spec => []OneIterationPerPause
  <1>1. RunInv => OneIterationPerPause
    BY DEF RunInv
  <1> QED
    BY <1>1, RunInvariant, PTL

\* Once a worker has registered its globals no aggregator thread ends.
AggregatorsHeld == kept # {} => \A a \in Aggregators : apc[a] # "exited"

\* A worker that came as far as its JS globals holds tx from then on: it forgets
\* its runtime when it returns, and the clones in the globals with it.  So after
\* such a run the channel never closes, and its aggregator threads, which end
\* when it does, wait for ever.
THEOREM TxOutlivesWorkers == Spec => [](TxHeld /\ AggregatorsHeld)
  <1>1. RunInv => TxHeld
    BY DEF RunInv
  <1>2. RunInv => AggregatorsHeld
    BY DEF RunInv, TypeOK, PipeTypeOK, ExitedMeansClosed, AggregatorsHeld
  <1> QED
    BY <1>1, <1>2, RunInvariant, PTL

\* Every run is a behaviour of the metric path (its safety part), so what is
\* proved of MetricPipeline holds of the engine that uses it.
THEOREM RunsUseThePipeline == Spec => PipeInit /\ [][PipeNext]_pipeVars
  <1>1. Init => PipeInit
    BY DEF Init
  <1> QED
    BY <1>1, RunInit, RunStep, PTL DEF Spec

\* In a run of the engine too, no metric is lost or counted twice, and what a
\* merge reports was stored.
THEOREM RunCountsEveryMetric == Spec => [](Conservation /\ CountedOnce /\ ReportSound)
  <1>1. RInv /\ [PipeNext]_pipeVars => RInv'
    BY ReportStep
  <1>2. RInv => Conservation /\ CountedOnce /\ ReportSound
    BY DEF RInv, IInv
  <1> QED
    BY <1>1, <1>2, ReportInit, RunsUseThePipeline, PTL

\* A pass of the main loop brings the pool to a ramp's target.
LEMMA RampStep ==
  ASSUME TypeOK, Scale, dyn # NoRamp, dyn < Len(active) \/ usage = "low" \/ ~memory_throttle
  PROVE  Len(active') = dyn \/ (Len(active') < dyn /\ nextId' > MaxWorkers)
  <1>0. /\ dyn \in Nat /\ Len(active) \in Nat /\ nextId \in 1 .. MaxWorkers + 1
        /\ MaxWorkers \in Nat /\ Target = dyn
    BY LoadTestAssumption DEF LoadTestAssumption, TypeOK, Target
  <1>1. CASE ScaleGrows
    <2>1. PICK k \in Nat : /\ k <= MaxWorkers - nextId + 1 /\ Spawn(k)
                           /\ k = dyn - Len(active)
                               \/ (k = MaxWorkers - nextId + 1 /\ k < dyn - Len(active))
      BY <1>0, <1>1 DEF ScaleGrows
    <2>2. Len(active') = Len(active) + k /\ nextId' = nextId + k
      BY <2>1, SpawnPool
    <2> QED
      BY <1>0, <2>1, <2>2
  <1>2. CASE ScaleShrinks
    BY <1>2, ShrinkPool DEF ScaleShrinks
  <1>3. CASE ~ScaleGrows /\ ~ScaleShrinks
    <2>1. UNCHANGED active /\ Len(active) = dyn
      BY <1>0, <1>3 DEF Scale, ScaleGrows, ScaleShrinks, SpawnBlocked
    <2> QED
      BY <1>0, <2>1
  <1> QED
    BY <1>1, <1>2, <1>3

\* A ramp command's target is reached in the pass that follows it, up or down,
\* unless memory holds the growth up (the legacy scaling block).
THEOREM RampIsReached == Spec => RampReached
  <1>1. RunInv /\ [Next]_vars =>
          [(Scale /\ dyn # NoRamp /\ (dyn < Len(active) \/ usage = "low" \/ ~memory_throttle)) =>
             (Len(active') = dyn \/ (Len(active') < dyn /\ nextId' > MaxWorkers))]_vars
    BY RampStep DEF RunInv
  <1> QED
    BY <1>1, RunInvariant, PTL DEF Spec, RampReached

=============================================================================
