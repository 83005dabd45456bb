----------------------------- MODULE Statistics -----------------------------
(***************************************************************************)
(* Statistics (stats/mod.rs): the sharded StatsAggregator, its merge, the  *)
(* report, the thresholds and what the exporters say of a report.          *)
(*                                                                         *)
(* Durations are microseconds, values compared by a threshold fractions    *)
(* <<numerator, denominator>>.  The name of a request, `a::b::get', is its  *)
(* parts before the last `::' (the segments it was made in) and the last   *)
(* one.  Bytes, timings and pool counters are sums like `sum', left out.    *)
(***************************************************************************)
EXTENDS Integers, Sequences, FiniteSets, FiniteSetsExt, SequencesExt

CONSTANTS
  Metrics,      \* the metrics workers may send
  Criteria,     \* thresholds [metric, check, op, value, words]
  MaxMetrics,   \* bound: metrics of one run
  Shards,       \* shards of the aggregator
  HistMax,      \* largest duration a histogram takes
  MaxLogs,      \* log lines kept (100 in the code)
  MaxPacket,    \* size of a StatsD packet (1400 in the code)
  None

VARIABLES
  shard,        \* the aggregator of each shard
  log           \* history: the metrics in the order they were added

statVars == <<shard, log>>

-----------------------------------------------------------------------------
(* Maps from names to numbers, hdrhistogram and fractions.                 *)

At(f, k) == IF k \in DOMAIN f THEN f[k] ELSE 0
Plus(f, g) == [k \in DOMAIN f \cup DOMAIN g |-> At(f, k) + At(g, k)]
One(k, n) == [x \in {k} |-> n]
Empty == [x \in {} |-> 0]
Total(f) == MapThenSumSet(LAMBDA k : f[k], DOMAIN f)

\* A histogram of two significant digits keeps 256 buckets per power of two
\* and gives back the largest value of a bucket.
UnitSizes ==
  {1, 2, 4, 8, 16, 32, 64, 128, 256, 512, 1024, 2048, 4096, 8192, 16384, 32768, 65536, 131072,
   262144, 524288, 1048576, 2097152, 4194304, 8388608, 16777216}
Unit(v) == CHOOSE u \in UnitSizes : v \div u < 256 /\ (u = 1 \/ v \div u >= 128)
LowestEquivalent(v) == (v \div Unit(v)) * Unit(v)
HighestEquivalent(v) == LowestEquivalent(v) + Unit(v) - 1

\* record(v) is an error, and ignored, beyond the bounds of the histogram.
Recorded(h, v) == IF v > HistMax THEN h ELSE Plus(h, One(HighestEquivalent(v), 1))

ValueAtQuantile(h, percent) ==
  LET needed == Max({1, (percent * Total(h) + 99) \div 100})
      reach == {v \in DOMAIN h : Total([w \in {x \in DOMAIN h : x <= v} |-> h[w]]) >= needed}
  IN  IF reach = {} THEN 0 ELSE Min(reach)

Zero == <<0, 1>>
Less(a, b) == a[1] * b[2] < b[1] * a[2]

-----------------------------------------------------------------------------
(* StatsAggregator.                                                        *)

NoLatency == [total |-> 0, sum |-> 0, min |-> None, max |-> 0, hist |-> Empty, errors |-> 0]

NewAggregator ==
  [all |-> NoLatency, codes |-> Empty, errors |-> Empty, failed |-> 0, groups |-> Empty,
   checks |-> Empty, hists |-> Empty, sums |-> Empty, rates |-> Empty,
   counters |-> Empty, gauges |-> Empty, logs |-> <<>>]

Smaller(a, b) == IF a = None THEN b ELSE IF b = None THEN a ELSE Min({a, b})

\* What a histogram is given: it takes no 0.
Micros(m) == Max({m.dur, 1})

Measured(l, m) ==
  [total |-> l.total + 1, sum |-> l.sum + m.dur, min |-> Smaller(l.min, m.dur),
   max |-> Max({l.max, m.dur}), hist |-> Recorded(l.hist, Micros(m)),
   errors |-> l.errors + IF m.error = None THEN 0 ELSE 1]

\* Iterations are bookkeeping: they count in their group only.
CountsIterations(m) == FALSE
IsIteration(m) == m.name.what \in {"iteration", "iteration_total"}

\* The errors map holds the failed requests and, once per iteration, what the
\* script threw.
AddsError(m) == m.error # None /\ m.name.what # "iteration_total"

Group(a, n) == IF n \in DOMAIN a.groups THEN a.groups[n] ELSE NoLatency

AddRequest(a, m) ==
  [a EXCEPT
     !.all = IF IsIteration(m) THEN @ ELSE Measured(@, m),
     !.codes = IF IsIteration(m) THEN @ ELSE Plus(@, One(m.status, 1)),
     !.errors = IF AddsError(m) THEN Plus(@, One(m.error, 1)) ELSE @,
     !.failed = IF AddsError(m) /\ IsIteration(m) THEN @ + 1 ELSE @,
     !.groups = [n \in DOMAIN @ \cup {m.name} |->
                   IF n = m.name THEN Measured(Group(a, n), m) ELSE @[n]]]

TrimLogs(s) == SubSeq(s, Max({1, Len(s) - MaxLogs + 1}), Len(s))

\* (total, successes) of a check or rate.
Tally(f, m) ==
  Plus(f, [k \in {<<m.name, "total">>, <<m.name, "passes">>} |->
             IF k[2] = "total" \/ m.success THEN 1 ELSE 0])

Add(a, m) ==
  CASE m.kind = "request"   -> AddRequest(a, m)
    [] m.kind = "check"     -> [a EXCEPT !.checks = Tally(@, m)]
    [] m.kind = "log"       -> [a EXCEPT !.logs = TrimLogs(Append(@, m.name))]
    [] m.kind = "histogram" ->
         [a EXCEPT !.hists = [n \in DOMAIN @ \cup {m.name} |->
                                IF n = m.name
                                THEN Recorded(IF n \in DOMAIN @ THEN @[n] ELSE Empty, m.value * 1000)
                                ELSE @[n]],
                   !.sums = Plus(@, One(m.name, m.value))]
    [] m.kind = "counter"   -> [a EXCEPT !.counters = Plus(@, One(m.name, m.value))]
    [] m.kind = "gauge"     -> [a EXCEPT !.gauges =
                                  [n \in DOMAIN @ \cup {m.name} |-> IF n = m.name THEN m.value ELSE @[n]]]
    [] m.kind = "rate"      -> [a EXCEPT !.rates = Tally(@, m)]

-----------------------------------------------------------------------------
(* ShardedAggregator::merge.                                               *)

NoFirstMin(a, b) == IF a = None \/ b = None THEN a ELSE Min({a, b})
JoinMin(a, b) == Smaller(a, b)

Join(l, k) ==
  [total |-> l.total + k.total, sum |-> l.sum + k.sum, min |-> JoinMin(l.min, k.min),
   max |-> Max({l.max, k.max}), hist |-> Plus(l.hist, k.hist), errors |-> l.errors + k.errors]

MergeInto(a, s) ==
  [all |-> Join(a.all, s.all), codes |-> Plus(a.codes, s.codes),
   errors |-> Plus(a.errors, s.errors), failed |-> a.failed + s.failed,
   groups |-> [n \in DOMAIN a.groups \cup DOMAIN s.groups |-> Join(Group(a, n), Group(s, n))],
   checks |-> Plus(a.checks, s.checks),
   hists |-> [n \in DOMAIN a.hists \cup DOMAIN s.hists |->
                Plus(IF n \in DOMAIN a.hists THEN a.hists[n] ELSE Empty,
                     IF n \in DOMAIN s.hists THEN s.hists[n] ELSE Empty)],
   sums |-> Plus(a.sums, s.sums), rates |-> Plus(a.rates, s.rates),
   counters |-> Plus(a.counters, s.counters),
   gauges |-> [n \in DOMAIN a.gauges \cup DOMAIN s.gauges |->
                 IF n \in DOMAIN s.gauges THEN s.gauges[n] ELSE a.gauges[n]],
   logs |-> a.logs \o s.logs]

Merge(aggs) ==
  LET all == FoldLeft(MergeInto, NewAggregator, aggs)
  IN  [all EXCEPT !.logs = TrimLogs(@)]

-----------------------------------------------------------------------------
(* to_report and the thresholds.  A metric is a map from check types to    *)
(* values; an unknown metric or check type counts as 0.                    *)

Millis(d) == IF d = None THEN 0 ELSE d \div 1000
Ratio(n, d) == IF d > 0 THEN <<n, d>> ELSE Zero

Durations(l) ==
  [p95 |-> <<ValueAtQuantile(l.hist, 95), 1000>>, p99 |-> <<ValueAtQuantile(l.hist, 99), 1000>>,
   avg |-> Ratio(Millis(l.sum), l.total), max |-> <<Millis(l.max), 1>>, min |-> <<Millis(l.min), 1>>]

HistogramReport(h, sum) ==
  [p90 |-> <<ValueAtQuantile(h, 90), 1000>>, p95 |-> <<ValueAtQuantile(h, 95), 1000>>,
   p99 |-> <<ValueAtQuantile(h, 99), 1000>>, avg |-> Ratio(sum, Total(h)),
   min |-> <<IF h = Empty THEN 0 ELSE LowestEquivalent(Min(DOMAIN h)), 1000>>,
   max |-> <<Max(DOMAIN h \cup {0}), 1000>>, count |-> <<Total(h), 1>>]

FailedRate(a) == Ratio(Total(a.errors), a.all.total)

\* The first that knows the name answers.
Values(a, metric) ==
  IF metric = "http_req_duration" THEN Durations(a.all)
  ELSE IF metric = "http_req_failed" THEN [rate |-> FailedRate(a)]
  ELSE IF metric \in DOMAIN a.hists THEN HistogramReport(a.hists[metric], a.sums[metric])
  ELSE IF <<metric, "total">> \in DOMAIN a.rates
    THEN [rate |-> Ratio(a.rates[<<metric, "passes">>], a.rates[<<metric, "total">>])]
  ELSE IF metric \in DOMAIN a.counters
    THEN [count |-> <<a.counters[metric], 1>>, value |-> <<a.counters[metric], 1>>]
  ELSE IF metric \in DOMAIN a.gauges THEN [value |-> <<a.gauges[metric], 1>>]
  ELSE Empty

Actual(a, c) ==
  LET v == Values(a, c.metric) IN IF c.check \in DOMAIN v THEN v[c.check] ELSE Zero

Passes(op, a, v) ==
  CASE op = "<" -> Less(a, v)   [] op = "<=" -> ~Less(v, a)
    [] op = ">" -> Less(v, a)   [] op = ">=" -> ~Less(a, v)
    [] op = "==" -> ~Less(a, v) /\ ~Less(v, a)
    [] OTHER -> FALSE

\* validate_thresholds: a condition that is not three words is skipped with a
\* warning, a value that is no number is 0.
ValidateThresholds(a, criteria) ==
  {c \in criteria : c.words >= 3 /\ ~Passes(c.op, Actual(a, c), IF c.value = None THEN Zero ELSE c.value)}

\* validate_scenario_thresholds: the groups whose name starts with `scenario::'
\* make the aggregator; custom metrics are those of the run.
InScenarioItself(n, s) == n.group = <<s>>
InScenario(n, s) == IsPrefix(<<s>>, n.group)

ScenarioPart(a, s) ==
  LET names == {n \in DOMAIN a.groups : InScenario(n, s)}
      part == FoldSet(LAMBDA n, l : Join(l, a.groups[n]), NoLatency, names)
  IN  [a EXCEPT !.all = part, !.codes = Empty, !.failed = 0, !.groups = Empty, !.logs = <<>>,
                !.errors = IF part.errors > 0 THEN One("error", part.errors) ELSE Empty]

ValidateScenarioThresholds(a, s, criteria) == ValidateThresholds(ScenarioPart(a, s), criteria)

-----------------------------------------------------------------------------
(* Exporters: the measures of a report as sets of <<name, key, value>>.    *)

ChecksPassed(a) == MapThenSumSet(LAMBDA k : a.checks[k], {k \in DOMAIN a.checks : k[2] = "passes"})
ChecksFailed(a) ==
  MapThenSumSet(LAMBDA k : a.checks[k] - a.checks[<<k[1], "passes">>],
                {k \in DOMAIN a.checks : k[2] = "total"})
ChecksTotal(a) == ChecksPassed(a) + ChecksFailed(a)

StatsdMetrics(a) ==
  {<<"requests", None, a.all.total>>, <<"errors", None, Total(a.errors)>>}
    \cup {<<"latency", c, Durations(a.all)[c]>> : c \in {"avg", "min", "max", "p95", "p99"}}
    \cup {<<"error", e, a.errors[e]>> : e \in DOMAIN a.errors}
    \cup {<<"status", s, a.codes[s]>> : s \in DOMAIN a.codes}
    \cup {<<"endpoint", n, a.groups[n].total>> : n \in DOMAIN a.groups}
    \cup {<<"histogram", n, Total(a.hists[n])>> : n \in DOMAIN a.hists}
    \cup {<<"counter", n, a.counters[n]>> : n \in DOMAIN a.counters}
    \cup {<<"gauge", n, a.gauges[n]>> : n \in DOMAIN a.gauges}
    \cup IF ChecksTotal(a) > 0
         THEN {<<"checks", "passed", ChecksPassed(a)>>, <<"checks", "failed", ChecksFailed(a)>>}
         ELSE {}

OtlpMetrics(a) ==
  {<<"requests", None, a.all.total>>, <<"errors", None, Total(a.errors)>>}
    \cup {<<"latency", c, Durations(a.all)[c]>> : c \in {"avg", "p95", "p99"}}
    \cup {<<"endpoint", n, a.groups[n].total>> : n \in DOMAIN a.groups}
    \cup {<<"histogram", n, Total(a.hists[n])>> : n \in DOMAIN a.hists}
    \cup {<<"counter", n, a.counters[n]>> : n \in DOMAIN a.counters}
    \cup {<<"gauge", n, a.gauges[n]>> : n \in DOMAIN a.gauges}

CsvLines(a) ==
  {<<"requests", None, a.all.total>>}
    \cup {<<"latency", c, Durations(a.all)[c]>> : c \in {"avg", "min", "max", "p95", "p99"}}
    \cup {<<"status", s, a.codes[s]>> : s \in DOMAIN a.codes}
    \cup {<<"check", k, a.checks[k]>> : k \in DOMAIN a.checks}
    \cup {<<"histogram", n, Total(a.hists[n])>> : n \in DOMAIN a.hists}
    \cup {<<"counter", n, a.counters[n]>> : n \in DOMAIN a.counters}

\* export: metrics share a packet, one byte between them, while they fit.
Length(packet) == Total(packet) + Len(packet) - 1
FitsWithoutNewline(packet, size) == Length(packet) + size <= MaxPacket
Fits(packet, size) == Length(packet) + size + 1 <= MaxPacket

Packets(sizes) ==
  FoldLeft(LAMBDA ps, size :
             IF ps # <<>> /\ Fits(Last(ps), size)
             THEN [ps EXCEPT ![Len(ps)] = Append(@, size)]
             ELSE Append(ps, <<size>>),
           <<>>, sizes)

-----------------------------------------------------------------------------
StatInit == shard = [i \in 1 .. Shards |-> NewAggregator] /\ log = <<>>

\* An aggregator thread adds a metric to the shard of its worker.
AddMetric(m, i) ==
  /\ Len(log) < MaxMetrics
  /\ shard' = [shard EXCEPT ![i] = Add(@, m)]
  /\ log' = Append(log, m)

StatNext == \E m \in Metrics, i \in 1 .. Shards : AddMetric(m, i)

-----------------------------------------------------------------------------
Counted(a) == [a EXCEPT !.gauges = Empty, !.logs = <<>>]

\* However the metrics are spread over the shards, the merge counts what one
\* aggregator that saw all of them would count; gauges and log lines, which
\* depend on the order, keep a value that was sent.
MergeIsWhole ==
  LET merged == Merge(shard) whole == FoldLeft(Add, NewAggregator, log)
  IN  /\ Counted(merged) = Counted(whole)
      /\ \A n \in DOMAIN merged.gauges :
           \E i \in DOMAIN log : log[i].kind = "gauge" /\ log[i].name = n
                                  /\ log[i].value = merged.gauges[n]

\* Gauges: "take the last value from any shard".
GaugeIsLast ==
  \A n \in DOMAIN Merge(shard).gauges :
    Merge(shard).gauges[n] = FoldLeft(Add, NewAggregator, log).gauges[n]

IsRequest(m) == m.kind = "request" /\ m.name.what \notin {"iteration", "iteration_total"}
Requests == {i \in DOMAIN log : IsRequest(log[i])}

\* The report is about the requests that were made: their number, the fastest
\* and the slowest, and, unless one was too slow for the histogram, a percentile
\* no more than one bucket above the request of that rank; a request of less than
\* a microsecond counts there as one of a microsecond.
ReportIsOfRequests ==
  LET all == Merge(shard).all
      p95 == ValueAtQuantile(all.hist, 95)
      d(i) == Micros(log[i])
  IN  /\ all.total = Cardinality(Requests)
      /\ Requests # {} => /\ all.min = Min({log[i].dur : i \in Requests})
                          /\ all.max = Max({log[i].dur : i \in Requests})
      /\ Requests # {} /\ all.max <= HistMax =>
           \E i \in Requests :
             /\ d(i) <= p95 /\ 128 * (p95 - d(i)) <= d(i)
             /\ 100 * Cardinality({j \in Requests : d(j) <= p95}) >= 95 * Cardinality(Requests)
             /\ 100 * Cardinality({j \in Requests : d(j) < d(i)}) < 95 * Cardinality(Requests)

RequestNames == {m.name : m \in {k \in Metrics : k.kind = "request"}}
Scenarios == {m.by : m \in {k \in Metrics : k.kind = "request"}}
NamesUnder(s) == {n \in RequestNames : IsPrefix(<<s>>, n.group)}
RecordedUnder(s) ==
  FoldLeft(LAMBDA l, m : IF m.kind = "request" /\ m.name \in NamesUnder(s) THEN Measured(l, m) ELSE l,
           NoLatency, log)
Alone(l) == [NewAggregator EXCEPT !.all = l, !.errors = One("error", l.errors)]

\* A scenario is judged by what was recorded under its name: its iterations and
\* the requests of every segment that carries the name and of those within, no
\* matter whose worker made them.  However these were spread over shards and
\* groups, the latencies and the verdict on the built-in metrics are those of one
\* count of them; whatever else the run sent changes neither.
JudgedBySegments ==
  \A s \in Scenarios :
    LET part == ScenarioPart(Merge(shard), s)
        own == RecordedUnder(s)
        builtin == {c \in Criteria : c.metric \in {"http_req_duration", "http_req_failed"}}
    IN  /\ part.all = own /\ Total(part.errors) = own.errors
        /\ ValidateScenarioThresholds(Merge(shard), s, builtin) = ValidateThresholds(Alone(own), builtin)

\* The verdict is about the requests: a limit on the slowest or the fastest is
\* breached exactly when a request breaks it, truncated to milliseconds, or when
\* there is no request and 0 breaks it; a condition that is not three words is
\* never breached.
VerdictIsOfRequests ==
  LET breached == ValidateThresholds(Merge(shard), Criteria)
      All(P(_)) == \A i \in Requests : P(log[i].dur \div 1000)
      Kept(c) == LET v == c.value[1] IN
        CASE c.op = "<" -> All(LAMBDA d : d < v) /\ (Requests = {} => 0 < v)
          [] c.op = ">" -> All(LAMBDA d : d > v) /\ (Requests = {} => 0 > v)
  IN  \A c \in Criteria :
        /\ c.words < 3 => c \notin breached
        /\ (c.words >= 3 /\ c.metric = "http_req_duration" /\ <<c.check, c.op>> \in {<<"max", "<">>, <<"min", ">">>})
             => (c \in breached <=> ~Kept(c))

\* The exporters agree: what two of them say of the same measure is the same,
\* the checks of StatsD add up to those of the CSV file, and its packets carry
\* every metric once, in order, none beyond the limit but a metric that is.
ExportersAgree ==
  LET a == Merge(shard) csv == CsvLines(a) statsd == StatsdMetrics(a)
      CsvSum(what) == MapThenSumSet(LAMBDA l : l[3], {l \in csv : l[1] = "check" /\ l[2][2] = what})
  IN  /\ \A x, y \in csv \cup statsd \cup OtlpMetrics(a) :
           (x[1] = y[1] /\ x[2] = y[2]) => x[3] = y[3]
      /\ \A l \in statsd : l[1] = "checks" =>
           l[3] = IF l[2] = "passed" THEN CsvSum("passes") ELSE CsvSum("total") - CsvSum("passes")
      /\ log = <<>> => \A n \in 0 .. 4 : \A sizes \in [1 .. n -> 1 .. MaxPacket + 1] :
           /\ FlattenSeq(Packets(sizes)) = sizes
           /\ \A p \in ToSet(Packets(sizes)) : Len(p) = 1 \/ Length(p) <= MaxPacket

\* "evaluate thresholds only against that scenario's metrics": the requests a
\* scenario's workers made are the ones its thresholds judge.
ScenarioSeesRequests ==
  \A s \in {log[i].by : i \in Requests} :
    ScenarioPart(Merge(shard), s).all.total = Cardinality({i \in Requests : log[i].by = s})

\* http_req_failed is the share of the requests that failed.
FailedRateIsOfRequests ==
  Requests # {} =>
    FailedRate(Merge(shard))
      = <<Cardinality({i \in Requests : log[i].error # None}), Cardinality(Requests)>>

=============================================================================
