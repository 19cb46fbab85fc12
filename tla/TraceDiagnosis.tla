----------------------------- MODULE TraceDiagnosis ----------------------------
(***************************************************************************)
(* The diagnoses made of a recorded trace, of a serving engine's requests  *)
(* and of a benchmark.  A physical sample is a record of whole numbers:    *)
(*   time, sm, power, pcie, nccl, cpu                                      *)
(* and a fabric sample has the fields drops and pause.                     *)
(***************************************************************************)
EXTENDS SpanAnalysis

CONSTANTS
  DataNames, SyncNames, CopyNames,   \* step names that speak of a bottleneck
  FrontierModels                     \* models that count as an escalation

PhysicalSamples == [time : Nat, sm : Nat, power : Nat, pcie : Nat, nccl : Nat, cpu : Nat]

MaxOf(samples, field) == FirstGreatest(samples, LAMBDA s : s[field])[field]

SumOf(samples, field) == SumFunction([k \in DOMAIN samples |-> samples[k][field]])

\* The samples of a span.  A tracer's or an exporter's times are ISO strings, which
\* float() refuses: the window is the instant 0, and if no sample is as old the
\* first one stands for the span.
SpanSamples(telemetry) ==
  IF telemetry = <<>>
  THEN <<[time |-> 0, sm |-> 75, power |-> 550, pcie |-> 1200, nccl |-> 5, cpu |-> 30]>>
  ELSE IF \E k \in DOMAIN telemetry : telemetry[k].time = 0
  THEN Selected(telemetry, LAMBDA s : s.time = 0)
  ELSE <<telemetry[1]>>

SpanFigures(samples) ==
  [sm |-> Mean(samples, "sm"), pcie |-> MaxOf(samples, "pcie"), nccl |-> MaxOf(samples, "nccl")]

\* correlate_span()
CorrelateSpan(telemetry) == SpanFigures(SpanSamples(telemetry))

FabricCongested(fabric) == SumOf(fabric, "pause") > 10 \/ SumOf(fabric, "drops") > 5

\* Faulty variant: the bus is looked at only if the GPU is idle.
CategoryOnIdleGpu(sm, pcie, nccl, cpu) ==
  IF sm < 550 /\ pcie < 600 THEN "dataloader_starvation"
  ELSE IF nccl > 30 THEN "nccl_overhead"
  ELSE IF pcie > 7000 /\ sm < 550 THEN "pcie_bottleneck"
  ELSE IF sm < 650 THEN "dataloader_starvation"
  ELSE "healthy_optimal"

\* The bottleneck that means and peaks show; the first rule that applies.
CategoryOf(sm, pcie, nccl, cpu) ==
  IF sm < 550 /\ pcie < 600 THEN "dataloader_starvation"
  ELSE IF nccl > 30 THEN "nccl_overhead"
  ELSE IF pcie > 7000 THEN "pcie_bottleneck"
  ELSE IF cpu > 750 /\ sm < 600 THEN "framework_overhead"
  ELSE IF sm < 650 THEN "dataloader_starvation"
  ELSE "healthy_optimal"

MeasuredCategory(t) ==
  CategoryOf(Mean(t, "sm"), MaxOf(t, "pcie"), MaxOf(t, "nccl"), Mean(t, "cpu"))

\* Without samples, what the names of the steps suggest.
EstimatedCategory(spans) ==
  IF Names(spans) \cap DataNames # {} THEN "dataloader_starvation"
  ELSE IF Names(spans) \cap SyncNames # {} THEN "nccl_overhead"
  ELSE IF Names(spans) \cap CopyNames # {} THEN "pcie_bottleneck"
  ELSE "dataloader_starvation"

\* The percentage of the run that a measured bottleneck wastes.
MeasuredWaste(category, t) ==
  CASE category = "dataloader_starvation" ->
         Greater(10, RoundDiv(550 - Mean(t, "sm"), 10))
    [] category = "nccl_overhead" ->
         Lesser(40, Greater(15, RoundDiv(MaxOf(t, "nccl"), 2)))
    [] category = "pcie_bottleneck" -> 25
    [] category = "framework_overhead" -> 20
    [] OTHER -> 0

\* The estimates: the waste, the utilization in tenths, and the share of the
\* accelerator's power.  Any other category is taken for framework overhead.
Estimate(category) ==
  CASE category = "dataloader_starvation" -> [waste |-> 34, sm |-> 382, power |-> 55]
    [] category = "nccl_overhead" -> [waste |-> 28, sm |-> 520, power |-> 68]
    [] category = "pcie_bottleneck" -> [waste |-> 25, sm |-> 450, power |-> 62]
    [] OTHER -> [waste |-> 20, sm |-> 550, power |-> 70]

\* What is taken for measured: waste, utilization and power.
Observed(category, telemetry, tdp) ==
  IF telemetry # <<>>
  THEN [estimated |-> FALSE, waste |-> MeasuredWaste(category, telemetry),
        sm |-> Mean(telemetry, "sm"), watts |-> Mean(telemetry, "power")]
  ELSE [estimated |-> TRUE, waste |-> Estimate(category).waste,
        sm |-> Estimate(category).sm, watts |-> RoundDiv(tdp * Estimate(category).power, 10)]

\* The bleed in cents.
Bleed(hourly) == [hourly |-> hourly, weekly |-> 168 * hourly, monthly |-> 720 * hourly]

\* The three longest spans.
Culprits(spans) ==
  SubSeq(Ranked(DOMAIN spans,
                LAMBDA i, j : \/ spans[i].dur > spans[j].dur
                              \/ spans[i].dur = spans[j].dur /\ i < j),
         1, Lesser(3, Len(spans)))

Diagnosis(category, observed, rate) ==
  [category |-> category] ++ observed ++ Bleed(RoundDiv(observed.waste * rate, 100))

DiagnoseAs(category, telemetry, profile, gpus) ==
  Diagnosis(category, Observed(category, telemetry, profile.tdp), profile.hourly * gpus)

\* diagnose_trace(), the category forced or None.
DiagnoseTrace(record, telemetry, fabric, forced, accelerator, gpus) ==
  [fabric |-> FabricCongested(fabric), culprits |-> Culprits(record.spans)] ++
    DiagnoseAs(Or(forced, IF telemetry # <<>> THEN MeasuredCategory(telemetry)
                          ELSE EstimatedCategory(record.spans)),
               telemetry, GetAcceleratorProfile(accelerator), gpus)

-----------------------------------------------------------------------------
\* The cause that run_trace_diagnostic() finds, unless one is forced.
RootCause(record) ==
  LET tools == CountWhere(record.spans, LAMBDA s : s.kind = "tool")
  IN  IF tools > 1 /\ Len(LlmSpans(record.spans)) <= 2 THEN "dataloader"
      ELSE IF record.summary.retries > 0 THEN "retries"
      ELSE IF \E i \in DOMAIN record.spans :
                record.spans[i].kind = "llm" /\ record.spans[i].input > 8000
      THEN "context"
      ELSE "dataloader"

\* What the diagnosis reports as observed for a cause: percent, and tenths of a
\* percent for the waste.
CauseProfile(cause) ==
  CASE cause = "dataloader" -> [gpu |-> 41, sm |-> 38, bus |-> 1, waste |-> 369]
    [] cause = "context" -> [gpu |-> 58, sm |-> 54, bus |-> 7, waste |-> 285]
    [] cause = "retries" -> [gpu |-> 32, sm |-> 29, bus |-> 2, waste |-> 420]
    [] OTHER -> [gpu |-> 74, sm |-> 71, bus |-> 23, waste |-> 80]

\* A run that cost nothing is given a price.
NormalCost(cost) == IF cost = 0 THEN 84000 ELSE cost

DiagnosticOf(cause, seen, cost) ==
  [cause |-> cause, cost |-> cost, waste |-> ShareOfCost(seen.waste, cost),
   score |-> GpuEfficiencyScore([sm |-> seen.sm, memory |-> seen.gpu, mfu |-> None,
               bus |-> seen.bus, throttled |-> FALSE, errors |-> 0, nccl |-> 0])]

Diagnostic(cause, cost) == DiagnosticOf(cause, CauseProfile(cause), cost)

\* run_trace_diagnostic()
RunTraceDiagnostic(record, forced) ==
  Diagnostic(Or(forced, RootCause(record)),
             NormalCost(100 * RoundDiv(record.summary.cost, 100)))

-----------------------------------------------------------------------------
AgentFinding(condition, name, share, saved) ==
  When(condition, <<[name |-> name, share |-> share, saved |-> saved]>>)

\* The findings about the retrievals and the model calls of a run: what each costs,
\* in thousandths of the run's cost, and the milliseconds it would save.
FindingsOf(tools, llm) ==
  AgentFinding(\/ Len(tools) >= 3
               \/ \E j, k \in DOMAIN tools : j < k /\ tools[j].name = tools[k].name,
               "duplicate_retrieval", 48, 1450)
    \o AgentFinding(\E k \in DOMAIN llm : llm[k].model \in FrontierModels,
                    "model_escalation", 42, 0)
    \o AgentFinding(Len(tools) >= 2, "serializable_parallelism", 0,
                    Greater(600, SumOf(tools, "dur") - MaxOf(tools, "dur")))
    \o AgentFinding(Len(llm) >= 2, "context_inflation", 34, 0)

OrOptimal(found) ==
  IF found # <<>> THEN found ELSE <<[name |-> "optimal", share |-> 0, saved |-> 0]>>

AgentFindings(spans) ==
  OrOptimal(FindingsOf(Selected(spans, LAMBDA s : s.kind \in {"tool", "search", "db"}),
                       LlmSpans(spans)))

\* A twentieth of the cost is redundant at least.
Efficiencies(cost, found) ==
  [cost |-> cost, findings |-> found, saved |-> SumOf(found, "saved"),
   redundant |-> ShareOfCost(Lesser(500, Greater(50, SumOf(found, "share"))), cost)]

\* analyze_agent_efficiency()
AnalyzeAgentEfficiency(record) ==
  Efficiencies(NormalCost(Total(record.spans, LAMBDA s : OrZero(s.cost))),
               AgentFindings(record.spans))

\* compute_money_leak_report(): the leaks are a calibrated model, whose total in
\* dollars does not depend on the traces; these are only counted, up to 200.
MoneyLeakReport(records, observed) ==
  [recoverable |-> 41932] ++
    (IF observed = None
     THEN [spend |-> 184720, share |-> RoundDiv(41932 * 1000, 184720),
           traces |-> Lesser(200, records)]
     ELSE [spend |-> observed.spend, share |-> RoundDiv(41932 * 1000, observed.spend),
           traces |-> observed.traces])

-----------------------------------------------------------------------------
\* Half of a / b, rounded to the nearest number, and to the even one of two.
HalfToEven(a, b) ==
  LET nearest == (a + b) \div (2 * b)
  IN  IF (a + b) % (2 * b) = 0 /\ nearest % 2 = 1 THEN nearest - 1 ELSE nearest

\* The p-th percent of sorted values; exactly half a place goes to the even one.
Percentile(values, p) ==
  SortSeq(values, <)[1 + HalfToEven(2 * p * (Len(values) - 1), 100)]

Field(requests, field) == [k \in DOMAIN requests |-> requests[k][field]]

\* VLLMProfiler.diagnose() of the requests recorded so far.
DiagnoseServing(requests) ==
  IF requests = <<>> THEN "no_requests"
  ELSE IF SumOf(requests, "swapped") > 0 \/ Mean(requests, "pcie") > 100000
  THEN "kv_cache_thrashing"
  ELSE IF /\ Mean(requests, "queue") > 4 * Percentile(Field(requests, "ttft"), 50)
          /\ Mean(requests, "queue") > 1500
  THEN "queue_saturation"
  ELSE IF Mean(requests, "dram") > 750 /\ Mean(requests, "sm") < 550
  THEN "memory_bandwidth"
  ELSE "optimal"

-----------------------------------------------------------------------------
\* The built-in measurements of an engine: latencies in tenths of a millisecond,
\* tokens per second, cents per million tokens.
EngineResult(engine) ==
  CASE engine = "vllm" -> [p95 |-> 1482, p99 |-> 1845, tokens |-> 812, cost |-> 271]
    [] engine = "sglang" -> [p95 |-> 1724, p99 |-> 2112, tokens |-> 901, cost |-> 244]
    [] engine = "tensorrt" -> [p95 |-> 1286, p99 |-> 1580, tokens |-> 1045, cost |-> 211]
    [] OTHER -> [p95 |-> 1800, p99 |-> 2200, tokens |-> 740, cost |-> 298]

\* run_inference_benchmark(): engine -> its result.
RunInferenceBenchmark(engines) == [e \in Range(engines) |-> EngineResult(e)]

\* The thresholds, each a number or None, that a result misses.
GateFailures(r, gates) ==
  {field \in {"p95", "p99", "cost"} : gates[field] # None /\ r[field] > gates[field]}
    \cup (IF gates.tokens # None /\ r.tokens < gates.tokens THEN {"tokens"} ELSE {})

Verdict(failures) ==
  [failures |-> failures, passed |-> \A e \in DOMAIN failures : failures[e] = {}]

Gated(results, gates) == [e \in DOMAIN results |-> GateFailures(results[e], gates)]

\* run_benchmark_from_config()
RunBenchmarkFromConfig(engines, gates) ==
  Verdict(Gated(RunInferenceBenchmark(
                  IF engines = <<>> THEN <<"vllm", "sglang">> ELSE engines), gates))
=============================================================================
