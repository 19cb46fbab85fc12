------------------------------ MODULE SpanAnalysis -----------------------------
(***************************************************************************)
(* The summary of a trace.  A span is a record                             *)
(*   parent, start, end, dur   as in SpanGraph                             *)
(*   name, kind, status        strings                                     *)
(*   model, provider, accel    names or None                               *)
(*   input, output, retry      numbers                                     *)
(*   cost, quality             a number or None; quality in thousandths    *)
(*   energy                    what CalculateEnergy() yields, or None      *)
(***************************************************************************)
EXTENDS SpanGraph, ComputeWaste, FiniteSets

CONSTANTS
  LocalModels,    \* models whose name says that they are local
  LargeModels,    \* models too large for a simple task
  ParetoAdvised   \* models that a Pareto-optimal one beats at no loss of quality

Failed(span) == span.status \in {"failure", "timeout"}

\* The spans of a run, as the tracer leaves them to the analysis (events/models.py).
Spans ==
  [parent : Nat \cup {None}, name : STRING, kind : STRING,
   start : Nat, end : Nat \cup {None}, dur : Nat, status : STRING,
   model : STRING \cup {None}, provider : STRING \cup {None}, accel : STRING \cup {None},
   input : Nat, output : Nat, retry : Nat, cost : Nat \cup {None},
   quality : Nat \cup {None}, energy : {None}, error : BOOLEAN]

\* The runs that are traced: a root at least, and nothing ends before it starts.
Runs ==
  {spans \in Seq(Spans) :
     spans # <<>> /\ \A i \in DOMAIN spans : spans[i].end # None => spans[i].start <= spans[i].end}

\* What the analysis writes into a span: its cost and its energy, if it has none.
Priced(span) ==
  [span EXCEPT
     !.cost = IF @ # None THEN @
              ELSE CalculateCost(span.model, span.input, span.output, span.dur),
     !.energy = IF @ # None \/ span.dur = 0 THEN @
                ELSE CalculateEnergy(span.dur,
                       IF span.accel # None THEN span.accel
                       ELSE IF span.kind = "llm" THEN Generic ELSE "cpu")]

PricedSpans(spans) == Each(spans, Priced)

\* The sum of Value over the spans that satisfy Test.
SumWhere(spans, Test(_), Value(_)) == Total(Selected(spans, Test), Value)
CountWhere(spans, Test(_)) == Len(Selected(spans, Test))

\* The length of the run: that of the primary root, if it is known.
TotalDuration(spans, root) ==
  IF root # None /\ spans[root].dur # 0 THEN spans[root].dur
  ELSE IF \E i \in DOMAIN spans : spans[i].parent = None /\ spans[i].dur # 0
  THEN SumWhere(spans, LAMBDA s : s.parent = None, LAMBDA s : s.dur)
  ELSE FirstGreatest(spans, LAMBDA s : s.dur).dur

Retries(span) ==
  IF span.retry > 0 THEN span.retry ELSE IF span.status = "retry" THEN 1 ELSE 0

\* Only the primary root decides whether the run failed.
Outcome(spans, root) ==
  IF root # None /\ Failed(spans[root]) THEN spans[root].status
  ELSE IF \E i \in DOMAIN spans : Failed(spans[i]) THEN "partial_success"
  ELSE "success"

MeanQuality(scored) ==
  IF scored = <<>> THEN None ELSE RoundDiv(Total(scored, LAMBDA s : s.quality), Len(scored))

\* The primary root's quality, else the mean of the known ones.
QualityScore(spans, root) ==
  IF root # None /\ spans[root].quality # None THEN spans[root].quality
  ELSE MeanQuality(Selected(spans, LAMBDA s : s.quality # None))

\* The spans that cost something, dearest first; of equal ones the first stays.
DearestFirst(spans) ==
  Ranked({i \in DOMAIN spans : OrZero(spans[i].cost) > 0},
    LAMBDA i, j : \/ spans[i].cost > spans[j].cost
                  \/ spans[i].cost = spans[j].cost /\ i < j)

\* top_cost_drivers: the five dearest.
CostDrivers(spans) == SubSeq(DearestFirst(spans), 1, Lesser(5, Len(DearestFirst(spans))))

\* Faulty variant: a run that failed in part has wasted nothing.
WastedOnlyByFailedRuns(outcome, total, failed) ==
  IF outcome \in {"failure", "timeout"} THEN total ELSE 0

\* A failed run has wasted everything, another one its failed steps.
WastedCost(outcome, total, failed) ==
  IF outcome \in {"failure", "timeout"} THEN total
  ELSE IF outcome = "partial_success" THEN failed ELSE 0

\* effective_utilization_pct, in tenths.
EffectiveUtilization(steps, duration, critical) ==
  IF duration > 0 /\ steps > 1
  THEN Lesser(1000, Greater(200, RoundDiv(1000 * critical, duration))) ELSE 680

DominantAccelerator(spans) ==
  Or(First(Each(Selected(spans, LAMBDA s : s.accel # None), LAMBDA s : s.accel)), Generic)

-----------------------------------------------------------------------------
Finding(category, severity) == <<[category |-> category, severity |-> severity]>>

When(condition, finding) == IF condition THEN finding ELSE <<>>

WastedCostFinding(sum) ==
  When(sum.outcome \in {"failure", "timeout"}, Finding("wasted_cost", "critical"))

\* The dearest step takes a third, or half, of what the run cost.
ConcentrationFinding(spans, sum) ==
  IF sum.drivers = <<>> \/ sum.cost <= 100 THEN <<>>
  ELSE LET top == spans[sum.drivers[1]].cost
       IN  IF 100 * top >= 50 * sum.cost THEN Finding("cost_concentration", "critical")
           ELSE When(100 * top >= 30 * sum.cost, Finding("cost_concentration", "warning"))

RetryFinding(spans, sum) ==
  LET delay == SumWhere(spans, LAMBDA s : Retries(s) > 0, LAMBDA s : s.dur)
  IN  IF sum.retries = 0 THEN <<>>
      ELSE IF sum.retries >= 3 \/ delay >= 1000 THEN Finding("retry_storm", "critical")
      ELSE Finding("retry_penalty", "warning")

StepFindings(spans) ==
  FlattenSeq([i \in DOMAIN spans |->
                When(Failed(spans[i]), Finding("step_failure", "warning"))])

LlmSpans(spans) == Selected(spans, LAMBDA s : s.kind = "llm")

\* The prompts grew, or a span's was large if there is only one to compare.
ContextFindings(spans) ==
  LET llm == LlmSpans(spans)
  IN  IF Len(llm) >= 2
      THEN When(/\ llm[1].input > 0
                /\ 2 * Last(llm).input > 5 * llm[1].input
                /\ Last(llm).input >= 2000, Finding("token_bloat", "warning"))
      ELSE FlattenSeq([i \in DOMAIN spans |->
             When(spans[i].input >= 3000, Finding("large_context", "info"))])

Overprovisioned(span) ==
  /\ span.kind = "llm" /\ span.model \in LargeModels
  /\ span.input + span.output \in 1..349 /\ span.output < 100 /\ span.dur < 400

ModelFindings(spans) ==
  FlattenSeq([i \in DOMAIN spans |->
                When(Overprovisioned(spans[i]), Finding("model_selection", "info"))])

Some(spans, Test(_), finding) == When(\E i \in DOMAIN spans : Test(spans[i]), finding)

LocalFinding(spans) ==
  Some(spans, LAMBDA s : s.provider = "local" \/ s.model \in LocalModels,
       Finding("local_inference", "info"))

\* Siblings that ran side by side.
ConcurrencyFinding(spans, sum) ==
  LET steps == SumWhere(spans, LAMBDA s : s.parent # None, LAMBDA s : s.dur)
  IN  When(/\ sum.duration > 0 /\ sum.critical > 0 /\ Len(spans) > 2
           /\ 100 * steps > 115 * sum.critical, Finding("concurrency_savings", "info"))

UnknownModelFinding(spans) ==
  Some(spans, LAMBDA s : s.kind = "llm" /\ s.model # None /\ s.cost = None,
       Finding("unknown_model", "info"))

ParetoFinding(spans) ==
  Some(spans, LAMBDA s : s.kind = "llm" /\ s.model \in ParetoAdvised,
       Finding("pareto_frontier", "info"))

BleedFinding(waste) == When(waste.bleed >= 100, Finding("financial_bleed", "warning"))

\* _generate_findings() and the advisory that analyze_spans() adds.
Findings(spans, sum) ==
  WastedCostFinding(sum) \o ConcentrationFinding(spans, sum) \o RetryFinding(spans, sum)
    \o StepFindings(spans) \o ContextFindings(spans) \o ModelFindings(spans)
    \o LocalFinding(spans) \o ConcurrencyFinding(spans, sum) \o UnknownModelFinding(spans)
    \o When(sum.joules > 0, Finding("energy_efficiency", "info"))
    \o ParetoFinding(spans) \o BleedFinding(sum.waste)

\* What analyze_spans() adds up, of spans that are priced already.
Aggregates(spans) ==
  LET input == Total(spans, LAMBDA s : s.input)
      output == Total(spans, LAMBDA s : s.output)
      powered == Selected(spans, LAMBDA s : s.energy # None)
  IN  [cost |-> Total(spans, LAMBDA s : OrZero(s.cost)),
       failedCost |-> SumWhere(spans, Failed, LAMBDA s : OrZero(s.cost)),
       joules |-> Total(powered, LAMBDA s : s.energy.joules),
       energyCost |-> Total(powered, LAMBDA s : s.energy.cost),
       tokens |-> input + output,
       llm |-> CountWhere(spans, LAMBDA s : s.kind = "llm"),
       tools |-> CountWhere(spans, LAMBDA s : s.kind \in {"tool", "search"}),
       external |-> CountWhere(spans, LAMBDA s : s.kind \in {"http", "db", "tool", "search"}),
       retries |-> Total(spans, Retries),
       steps |-> Len(spans), failures |-> CountWhere(spans, Failed)]

\* The golden signals that are not copies of other figures: the price of an hour
\* on the critical path in cents, the spend that was wasted, the failure rate in
\* tenths of a percent, and the mean power in watts.
GoldenSignals(agg, run, bleed) ==
  [hour |-> RoundDiv(agg.cost * 360, Greater(1, run.critical)), bleed |-> bleed,
   failureRate |-> RoundDiv(1000 * agg.failures, Greater(1, agg.steps)),
   recovery |-> agg.failedCost,
   watts |-> IF agg.joules > 0 THEN RoundDiv(agg.joules, Greater(1, run.duration)) ELSE 350]

EmptySummary ==
  [outcome |-> "success", duration |-> 0, critical |-> 0, cost |-> 0, wasted |-> 0,
   perSuccess |-> None, quality |-> None, retries |-> 0, failures |-> 0, tokens |-> 0,
   drivers |-> <<>>, findings |-> <<>>]

\* What it says of the run as a whole, whose primary root is known.
RunFigures(spans, root) ==
  [outcome |-> Outcome(spans, root), duration |-> TotalDuration(spans, root),
   critical |-> CriticalPath(spans).dur, quality |-> QualityScore(spans, root),
   drivers |-> CostDrivers(spans)]

Useful(outcome) == outcome \notin {"failure", "timeout"}

\* The summary but for the findings, of a run that wasted so much.
Figures(agg, run, wasted, waste) ==
  agg ++ run ++
    [wasted |-> wasted, waste |-> waste,
     perSuccess |-> IF Useful(run.outcome) THEN agg.cost ELSE None,
     perDollar |-> Intelligence(run.quality, IF Useful(run.outcome) THEN 1 ELSE 0,
                                agg.cost + agg.energyCost),
     perJoule |-> Intelligence(run.quality, IF Useful(run.outcome) THEN 1 ELSE 0, agg.joules),
     tokensPerDollar |-> Throughput(agg.tokens, agg.cost),
     effective |-> EffectiveUtilization(agg.steps, run.duration, run.critical),
     bleed |-> Greater(wasted, waste.wasted),
     golden |-> GoldenSignals(agg, run, Greater(wasted, waste.wasted))]

WithFindings(spans, sum) == [findings |-> Findings(spans, sum)] ++ sum

SummaryOf(spans, agg, run) ==
  WithFindings(spans,
    Figures(agg, run, WastedCost(run.outcome, agg.cost, agg.failedCost),
            DetectComputeWaste(<<>>, DominantAccelerator(spans), 1, run.duration, agg.cost)))

\* analyze_spans() of spans that are priced already.
Analyzed(spans) ==
  [spans |-> spans,
   summary |-> SummaryOf(spans, Aggregates(spans), RunFigures(spans, PrimaryRoot(spans)))]

\* analyze_spans(): the spans as they are afterwards, and the summary.
AnalyzeSpans(spans) ==
  IF spans = <<>> THEN [spans |-> <<>>, summary |-> EmptySummary]
  ELSE Analyzed(PricedSpans(spans))

-----------------------------------------------------------------------------
\* What the step of a name cost: of several the last one is looked at.
SpentOn(spans, name) ==
  LET named == Selected(spans, LAMBDA s : s.name = name)
  IN  IF named = <<>> THEN None ELSE Last(named).cost

Names(spans) == {spans[i].name : i \in DOMAIN spans}

Differences(a, b) ==
  [duration |-> b.duration - a.duration, cost |-> b.cost - a.cost,
   tokens |-> b.tokens - a.tokens, retries |-> b.retries - a.retries,
   failures |-> b.failures - a.failures,
   quality |-> IF None \in {a.quality, b.quality} THEN None ELSE b.quality - a.quality]

\* compare_traces(): the differences, and what the runs spent on each step.
CompareTraces(a, b) ==
  [steps |-> [n \in Names(a.spans) \cup Names(b.spans) |->
                <<SpentOn(a.spans, n), SpentOn(b.spans, n)>>]]
    ++ Differences(a.summary, b.summary)
=============================================================================
