----------------------------- MODULE CommandReports ----------------------------
(***************************************************************************)
(* What the commands of cli/main.py and the pages of server/__init__.py    *)
(* compute from the records they have read: the figures, without their     *)
(* layout.                                                                 *)
(***************************************************************************)
EXTENDS OtlpExchange, TraceDiagnosis, DrDrill

\* A figure of a summary.  An imported summary lacks most of them.
Figure(summary, field) == IF field \in DOMAIN summary THEN summary[field] ELSE 0

SumFigures(summaries, field) == Total(summaries, LAMBDA s : Figure(s, field))

Successful(summaries) == CountWhere(summaries, LAMBDA s : s.outcome = "success")

\* The spans of a record as trees, in the order of the walk.
ShowTrace(record) == WalkPreorder(record.spans)

\* report, and GET /api/traces/<id>
Report(record) ==
  [summary |-> record.summary, findings |-> record.summary.findings,
   drivers |-> record.summary.drivers, tree |-> ShowTrace(record), spans |-> record.spans]

\* golden-signals, GET /api/golden-signals: computed anew if the summary has none.
GoldenPage(record) ==
  IF "golden" \in DOMAIN record.summary THEN record.summary.golden
  ELSE AnalyzeSpans(record.spans).summary.golden

\* GET /metrics, but for the breakers' states.
MetricsPage(summaries) ==
  [success |-> Successful(summaries), error |-> Len(summaries) - Successful(summaries),
   cost |-> SumFigures(summaries, "cost"), tokens |-> SumFigures(summaries, "tokens"),
   wasted |-> SumFigures(summaries, "wasted")]

\* GET /api/summary
SummaryPage(summaries) ==
  LET n == Len(summaries)
  IN  [MetricsPage(summaries) EXCEPT !.error = n] ++
        [energyCost |-> SumFigures(summaries, "energyCost"),
         meanDuration |-> IF n = 0 THEN 0
                          ELSE RoundDiv(SumFigures(summaries, "duration"), n),
         successRate |-> IF n = 0 THEN 1000
                         ELSE RoundDiv(1000 * Successful(summaries), n)]

\* GET /api/metrics/executive: a figure that is zero is replaced by a sample.
ExecutivePage(summaries) ==
  [f \in {"cost", "energyCost", "wasted"} |->
     IF SumFigures(summaries, f) = 0 THEN "sample" ELSE SumFigures(summaries, f)]

\* GET /api/waste, without a trace of an hour that cost what it cost.
WastePage(records, accelerator, gpus) ==
  IF records = <<>>
  THEN DetectComputeWaste(<<>>, accelerator, gpus, 3600000, None)
  ELSE DetectComputeWaste(<<>>, accelerator, gpus, records[1].summary.duration,
                          records[1].summary.cost)

\* GET /api/recommendations, without a trace for an hour at 28 dollars.
RecommendationsPage(records) ==
  IF records = <<>>
  THEN DetectComputeWaste(<<>>, "h100", 8, 3600000, 28000000).recommendations
  ELSE WastePage(records, "h100", 8).recommendations

\* The host and the port that start_server() binds: the first that is free of those
\* it tries, in their order.
BoundAddress(host, port, free) ==
  LET hosts == IF host = "0.0.0.0" THEN <<host, "127.0.0.1">>
               ELSE IF host = "127.0.0.1" THEN <<host, "localhost">> ELSE <<host>>
      tried == FlattenSeq([h \in DOMAIN hosts |->
                 [p \in 1..6 |-> <<hosts[h], <<port, 8765, 8080, 5000, 9000, 3000>>[p]>>]])
      bound == Selected(tried, LAMBDA a : a \in free)
  IN  IF bound = <<>> THEN None ELSE bound[1]

\* init: a file that exists is kept, unless it is to be overwritten.
InitWorkspace(files, force) ==
  [f \in {"config", "pricing"} |-> IF f \in files /\ ~force THEN "kept" ELSE "written"]

-----------------------------------------------------------------------------
(* The cluster commands.  A reply of the control plane is None if it cannot  *)
(* be reached in time or does not answer as expected; the commands then go   *)
(* on with what they know themselves.                                        *)

\* _fetch_federated_clusters()
FetchFederatedClusters(reply) == IF reply = None THEN DefaultFederatedClusters ELSE reply

\* What the clusters add up to.  The spend is in cents, the mean MFU in thousandths.
OverviewOf(clusters) ==
  [clusters |-> Len(clusters),
   total |-> Total(clusters, LAMBDA c : c.total),
   active |-> Total(clusters, LAMBDA c : c.active),
   spend |-> Total(clusters, LAMBDA c : c.active * c.rate),
   mfu |-> IF clusters = <<>> THEN 0
           ELSE RoundDiv(Total(clusters, LAMBDA c : c.mfu), Len(clusters)),
   providers |-> [p \in {"gcp", "aws", "azure", "on-prem"} |->
                    Len(Selected(clusters, LAMBDA c : c.provider = p))]]

\* _fetch_federation_overview(), from the second reply if the first one is missing.
FetchFederationOverview(overview, reply) ==
  Or(overview, OverviewOf(FetchFederatedClusters(reply)))

\* cluster_list(), with optional filters.
ClusterList(reply, provider, accelerator) ==
  Selected(FetchFederatedClusters(reply),
            LAMBDA c : /\ provider = None \/ c.provider = provider
                       /\ accelerator = None \/ c.accelerator = accelerator)

Suitable(c, wanted) == c.accelerator = wanted.accelerator

Fits(c, wanted) ==
  /\ Suitable(c, wanted) /\ c.total - c.active >= wanted.gpus
  /\ wanted.maxRate = None \/ c.rate <= wanted.maxRate

\* A cluster's MFU for its rate, which counts as ten cents at least.
Efficiency(c) == RoundDiv(1000 * c.mfu, Greater(10, c.rate))

\* The clusters that fit, or those of the accelerator if none does.
Matching(clusters, wanted) ==
  IF \E k \in DOMAIN clusters : Fits(clusters[k], wanted)
  THEN Selected(clusters, LAMBDA c : Fits(c, wanted))
  ELSE Selected(clusters, LAMBDA c : Suitable(c, wanted))

\* Cluster c gets more out of its rate than d does.
Beats(c, d) == c.mfu * Greater(10, d.rate) > d.mfu * Greater(10, c.rate)

\* The first of the most efficient clusters.
MostEfficient(clusters) ==
  clusters[CHOOSE k \in DOMAIN clusters :
             \A j \in DOMAIN clusters : /\ ~Beats(clusters[j], clusters[k])
                                        /\ j < k => Beats(clusters[k], clusters[j])]

PlacementAt(cluster, wanted) ==
  [id |-> cluster.id, rate |-> cluster.rate, hourly |-> wanted.gpus * cluster.rate,
   score |-> Efficiency(cluster)]

\* The recommendation made without the control plane.
OwnPlacement(matching, wanted) ==
  IF matching = <<>> THEN None ELSE PlacementAt(MostEfficient(matching), wanted)

\* cluster_recommend(): the control plane's placement, or the most efficient cluster.
ClusterRecommend(placement, reply, wanted) ==
  Or(placement, OwnPlacement(Matching(FetchFederatedClusters(reply), wanted), wanted))

-----------------------------------------------------------------------------
(* The commands by name *)

TraceOps == {"show", "report", "detail", "demo", "metrics", "golden", "export", "diagnose",
             "agent", "policy", "hardware", "correlate", "waste"}
SummaryOps == {"list", "money_leak", "scrape", "summary", "executive", "live"}
PageOps == {"waste_page", "golden_page", "recommendations"}

\* The commands that show one trace.  A record is read with its summary, since the
\* store analyses what it saves without one.
OfTrace(op, arg, record) ==
  CASE op = "show" -> ShowTrace(record)
    [] op \in {"report", "detail", "demo"} -> Report(record)
    [] op = "metrics" -> record.summary
    [] op = "golden" -> GoldenPage(record)
    [] op = "export" -> IF arg = "otel" THEN ExportTraceToOtel(record) ELSE record
    [] op = "diagnose" -> RunTraceDiagnostic(record, None)
    [] op = "agent" -> AnalyzeAgentEfficiency(record)
    [] op \in {"policy", "hardware"} -> DiagnoseTrace(record, <<>>, <<>>, None, arg, 8)
    [] op = "correlate" ->   \* the library's TimeWindowCorrelator, with samples
         DiagnoseTrace(record, arg.telemetry, arg.fabric, None, "h100", 8)
    [] op = "waste" -> WastePage(<<record>>, arg, 8)

\* The commands over the summaries of all traces, the newest first.
OfSummaries(op, arg, summaries) ==
  CASE op = "list" -> Selected(summaries, LAMBDA s : arg = None \/ s.outcome = arg)
    [] op = "money_leak" -> MoneyLeakReport(Len(summaries), arg)
    [] op = "scrape" -> MetricsPage(summaries)
    [] op = "summary" -> SummaryPage(summaries)
    [] op = "executive" -> ExecutivePage(summaries)
    [] op = "live" -> SubSeq(summaries, 1, Lesser(1, Len(summaries)))

\* The pages about the newest trace, if there is one.
OfNewest(op, arg, records) ==
  CASE op = "waste_page" -> WastePage(records, arg, 8)
    [] op = "golden_page" -> IF records = <<>> THEN "sample" ELSE GoldenPage(records[1])
    [] op = "recommendations" -> RecommendationsPage(records)

\* The commands, and calls of the library, that read no trace.
OfArguments(op, arg) ==
  CASE op = "drill" -> RunDisasterRecoveryDrill(arg)
    [] op = "map" -> [conversation |-> MapMessages(arg.messages, arg.provider),
                      tool |-> MapToolSchema(arg.tool, arg.provider),
                      parameters |-> MapParameters(arg.provider, arg.temperature)]
    [] op = "clusters" -> ClusterList(arg.reply, arg.provider, arg.accelerator)
    [] op = "overview" -> FetchFederationOverview(arg.overview, arg.reply)
    [] op = "recommend" -> ClusterRecommend(arg.placement, arg.reply, arg.wanted)
    [] op = "bench" -> RunBenchmarkFromConfig(arg.engines, arg.gates)
    [] op = "serving" -> DiagnoseServing(arg)
    [] op = "detect" -> DetectComputeWaste(arg.samples, arg.accelerator, arg.gpus,
                                           arg.duration, arg.cost)
    [] op = "mfu" -> CalculateMfu(arg.tokens, arg.billions, arg.training, arg.duration,
                                  arg.accelerator, arg.gpus)
    [] op = "score" -> GpuEfficiencyScore(arg)
    [] op = "span" -> CorrelateSpan(arg)
    [] op = "serve" -> BoundAddress(arg.host, arg.port, arg.free)
    [] op = "init" -> InitWorkspace(arg.files, arg.force)
=============================================================================
