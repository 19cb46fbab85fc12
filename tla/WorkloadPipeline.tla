---------------------------- MODULE WorkloadPipeline ---------------------------
(***************************************************************************)
(* The analysis pipeline on the event bus (analysis/pipeline.py) and the   *)
(* command that walks a workload through it (cli/pipeline.py).  An engine  *)
(* answers each trace with the waste it diagnoses.                         *)
(*                                                                         *)
(* An envelope has a type, the trace it is about (None if it names none),  *)
(* and a payload: spans, or None if there are none in it; broken, if they  *)
(* do not make TraceSpans.                                                 *)
(***************************************************************************)
EXTENDS PubSubBus, TraceDiagnosis

CONSTANTS
  Engines,       \* the pipeline engines on the bus
  Workloads,     \* workload -> the spans that its traces bring
  Malformed         \* a payload whose spans are malformed

VARIABLE rows    \* the records for Postgres that were made last

pipelineVars == <<subscribed, published, forgotten, queued, unfinished, dispatch,
                  handled, rows>>

Envelope(type, trace, payload) ==
  [type |-> type, trace |-> trace, payload |-> payload, cause |-> 0, found |-> None]

EventTypes == {"trace.created", "workload.started", "workload.completed", "gpu.alert",
               "optimization.detected"}

\* DistributedPipelineEngine.__init__() of some engines, in any order.
PipelineInit ==
  /\ \E S \in SUBSET Engines \ {{}} : \E engines \in SetToSeqs(S) :
       BusInit([key \in EventTypes \cup {"*"} |->
                  IF key \in {"trace.created", "workload.completed"} THEN engines
                  ELSE <<>>],
               Engines \cup Listeners)
  /\ rows = None

\* The envelopes whose spans an engine can diagnose.
Diagnosable(env) == env.type = "trace.created" /\ env.payload \notin {None, Malformed, <<>>}

\* The summary that handle_trace_created() makes of the spans itself.
PipelineSummary(spans) ==
  [EmptySummary EXCEPT
     !.duration = Total(spans, LAMBDA s : s.dur), !.critical = spans[1].dur,
     !.tokens = Total(spans, LAMBDA s : s.input + s.output),
     !.cost = Total(spans, LAMBDA s : OrZero(s.cost))]

\* _emit_optimization_from_diagnosis().  Samples that the payload brings along are
\* not looked at.
Optimization(env, e) ==
  LET trace == [spans |-> env.payload, summary |-> PipelineSummary(env.payload)]
      diagnosis == DiagnoseTrace(trace, <<>>, <<>>, None, "h100", 8)
  IN  [Envelope("optimization.detected", IF env.trace = None THEN e ELSE env.trace, None)
         EXCEPT !.cause = e,
                !.found = [category |-> diagnosis.category, weekly |-> diagnosis.weekly,
                           monthly |-> diagnosis.monthly]]

\* handle_trace_created(), handle_workload_completed(): what they publish.
Response(e) == IF Diagnosable(published[e]) THEN <<Optimization(published[e], e)>> ELSE <<>>

-----------------------------------------------------------------------------
\* A producer publishes an event.
Produce(env) ==
  /\ Len(published) < MaxEnvelopes
  /\ Put(<<env>>)
  /\ UNCHANGED <<subscribed, forgotten, dispatch, handled>>

\* An engine handles an envelope without suspending.
EngineEnds(d) ==
  /\ dispatch[d].todo # <<>> /\ Head(dispatch[d].todo) \in Engines
  /\ Put(Response(dispatch[d].env))
  /\ HandlerEnds(d, Head(dispatch[d].todo))
  /\ UNCHANGED <<subscribed, forgotten>>

\* generate_postgres_records().  Without an optimization the category is assumed,
\* and no recommendation made.
GeneratePostgresRecords(workload, record, optimization) ==
  LET sum == record.summary
      cost == IF sum = None THEN 0 ELSE sum.cost
      wasted == IF sum = None THEN 0 ELSE sum.wasted
  IN  [run |-> [workload |-> workload, trace |-> record.trace, cost |-> cost,
                wasted |-> wasted, duration |-> IF sum = None THEN 0 ELSE sum.duration],
       cost_record |-> [cost |-> cost, wasted |-> wasted,
                        bleed |-> IF sum # None /\ "waste" \in DOMAIN sum THEN sum.waste.bleed
                                  ELSE IF optimization = None THEN 1695
                                  ELSE RoundDiv(optimization.monthly, 720),
                        category |-> IF optimization = None THEN "dataloader_starvation"
                                     ELSE optimization.category],
       recommendation |-> IF optimization = None THEN None
                          ELSE [workload |-> workload, category |-> optimization.category,
                                weekly |-> optimization.weekly]]

\* The records that _execute_pipeline() makes, of the summary it writes down.
ExecutedRows(w) ==
  LET summary == [EmptySummary EXCEPT !.cost = 7300, !.wasted = 1500, !.duration = 335]
  IN  GeneratePostgresRecords(w, [trace |-> 1, summary |-> summary], None)

\* What the proofs assume: engines are finitely many and are not listeners, and
\* records are something.
ASSUME PipelineAssumption ==
  /\ IsFiniteSet(Engines) /\ Engines \cap Listeners = {}
  /\ \A w \in DOMAIN Workloads : ExecutedRows(w) # None

\* _execute_pipeline(): on a bus of its own, which nobody dispatches, the start, an
\* alert and the trace are published, and the engine is handed the trace.
ExecutePipeline(w) ==
  LET trace == Envelope("trace.created", 1, Workloads[w])
      engine == Head(subscribed["trace.created"])
  IN  /\ published = <<>> /\ subscribed["trace.created"] = <<engine>>
      /\ Put(<<Envelope("workload.started", 1, None), Envelope("gpu.alert", 1, None),
               trace, Optimization(trace, 3)>>)
      /\ handled' = [handled EXCEPT ![engine] = Append(@, 3)]
      /\ rows' = ExecutedRows(w)
      /\ UNCHANGED <<subscribed, forgotten, dispatch>>

\* What producers publish.
Events ==
  {Envelope("trace.created", None, Workloads[w]) : w \in DOMAIN Workloads}
    \cup {Envelope("trace.created", 1, payload) : payload \in {None, Malformed, <<>>}}
    \cup {Envelope("workload.completed", 1, None)}

\* The bus of a pipeline that was executed is not used again.
PipelineNext ==
  /\ rows = None
  /\ \/ \E env \in Events : Produce(env) /\ UNCHANGED rows
     \/ \E h \in Listeners, key \in {"trace.created", "*"} :
          AddHandler(key, h) /\ UNCHANGED rows
     \/ \E d \in Dispatchers :
          /\ Take(d) \/ Suspend(d) \/ ListenerEnds(d) \/ EngineEnds(d) \/ Done(d) \/ Cancel(d)
          /\ UNCHANGED rows
     \/ Clear /\ UNCHANGED rows
     \/ \E w \in DOMAIN Workloads : ExecutePipeline(w)

-----------------------------------------------------------------------------
\* When all that was put is reported as done, which is when join() returns, each
\* engine has gone through every trace once and answered it if it has spans that
\* can be read, and nothing else was answered: however dispatchers interleave,
\* listeners raise or are cancelled, and whenever the queue was cleared
\* (pubsub.py:145-175, analysis/pipeline.py:50-129).
JoinMeansAnswered ==
  unfinished = 0 =>
    \A e \in DOMAIN published :
      LET answers == {o \in DOMAIN published : published[o].cause = e}
          engines == Range(subscribed["trace.created"]) \cap Engines
      IN  /\ published[e].type = "trace.created" =>
               \A h \in engines : Cardinality({k \in DOMAIN handled[h] : handled[h][k] = e}) = 1
          /\ Cardinality(answers) = IF Diagnosable(published[e]) THEN Cardinality(engines) ELSE 0
          /\ \A o \in answers : o > e /\ published[o].type = "optimization.detected"

PipelineSpec == PipelineInit /\ [][PipelineNext]_pipelineVars
=============================================================================
