------------------------------ MODULE OtlpExchange -----------------------------
(***************************************************************************)
(* Traces in the OpenTelemetry format: two exporters and the import.  An   *)
(* exported span is a record                                               *)
(*   trace, name, parent, start, end, code                                 *)
(*   kind, model, provider, input, output, cost   as the importer reads    *)
(*                                                them: None if it cannot  *)
(* A run's span also has the field error: it holds an error message.       *)
(***************************************************************************)
EXTENDS SpanAnalysis

CONSTANTS ModelNames, ToolNames, QueryNames   \* step names that tell the kind

\* OTLPSpanExporter.span_to_otlp_dict()
SpanToOtlpDict(trace, span) ==
  [trace |-> trace, name |-> span.name, parent |-> span.parent,
   start |-> span.start,
   end |-> IF OrZero(span.end) # 0 THEN span.end ELSE span.start + span.dur,
   kind |-> span.kind, model |-> span.model, provider |-> span.provider,
   input |-> span.input, output |-> span.output, cost |-> OrZero(span.cost),
   code |-> IF span.error THEN 2 ELSE 1]

\* export_trace_to_otel().  The importer knows none of its names for the kind and
\* the cost, and a span that failed need not have a message.
SpanToOtel(trace, span) ==
  [trace |-> trace, name |-> span.name, parent |-> span.parent,
   start |-> span.start, end |-> OrZero(span.end),
   kind |-> "internal", model |-> span.model, provider |-> span.provider,
   input |-> span.input, output |-> span.output, cost |-> 0,
   code |-> IF Failed(span) THEN 2 ELSE 1]

\* The spans of payloads about some traces, as the importer reads them.
Wires(traces) ==
  [trace : traces, name : STRING, parent : Nat \cup {None}, start : Nat, end : Nat,
   kind : STRING \cup {None}, model : STRING \cup {None}, provider : STRING \cup {None},
   input : Nat, output : Nat, cost : Nat, code : 0..2]

ImportedKind(wire) ==
  CASE wire.kind = "llm" \/ wire.name \in ModelNames \/ wire.model # None -> "llm"
    [] wire.kind = "tool" \/ wire.name \in ToolNames -> "tool"
    [] wire.kind = "db" \/ wire.name \in QueryNames -> "db"
    [] wire.kind = "workflow" \/ wire.parent = None -> "workflow"
    [] OTHER -> "agent_step"

\* A span that brought no cost gets that of its tokens, without that of its time.
ImportedCost(wire) ==
  IF wire.cost # 0 \/ wire.model = None \/ wire.input + wire.output = 0 THEN wire.cost
  ELSE OrZero(CalculateCost(wire.model, wire.input, wire.output, 0))

Timed(wire) == wire.start > 0 /\ wire.end >= wire.start

\* One span of the payload, received at time now.
ImportSpan(wire, now) ==
  [parent |-> wire.parent, name |-> wire.name, kind |-> ImportedKind(wire),
   start |-> IF Timed(wire) THEN wire.start ELSE now,
   end |-> IF Timed(wire) THEN wire.end ELSE now,
   dur |-> IF Timed(wire) THEN wire.end - wire.start ELSE 0,
   status |-> IF wire.code = 2 THEN "failure" ELSE "success",
   model |-> wire.model, provider |-> Or(wire.provider, "openai"),
   input |-> wire.input, output |-> wire.output, cost |-> ImportedCost(wire),
   accel |-> None, quality |-> None, energy |-> None, retry |-> 0, error |-> FALSE]

\* The summary of imported spans: any step that failed has failed the run.
ImportedSummary(spans) ==
  [EmptySummary EXCEPT
     !.outcome = IF \E i \in DOMAIN spans : spans[i].status = "failure"
                 THEN "failure" ELSE "success",
     !.duration = FirstGreatest(spans, LAMBDA s : s.dur).dur,
     !.tokens = Total(spans, LAMBDA s : s.input + s.output),
     !.cost = Total(spans, LAMBDA s : s.cost)]

ImportedRecord(trace, spans) ==
  [trace |-> trace, spans |-> spans, summary |-> ImportedSummary(spans)]

\* Faulty variant: the spans of all traces make one record.
RecordOfAll(payload, trace, now) ==
  ImportedRecord(trace, Each(payload, LAMBDA w : ImportSpan(w, now)))

RecordOfTrace(payload, trace, now) ==
  ImportedRecord(trace, Each(Selected(payload, LAMBDA w : w.trace = trace),
                             LAMBDA w : ImportSpan(w, now)))

\* The k-th span of a payload is the first of its trace.
Leads(payload, k) == \A j \in 1..(k - 1) : payload[j].trace # payload[k].trace

\* otlp_payload_to_trace_records(): a record for each trace of the payload, in
\* the order in which their first spans come.
OtlpPayloadToTraceRecords(payload, now) ==
  Each(Places(payload, LAMBDA k : Leads(payload, k)),
       LAMBDA k : RecordOfTrace(payload, payload[k].trace, now))

\* trace_to_otlp_payload()
TraceToOtlpPayload(record) ==
  Each(record.spans, LAMBDA s : SpanToOtlpDict(record.trace, s))

\* export_trace_to_otel()
ExportTraceToOtel(record) ==
  Each(record.spans, LAMBDA s : SpanToOtel(record.trace, s))
=============================================================================
