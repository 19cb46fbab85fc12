# airun-profiler in TLA+

Models of airun in TLA+: the tracer that Python programs are instrumented with, the stores
traces are kept in, what is computed of a trace (graph, critical path, cost, waste,
diagnoses) and the commands and requests that ask for it, the exchange with OpenTelemetry, the
event buses, the circuit breakers that route around failing providers and the drills that
rehearse it, the router that learns models' quality, the GPU telemetry collector in Rust and its
breaker, and the control plane's store over Postgres and memory. Each module is translated
from the source named below; `PROJECT.json` maps every definition to the lines it stands for.

Paths of Python files are relative to `src/src/airun/`, of Rust files to
`src/crates/airun-collector/src/`, of TypeScript files to `src/packages/control-plane/src/`.

## The system

| Component | State | Operations | What is hard | What makes it correct |
|---|---|---|---|---|
| **SDK tracer** `sdk/tracer.py`, `sdk/context.py` | three contextvars per task (trace id, span stack, collected spans); span objects shared by reference | enter and leave a `TraceContext`, enrich the current span, save the trace when the root leaves | asyncio tasks copy their creator's context, threads start empty; exceptions; children that outlive parents | parents enclose children, a saved trace is one tree, nothing leaks into the next trace, failures are recorded |
| **Trace stores** `store/` | JSONL files, or two SQLite tables | save, get (by id or prefix), list, delete, clear | threads of the server, the tracer and the CLI at once; crashes; partial writes; two saves of one trace; a span id used twice | a trace is all of one record; a call changes no other trace |
| **Breakers, failover, remediation** `resilience/breaker.py`, `remediation_engine.py` | per provider: state, two counters, time of the last trip | select a provider, record success or failure, trip by policy | answers that arrive after the breaker tripped; half-open phases shared by callers | open until cooled down, closed only by earned recovery, first healthy provider, eventual recovery |
| **Collector breaker** `circuit_breaker.rs` | state, counter and time of change behind a lock each | `state`, `record_success`, `record_failure` | lock order, writes under different locks | methods look atomic, every call returns |
| **Event buses** `events/queue.py`, `events/pubsub.py` | subscribers, history, an asyncio queue and its count of unfinished events | subscribe, publish, dispatch, clear | handlers that publish while they are called, threads in one list, concurrent and cancelled dispatchers | each handler that was due gets an event once and in order, the history is the newest events, a join that returns means that all is answered |
| **Control plane** `index.ts`, `db.ts`, `events.ts` | Postgres and an in-memory fallback, event history | insert runs, list and apply recommendations, start, close, clusters, placement | statements answered in any order, a connection that fails midway, a fallback that is never left, ignored results | the two stores agree, what is announced was done, every request is answered |
| **Collector pipeline** `main.rs`, `dcgm.rs`, `pubsub.rs`, `otlp.rs`, `prometheus.rs` | ring buffer, batch counter | collect, push, alert, publish, correlate, scrape | posts that hold the loop up, a buffer that wraps, window limits between GPUs read one after the other, bus readings in 32 bits, unsigned time | the newest samples are kept, nothing is diagnosed that did not happen, every hot sample is announced |
| **Eval router** `routing/` | profiles, measured scores | route, record an evaluation | random shadow tests, profiles that change under way | the tier's quality is met |
| **Graph and analysis** `graph/`, `analysis/` | none | functions of a trace: critical path, summary, waste, diagnoses, scores | overlaps, equal and missing times, missing parents, thresholds, shares that add up | the path is the longest sequence, the figures agree with the spans, waste is charged once |
| **Pricing and energy** `pricing/` | none | look up a model or an accelerator, cost of a span | names that contain each other, missing rates | the summary's cost is that of its spans |
| **OTLP exchange** `exporters/otlp.py`, `exporters/otel_export.py` | none of their own | export a record, rebuild records of a payload and save them | the same id saved by the tracer and by the import, requests in parts, invalid ones | a stored trace is one delivery, whole |
| **Commands and requests** `cli/main.py`, `cli/pipeline.py`, `server/__init__.py` | the store, an id file per traced process | run, seed, demo, compare, show, report, export, recommend, bench, ...; ingest, pages, metrics | several processes on one store: aliases are resolved by listing it, in an order that depends on the backend | comparisons run forward, an id file names one's own trace |
| **Failover of conversations** `resilience/semantic_mapper.py`, `dr_drills.py` | a breaker per drill | map messages, temperature and tools; rehearse an outage | several system prompts, none, roles of other dialects, fields besides the content | nothing said is lost or reordered |
| Reports, configuration, SDK wrappers, incident graph, eBPF probe | none, or read once | | layout, I/O and constants | |

The tracer saves through `get_trace_store()`, as do the server's OTLP endpoint and the CLI,
which otherwise read and delete; what the CLI and the server show is computed
anew from what they read. An engine of the pipeline analyses the traces that come by the
asynchronous bus. `evaluate_trace()` shares its breakers with everyone
who calls `get_resilience_manager()`. The collector posts events to the event fabric, from
which the control plane is fed. Nothing else is shared.

`PROJECT.json` lists what each component leaves unmodelled and why, and every hazard with
the properties that cover it.

## Modules

| Module | Models | State and actions |
|---|---|---|
| `Tracer` | the SDK tracer under tasks and threads | `ctx[t]` holds the contextvars as task `t` sees them, `spans` the shared span objects. `Enter`, `Exit` (with `Finalize`) are `__enter__`, `__exit__`; `SetSpanStatus`, `RecordRetry` the enrichment functions. `Gather`, `CreateTask`, `StartThread`, `Resume`, `Raise`, `Catch`, `Finish` are what Python does |
| `TraceClients` | records, and the calls of a store's clients | `op[c]`: the method client `c` is in and its next step |
| `SqliteStore` | the SQLite backend, one statement per step | `db` committed, `draft` as the writing connection sees it, `writer` the holder of the write lock |
| `JsonlStore` | the file backend, one system call per step | `files[id]`: the record that the file begins with, how many whole lines of it are there, whether a line is cut, whether bytes of another save follow; `openers[id]`: who has it open for writing. Nothing is locked: two saves of one trace write to one file |
| `TraceStore` | what a store promises (abstract) | a trace appears whole by a save in progress, or is damaged by it, and disappears by a deletion |
| `TraceStores` | `get_trace_store()`: either backend | composes the two, and maps both to `TraceStore` |
| `TraceStores_proofs` | theorems about it | |
| `AIBreaker` | the methods of one breaker, as operators | `[state, failures, successes, cool]` |
| `ResilienceManager` | workers that fail over, remediation passes, clock | `Select`, `Complete`, `Abandon`, `EvaluateTrace`, `Tick`, `Weather` |
| `ResilienceManager_proofs` | theorems about it | |
| `AtomicBreaker` | what the Rust breaker promises (abstract) | each method one step |
| `CollectorBreaker` | the Rust breaker lock by lock | `owner[l]`, `call[t]`, `phase[t]`; `Acquire`, then `Observe`, `Reset` or `Count`, then `Write` and `Stamp` |
| `PostgresStore` | `db.ts`: the tables, the maps in memory, and Postgres itself | a caller's method is `Call`, then `Return` after each await; `Connect`, `CreateTables`, `BeginClose`, `EndClose` are `init()` and `close()`; `Execute` and `Break` what Postgres and the network do |
| `ControlPlane` | the handlers of `index.ts` over it, and the event dispatcher | `Arrive`, `Resume` are the store's steps and the rest of the handler, `Join` a WebSocket client |
| `ControlPlane_proofs` | theorems about it | |
| `Collector` | the telemetry loop, and the readers of its ring buffer as operators | `loop`, `batch`, `ring`, `outbox`; `ScrapeGpu` (each GPU at an instant of its own), `Overflow` (where a debug build panics), `Collect`, `Push` (a sample at a time under the lock), `Post`, `Pause` are `main()`'s loop; `CorrelateSpan` and `Scrape` what the OTLP and Prometheus tasks compute |
| `Collector_proofs` | theorems about it | |
| `EvalRouter` | the router, its callers and the eval harness that grades answers later | `quality[m]`, `scores[m]` (number and sum of the grades), `decision[c]`; `Route`, `Evaluate` (which is `record_eval_outcome()`), `Discard` |
| `CollectorBreaker_proofs` | theorems about the Rust breaker | |
| `QueueAndRouter_proofs` | theorems about `EvalRouter` and `EventQueue` | |
| `Asyncio_proofs` | theorems about `Tracer` and `WorkloadPipeline` | |
| `Airun_proofs` | theorems about `Sessions` and what it computes | |
| `Quantities` | numbers that may be missing, rounding, what comprehensions do | operators |
| `Pricing` | `pricing/`: look-ups, costs, energy; the built-in tables | operators, constants |
| `SpanGraph` | `graph/`: roots, children, the longest sequence of siblings, the critical path | operators over a sequence of spans |
| `ComputeWaste`, `SpanAnalysis`, `TraceDiagnosis` | `analysis/`: the waste of GPUs, the summary of a trace, diagnoses and scores | operators |
| `OtlpExchange` | `exporters/otlp.py`, `otel_export.py` | operators from records to payloads and back |
| `DrDrill` | `semantic_mapper.py`, `dr_drills.py` | operators; a drill uses `AIBreaker` |
| `CommandReports` | the figures that commands and pages show | operators |
| `Sessions` | processes of the CLI and requests of the server on one store | `work[p]` is what is left of a command: `BeginRun`, `EndRun` and `LoseRun` are a traced run, `Receive`, `SaveImport`, `ImportFails`, `AnswerImport` a request with spans, `ReceiveExport` the exporter's own post, `Resolve`, `Load`, `Answer` a command that reads. `saved` is the store, `files` the order of its files; `Backend` says which of the two the listing goes by |
| `PubSubBus` | `events/pubsub.py`, from await to await | `Put`, `AddHandler`, `Take`, `Suspend`, `ListenerEnds`, `Done`, `Cancel`, `Clear` |
| `WorkloadPipeline` | the pipeline's engines on that bus, and the command that executes it | `Produce`, `EngineEnds`, `ExecutePipeline` |
| `EventQueue` | `events/queue.py`, statement by statement where threads meet | `calls[t]`, the stack of `publish()` calls of thread `t`; `Publish`, `Check`, `Pop`, `Handle`, `Return`, `Subscribe`, `ClearHistory` |
| `Airun` | the three together | they share records and operators but no state: a behaviour lets one of them work, chosen by `Init` |

The `MC*` modules give the constants their values; `Tracer` and `CollectorBreaker` need no more
than a configuration. Operators whose comment begins with
"Faulty variant" are bugs a change could plausibly introduce: with one of them in place of
the operator that follows it, the property named for it in `PROJECT.json` fails. They are
never used otherwise.

## Runs

| Run | Bounds | What it shows |
|---|---|---|
| `tracer` | 2 tasks, 3 spans, one caller-chosen trace id | five properties under every way to start the second task, exceptions, catches, and saves that fail |
| `tracer_parallel_tools` (violation) | 3 tasks, 3 spans | spans of gathered tools are missing from the trace, against `docs/architecture.md:60` |
| `stores` | 2 clients, 2 traces of which one's id is a prefix of the other's, 2 span ids, 2 saves | both backends implement `TraceStore`; only a JSONL file is ever damaged, by a save under way, one that was cut short or two at once; undisturbed reads are exact |
| `stores_get` (violation) | as above | a get beside a save or a deletion returns part of a record, against `store/base.py:21` |
| `resilience` | 3 providers, 2 workers, thresholds of 2, cooldown of 1, the default rules | the breakers' safety and the primary's recovery |
| `collector_breaker` | 3 threads, threshold 2, cooldown 2 | methods are linearizable and return unless two threads cross their locks |
| `collector_breaker_locks` (violation) | 2 threads | they do cross them |
| `control_plane` | 3 requests, 2 spans a request, 1 run, 3 recommendations (in both stores, in memory, in neither), 1 client, 1 broken connection | stores agree and reads follow writes where nothing was disturbed, applies are announced, requests and `close()` end |
| `collector` | 2 GPUs, 2 batches, a buffer of 3, three readings besides the default, up to 1 s to read a GPU, POSTs of 0 or 3 s, scrapes that look back 4 s | correlation is complete and a diagnosis has its cause for every span, scrapes are fresh, hot samples are announced once |
| `eval_router` | 3 models, 2 callers, 2 grades, at most 4 for a model, 4 policies | requests are decided by all grades so far, and the model of a met policy is Pareto-optimal by them |
| `airun` | SQLite; 28 kinds of scenarios of `Sessions` over the built-in tables, of one command each or of three processes; 2 dispatchers, 1 engine, 1 other handler and 2 produced events on the asynchronous bus; 2 threads, 2 handlers of which one publishes and one raises, 3 messages and a history of 1 on the queue | eight properties of what commands compute and leave in the store, three of the buses |
| `airun_listing` (violation) | as above, on JSONL files | an older run that is saved last is listed as the latest, against `store/base.py:31` |

Why the bounds are enough. Three spans give a root, a child and a grandchild, a root and two
siblings, or two traces one after the other; a second task is enough for every race on a
span or a context, since tasks only meet in pairs (a third adds gather of two children,
which the violation run has). Two clients show every race between two calls, a second save
the replacement of a record, also both of them of one trace at once; a third client only adds
races of three. Thresholds of two tell
"reached" from "exceeded" and "first" from "last"; two workers let one answer arrive after
the other tripped the breaker. Three threads let one wait while two cross their locks.
For the control plane, the requests' numbers are their order of arrival and `MCOps` gives each a
menu, so that two writers of the one run (one of them span by span) and a reader after them
occur in every order, as do an apply of each recommendation and a health probe that fails. Runs
do not interact, so one is enough; one broken connection shows a statement that was executed
and one that was not, and after it the store is read again.
The collector's buffer of 3 wraps in the middle of a batch of 2, as 1000 does for 6 GPUs;
the second batch pushes a sample of the first one out of it, and two slow POSTs exceed the scrape's window, as
ten hot GPUs on a dead endpoint do in the code (31 s and more). Its loop ends after
`LastBatch` batches, as it does in `AIRUN_TEST_MODE`. A GPU is read in the second it is stamped in
or in the next (`ReadTimes`), so that a window may begin or end between two GPUs of one batch.
Of the readings one is starved and hot, one is idle but for its bus (700 MB/s), and one
exceeds what 32 bits hold of bytes (8200 MB/s, kept as 8).

A third grade is the first to count and a fourth the first to change a measured quality; the
grades (0.7 and 1) move each model over and under the thresholds of the policies, one of which
no model meets. Grades per model are the only count the router's model bounds.

The commands read and compute, so the scenarios of `airun` enumerate what they depend on:
`Forks` has every placement of three spans below a root, side by side, touching, overlapping by
the tolerance of 5 ms and by more, of no duration, and below each other; `Odd` an unended span,
a foreign parent, two roots and a cycle; `Outcomes` every combination of failed root, failed and
retried steps, known, unknown and partially matching models, given and missing costs; the
telemetry lies on both sides of each threshold. Conversations have up to three messages of five
kinds, two of which carry more than a content (a call of a tool, and its answer), since a mapping
looks at one message at a time and at whether there is a system prompt.
Three processes are a traced run, a command that resolves two aliases, and a second producer:
that is a save between the two listings, before, after, or lost. `Payload` brings two traces and
`Rest` a later part of one of them; `Delivery(3)` and
`Delivery(1)` are one trace sent twice with different beginnings, around a comparison. The backend
matters to what is kept of a span and to the order of a listing only; `MCAirun.cfg` with
`Backend = "jsonl"` passes too. One history entry is the bound at which every publish pops,
three messages nest a reaction in a reaction or beside another thread's message; two dispatchers
and one listener that may be cancelled show every race on the count that `join()` waits for.

`TypeOK` is an invariant of `resilience` only. The other modules state theirs as the type of
their variables; it is proved of the providers' breakers, the collector and the control plane
(`TypeCorrectness` of the last two), is part of the invariants of the tracer and of the Rust breaker,
and can be checked in any run by adding `INVARIANT TypeOK`.

Deadlock is checked except in the tracer runs, where the host program ends, in the
collector breaker's, where the code really stops, in the collector's, whose loop ends, in the
control plane's, whose requests are finitely many, and in `airun`, whose commands end.

## Fairness

* `ResilienceManager`: workers keep asking (`WF` of `Select`), a call that keeps being
  answered is once not dropped (`SF` of `Complete`: a worker may abandon calls, but not for
  ever), and the clock advances (`WF` of `Tick`). Nothing forces traces to be evaluated or
  providers to change; `PrimaryRecovers` assumes instead that from some time on every call
  ends well, in which case no evaluated trace is degraded either.
* `CollectorBreaker`: `SF` of each thread's step: a thread is scheduled, and `RwLock` hands
  a lock that is released again and again to everyone who waits for it (it may prefer
  readers or writers, but all of these are writers).
* `ControlPlane`: the event loop runs what is ready (`WF` of `Resume`), connecting ends or
  times out (`WF` of `Startup`; `connectionTimeoutMillis`, `db.ts:70`), `pool.end()` resolves
  once all connections are returned (`WF` of `EndClose`), and a statement that was sent is
  executed or its connection breaks (`WF` of `Database` while it is outstanding). Nobody must
  send a request or close the store.

## What the stores' model shows of the code

`JsonlStore` lets two clients save one trace at once, as two requests of the threaded server may
(`server/__init__.py:164-178`; every request has a thread of its own, `:605`). `jsonl.py:32` opens
the file with "w": the second save truncates the file under the first, and each goes on from its own
offset. What the file then holds - one record, one record with bytes of the other behind it, a hole,
parts of both - is one of the outcomes of `Written`, and stays when both have returned, where
`store/base.py:17` says "Persist a complete trace record." So `DamageHasACause` names the causes: an open
file, a save that ended by a crash, or two at once (without `overlapped` TLC finds it violated); the
next save that has the file to itself repairs it.
`get_trace()` of such a file raises, or returns a part of a record as if it were whole, and
`UndisturbedGetIsRight` says nothing of a get that may answer with a damaged trace. The SQLite
backend has none of this: a save is one transaction. A deletion may be followed by the end of a save that
began before it: on Linux the save then writes to a file that has no name any more.

## What the control plane's model shows of the code

`StoresAgree` and `ReadsFollowWrites` carry ghosts that name what they exempt, because the
code gives no more: after a failed statement, a broken connection, a failed health probe or a
change of `isConnected` (a disturbance), what was written before may be in the store that is
no longer read, and nothing copies it over; `isConnected` never becomes true again. Two writes
of one run that are on their way at once (a race) may reach Postgres in the other order than
memory. An apply is announced, and answered as applied, whatever `applyRecommendation()`
returned (`index.ts:142`); what holds is that a recommendation known to memory was applied in
one of the stores. The model leaves out that `ON CONFLICT` keeps some columns of the first write
(`achieved_tflops`), that a total of 0 is shown as 14.20 with Postgres only (`Number(x) || 14.20`),
and that `deploy/postgres/schema.sql` declares UUID keys where `db.ts` writes strings, with
which every statement may fail: to the model that is a store whose statements break.

## What the collector's model shows of the code

A span that began before the oldest sample kept is diagnosed from what is left: with samples
of one GPU gone and those of another kept (`RingIsTheNewest` allows it), a span may be found
starved although a GPU moved data at its time. `DiagnosisIsJustified` asks that only of spans
the buffer covers. A failed POST is lost and reported as published. Samples are taken once a
second at best, where `SPECIFICATION.md:180` and `:297` say ten times (`main.rs:239`); no
property is about the rate. `nccl_barrier_wait_ms` is a constant of 8.2 or 15, so that the
diagnosis of NCCL overhead, which needs more than 30, cannot occur, and a node without
drivers is always diagnosed as starved (`dcgm.rs:155`, `:160`).

NVML counts the bus in KB/s, and `dcgm.rs:109` multiplies the `u32` by 1024 before it widens it.
From 4 GB/s on a release build keeps the remainder: `Samples` have the traffic that went over the bus
(`bus`) beside the reading that is kept. No kept reading reaches the 7000 MB/s of
`pcie_bus_saturation`, which NVML readings hence never lead to, and a busy bus may be found idle;
`DiagnosisIsJustified` says so (a starved span's readings were low *or did not fit*), where the
finding's text says that the bus "remained idle" (`otlp.rs:119`, `SPECIFICATION.md:68`); without the
second case TLC finds it violated. A debug build panics instead (`Overflow`). A GPU is stamped when it is read (`dcgm.rs:98-100`), so that
the edge of a scrape's window may fall inside a batch and leave out the GPUs before it, though their
newest samples are in the buffer: `ScrapeShowsTheNewest` allows that and nothing else. The duration
of a span that ends before it starts wraps (`otlp.rs`); its window is empty, and so no
finding comes with such a duration.

A scrape writes a line for each sample of its window, so about thirty with one set of labels for
each GPU at one batch a second, where the exposition format admits one (`prometheus.rs:28`).

## What the router's model shows of the code

A shadow test answers the caller with a model of up to 8 % less quality than the policy asks
for, outside its latency and cost limits too, unless the policy turns shadow tests off
(`eval_router.py:113-124`); `MeasuredQualityDecides` states that bound, not the "Never drop below
95%" of `eval_router.py:9`. When no model meets a policy, the soundest one is chosen whatever
its cost and latency (`frontier.py:209`). The flag `is_pareto_optimal` is computed once from the
catalog (`frontier.py:174`) and not read by the router. A policy's `candidate_pool` is read by
nothing. Rates are left out: any request with shadow tests enabled may become one. Grades are
multiples of 0.0001, and a mean is rounded half up.

## What the models of commands and events show of the code

Each of these is in the models as the code has it; no property claims otherwise.

* `airun recommend` names a cluster without a free GPU when no cluster has enough
  (`cli/main.py:1047`).
* The web server's comparison hands summaries to a function of records, which raises
  (`server/__init__.py:477`).
* `/metrics` sums the newest listing, so that its counters fall when traces are deleted or there
  are more than it lists (`server/__init__.py:242`).
* A model is priced by the first name of the table that contains its name or is contained in it:
  `gpt-4o-mini-2024...` costs what `gpt-4o` does (`pricing/engine.py:76`),
  where the comment at `:74` expects the price of `gpt-4o-mini`. `pricing.yaml` is
  written by `init` and read by no caller (`engine.py:113`).
* Outcomes per energy and per cost divide by no less than one outcome, of a run without any too
  (`pricing/energy.py:254`, `:274`).
* The share of time spent eagerly is charged without a bound (`analysis/waste.py:317`): the waste is at
  most 102 % of the bill, or, if some sample was eager for more than 25 % of its time, 77 % and as much of
  it as that was. `WasteIsAccounted` states both bounds; at 40 % the code charges up to 117 %.
* The JSONL store lists by the time of a file's last change (`store/jsonl.py:94-96`): of two runs side by
  side `latest` is the one that was saved last, not the one that began last, and `compare previous
  latest` may read from the newer to the older. `CompareIsForward` is about SQLite (with JSONL
  it asks nothing, and `airun_listing` shows the listing); a trace that is sent again with another beginning moves in the order, and a
  comparison that looked a trace up before is not asked about it. Files changed at one instant are
  ordered as they were changed.
* A failover to Anthropic or Google takes the system prompt out of the messages, and `map_messages()`
  knows no way back: a second failover, to OpenAI, has no prompt (`resilience/semantic_mapper.py:50-59`).
  It also drops every field of a user's or an assistant's message but role and content, as calls of
  tools and names (`:60-65`). `FailoverKeepsTheConversation` states what is kept, and that the prompt
  survives a second failover if it was not taken apart, and claims nothing of the other fields.
* `correlate_span` compares times as they come, ISO strings or numbers (`correlation.py:120`);
  the model has numbers.
* A drill without an explicit fallback model is judged by the figures of Gemini for every
  fallback provider but Anthropic, OpenAI too (`resilience/dr_drills.py:81`).
* The pipeline does not look at the samples that its payload brings (`analysis/pipeline.py`).
* `clear()` of the asynchronous bus takes events out without `task_done()`, and so does a
  cancelled dispatcher: a `join()` after either never returns (`events/pubsub.py:173`). What
  holds, and is checked, is that one which returns is right.
* `cooldown_seconds` of a remediation rule is consulted by nothing.

In `Sessions` a save is one step: it happens or fails (`LoseRun`, `ImportFails`). That is what SQLite
does; a JSONL save that ends halfway or overlaps another is in `JsonlStore`. No command and no request
deletes a trace, so that between two listings of one command traces are only added or replaced.

## Proofs

`ResilienceManager_proofs` proves, for every chain, set of workers, list of rules and all
thresholds: `TypeCorrect`, `CountersSafe`, `OpenOnlyHalfOpensThm`, `RecoveryIsEarnedThm` and
`FirstHealthyProviderThm`, each `FairSpec => ...` or `Spec => ...` for a property of the run
`resilience`. They assume only `BreakerAssumption` (thresholds are positive) and
`ManagerAssumption` (the chain is not empty, trip rules name providers).

The inductive invariant is `IInv == TypeOK /\ CountersMatchState`. `TypeOK` alone is not
inductive: a half-open breaker's successes stay within their range only because it never
holds all it needs, and the ghost `streak` only because it equals that count. The lemmas go
from one breaker (`TripSound`, `ProbeSound`, `CountSuccessSound`, `RecordOutcomeSound`) to one
action (`SelectIInv`, `CompleteIInv`, `EvaluateTraceIInv`, `TickIInv`) to `NextIInv`; the
action properties follow from the invariant and the same lemmas. `SelectedIsFirst` uses that
a non-empty set of naturals has a least element.

`CollapseTripsThm` needs one thing of the list of rules, `AlertsComeLast`: after a rule that
alerts there is none that trips. A webhook that raises ends the pass (`evaluate_trace()` does not
catch it), and what later rules were to trip stays closed. `DefaultRulesTrip` is the corollary for `_default_rules()`, which are
such a list.

`TraceStores_proofs` proves `DamageHasACauseThm`, `ImplementsThm` (the refinement of
`TraceStore`, whichever backend) and `UndisturbedGetIsRightThm`, for any clients, traces,
records and number of saves, overlapping ones included. They assume `TokensAssumption` (the values for
"nothing" and "damaged" are no records, files or rows), `RecordsAssumption` (a trace has finitely many
spans) and `PrefixedAssumption`. The invariant is written for a backend at a
time, since the two keep a trace's completeness in different places. `SqliteOK` says that what
is committed is consistent, that only the holder of the write lock is past its first statement,
and that its draft is what is committed with its statements so far applied. `JsonlOK` says of each file
that it is complete, or open for writing, or was left by a save that crashed or by two that overlapped;
and that one which no two saves had open at once begins with the record of its only opener and
has nothing behind it - which is what makes the end of that save the complete record. `OpsOK` ties what a
client still has to do to the method it is in, and `SteadyOK` is what an undisturbed `get`
relies on: no trace it may name is damaged, and what it found so far is what is stored.

`ControlPlane_proofs` proves `PoolSafety`, `StoresAgreeThm`, `ReadsFollowWritesThm` and
`AppliedIsAppliedAndAnnouncedThm`, for any callers, runs, recommendations, WebSocket clients and
breaks. `PostgresStoreAssumption` says that callers are numbered, that an insert brings
at least one run, and that runs are not recommendations. `ConnectedHasPool` alone is not
inductive: `init()` sets `isConnected` long after it looked at the pool, so `PoolOK` adds that
while `starting # "done"` there is a pool. That holds because `EndClose` waits for the
connection `init()` holds.

`StoreInv` adds to it what each statement's state says of the maps and the tables: the maps
hold a caller's run from the moment its statement is sent (`CallsOK`, `MemoryOK`); a statement
that is done has been executed, and one that is only sent may have been (`QueriesOK`,
`ExecutedOK`); while connected, tables and maps agree on a run that no two callers raced for
(`AgreeOK`). For reads, `SettledOK` says that what an answered write stored stays where reads look
for it, and `UndisturbedOK` what a caller that lost no connection relies on while it waits
(`Relies`). `AnnouncedInv` is about the gateway: a client that was connected when a request arrived still
is, and what is applied or announced stays so (`Keeps`).

`Collector_proofs` proves `RingIsTheNewestThm` and `WindowIsCompleteThm` for any capacity but 0,
any number of GPUs, readings and delays. The first is inductive with types only
(`PushKeepsTheNewest` is the step). The second needs that samples are taken and pushed in the order of
their times (`InOrder`, of those in the buffer with those of the batch in hand): a sample pushed out is
then no newer than the oldest one kept.

`DiagnosisIsJustifiedThm` follows from these by cases over what `CorrelateSpan` can answer
(`BottleneckCases`), with what a kept reading says of the bus. `ScrapeShowsTheNewestThm` is about ages:
a scrape that finds nothing in its window shows the last day. `AgeInv` bounds the age of the newest sample
of every GPU: a GPU is read within a second (`BatchFits`), a post takes at most three and the pause one
(`OutboxFits`, `Lag`), so that until the next batch is in the buffer a sample grows no older than
`2 * NumGpus + 3 * (NumGpus + 1) + 1` seconds. The theorem's hypothesis, `NumGpus <= 17279`, is that this
is no more than a day.
`HotSamplesAreAnnouncedThm` accounts for messages: `ToldInv` says that what was sent, with what is
in the outbox, is what the collected batches call for, and that successive batches are of
different times (`Apart`), so no two alerts are taken for each other. Alerts and averages are folds. The library's induction theorems cannot be
instantiated (see below), so `FoldExists` and `SubsetInduction` argue by the smallest
counterexample instead: a least natural exists, hence folds unfold (`SumsUnfold`, `AlertLists`).

`QueueAndRouter_proofs` proves `MeasuredQualityDecidesThm` and `SelectedIsOptimalThm` for any catalog,
callers, policies and grades that satisfy `EvalRouterAssumption`. The invariant is that each profile's quality is what its grades
say (`quality[m] = Truth(m)`), with the bound on the sums that keeps a mean within 0 and 1.
`OptimalModel` is the lemma about `find_optimal_model()`; the second theorem also needs
`CatalogAssumption`: of two models of one cost, the first is chosen even if the other is
better or faster (`frontier.py:213`).

`CollectorBreaker_proofs` proves `LinearizableThm`, that the breaker lock by lock implements
`AtomicBreaker` under the refinement mapping of the run `collector_breaker`, and
`ClosedIsBelowThresholdThm`, both for any threads, threshold and cooldown. A method takes effect
where, inside its locks, it has decided (`Observe`, `Reset`, `Count`); the writes after it are
stutters, because the mapping shows the breaker as already written. The invariant adds to
`TypeOK` that whoever is about to change the state holds its lock (`ChangersHoldState`): no other
method decides meanwhile.

`Asyncio_proofs` proves `StackMirrorsNestingThm`, `SavedIsTreeThm`, `OwnParentEnclosesThm`,
`FailuresReachTheRecordThm` and `OwnSpansAreSavedThm` from `TracerAssumption` alone, for any tasks, spans, ways of starting tasks and exceptions. The
first needs, for the reset at the end of a root, that exactly the outermost with-block of a task
that inherited nothing opened a trace (`Nested`). The second holds of what is stored because
it holds of what every context has collected (`Grown`): the stack is part of it, each span's
parent is in it before the span, and all are of the context's trace. `PushGrows` and `PopGrows`
are the two steps; `GrownStays` says that others cannot disturb it, since a span's parent and
trace are never rewritten (`SameOrigins`). The third needs a second invariant on top, `Encloses`:
the open spans of a task are those of its with-blocks, each the parent of the next, and what it
inherited is not its own, since a task that is created has no spans yet. The fourth adds that
stored spans have ended (`Judged`), which needs that a task that inherited nothing collects
its own spans only (`Owns`): when its root ends, all of them have. The fifth, an action property,
adds the converse (`Gathers`): such a task has collected all of its own spans since its root.

`QueueAndRouter_proofs` proves `HistoryIsTheNewestThm` and `DeliveredOnceThm` of the event queue, for any
threads, handlers, reactions and limits (`QueueAssumption`). The invariant is about the stacks of nested `publish()` calls:
a message is in one call only, only the innermost call of a thread is not calling handlers, and
what the history holds in excess is accounted for by the calls that have appended and not trimmed.

`Asyncio_proofs` also proves `JoinMeansAnsweredThm` of the asynchronous bus and its engines, for any dispatching
tasks, listeners, finitely many engines, workloads and number of envelopes, from
`PipelineAssumption`: engines are finitely many and no listeners, and the records of a command are
not `None`. An envelope is open while it is queued or dispatched, in one place at a time (`Placed`).
The unfinished tasks are at least the open envelopes (`Counted`), and more as soon as one was
dropped by `clear()` or a cancellation, since neither reports it as done. A queued trace has
reached no engine (`Fresh`), a dispatched one those that its task has called (`Going`), and, while
none was dropped, every other one all engines (`Settled`). A handler that publishes during its own
dispatch only adds open envelopes (`JoinedInv`); `Done` is the step that settles one.

`Airun_proofs` is about `Sessions`, for any processes, scenarios, prices and patterns. They assume
`TablesAreFull` (every model and accelerator of the tables has its rates), `NoneIsNoPattern`,
`ReferencesAreNoIds` (aliases are no ids, and the ids that come by OTLP are none of the tracer's),
`ScenariosAreWellFormed` (arguments have the types the commands take) and `BackendAssumption`.
`StoreThm` gives the two invariants that the others build on. `ShownInv` says that a command stays
what it was and that what it has shown is its operator's result. `StoreInv` says of ids that no two
processes have the same (`IdsInv`, `OwnInv`), of work that what is left is part of the command
(`LeftInv`), of records that each was created when its first span began or came (`CreatedInv`), and that
what is posted and what is kept is of a run or of one trace of one request (`PostedInv`, `KeptInv`).

* `StoredIsOneDeliveryThm` and `FileNamesOwnTraceThm` follow with, for the second, that what a
  script has saved last is what its file names (`FilesInv`).
* `CompareIsForwardThm` is about what was looked up before the store changed. `CompareInv` says what
  a comparison has looked up and read so far, and that the first trace is then the older one: the second
  is the newest of the listing that it is looked up in. A record that replaces another
  keeps its instant (`CreatedInv`); traces that are sent with several beginnings are exempt. `ListedInv` says that the files are those of stored traces.
* `SummaryAgreesWithSpansThm` and `CriticalPathIsLongestThm` (with `ReportInv`: the report shows a
  record of the store) are about sums and about the dynamic program over siblings.
  `WasteIsAccountedThm`, `HealthyMeansNoWasteThm` and
  `FailoverKeepsTheConversationThm` need `ShownInv` and lemmas about the operators only.

Recursive functions and folds over data are argued by a least counterexample (`LeastOf`), as in
`Collector_proofs`: if a sum, a selection or an entry of the table were wrong, there would be a
first one that is, and its predecessor is right.

Only model-checked: liveness under fairness (`PrimaryRecovers`, `CallsReturnOrCross`,
`Quiesces`). Three things no theorem here can state: liveness and
`ENABLED`, which the temporal backend does not reach; induction over data, since the library's
induction theorems take an operator as a parameter; and `RECURSIVE` operators, which no module
here has.

## Not modelled

* Reports (`exporters/html_report.py`, `json_export.py`), the terminal's tables and the pages'
  HTML: layout of figures that `CommandReports` has. `doctor`, argument parsing and the
  configuration are I/O read once.
* The SDK wrappers open a `TraceContext` around a client's call, which `Tracer` models, and copy
  counts from the answer; redaction is a list of regular expressions.
* `incident/graph.py` returns one of two graphs that are written out (`graph.py:67`).
* `ebpf.rs` is a kernel interface with constant samples beside it.
* Of the control plane, clusters, placement and the canned cost reports, which keep to memory
  and involve no second party; of the vLLM integration and the benchmarks, the network client and
  the timing loops.
* A generator that leaves its with-blocks out of their nesting order (`sdk/context.py:62`).

## What could follow

The length of a whole critical path, which descends a graph that may have cycles; JSONL saves that overlap or
end halfway inside `Sessions`; the control plane's clusters; tasks of the tracer that leave with-blocks out of order.
