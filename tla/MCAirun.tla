--------------------------------- MODULE MCAirun -------------------------------
(***************************************************************************)
(* An instance of Airun for TLC.  Each set of scenarios asks one kind of   *)
(* question; most have one process, those with three are about what runs   *)
(* side by side.                                                           *)
(***************************************************************************)
EXTENDS Airun

CONSTANTS p1, p2, p3, t70, t80

MCSimilar ==
  {<<"gpt-4o", "gpt-4o-mini-2024">>, <<"gpt-4o-mini", "gpt-4o-mini-2024">>,
   <<"gpt-4", "gpt-4o-mini-2024">>, <<"a100", "a100-80gb">>}

MCMarks == {<<d, d>> : d \in Range(Dialects)} \cup {<<"google", "gemini">>}

\* A span of a trace.
Step(parent, name, kind, start, dur) ==
  [parent |-> parent, name |-> name, kind |-> kind, start |-> start,
   end |-> start + dur, dur |-> dur, status |-> "success", model |-> None,
   provider |-> None, accel |-> None, input |-> 0, output |-> 0, retry |-> 0,
   cost |-> None, quality |-> None, energy |-> None, error |-> FALSE]

Llm(parent, start, dur, model, input, output) ==
  [Step(parent, "llm_call", "llm", start, dur)
     EXCEPT !.model = model, !.provider = "openai", !.input = input, !.output = output]

MCDemoRun ==
  << Step(None, "workflow", "workflow", 0, 9), Llm(1, 1, 4, "gpt-4o", 1420, 380),
     [Step(1, "web_search", "tool", 5, 2) EXCEPT !.retry = 1, !.status = "retry"],
     Llm(1, 7, 2, "gpt-4o-mini", 2850, 520) >>

-----------------------------------------------------------------------------
(* Commands *)

Command(op, refs, arg) ==
  [op |-> op, arg |-> arg, runs |-> <<>>, exports |-> FALSE, refs |-> refs]

\* Only the demonstration reads its own trace.
Run(op, runs, exports) ==
  [Command(op, IF op = "demo" THEN <<Own>> ELSE <<>>, None)
     EXCEPT !.runs = runs, !.exports = exports]

NoFile == [p \in Processes |-> None]

\* Scenarios of one process.
Alone(stores, commands) ==
  {[runs |-> runs, file |-> NoFile,
    commands |-> [p \in Processes |-> IF p = p1 THEN command ELSE NoCommand]] :
     runs \in stores, command \in commands}

-----------------------------------------------------------------------------
(* Traces of up to four spans, siblings side by side or one after the other. *)

Times == {<<0, 6>>, <<0, 12>>, <<4, 6>>, <<7, 6>>, <<13, 6>>, <<3, 0>>}

Forks ==
  {<<Step(None, "root", "workflow", 0, 20), Step(1, "a", "tool", x[1], x[2]),
     Step(b, "b", "tool", y[1], y[2]), Step(c, "c", "agent_step", z[1], z[2])>> :
     x \in Times, y \in Times, z \in Times, b \in {1, 2}, c \in {1, 2}}

\* A span that has not ended, one of another trace, two roots, and no root at all.
Odd ==
  {[spans EXCEPT ![3].end = None] :
     spans \in {<<Step(None, "root", "workflow", 0, 20), Step(1, "a", "tool", 0, 6),
                  Step(1, "b", "tool", 4, 12)>>}}
    \cup {<<Step(None, "root", "workflow", 0, 20), Step(9, "a", "tool", 0, 30)>>,
          <<Step(None, "a", "workflow", 0, 5), Step(None, "b", "workflow", 5, 7)>>,
          <<Step(2, "a", "tool", 0, 5), Step(1, "b", "tool", 0, 7)>>}

\* Runs whose steps fail, cost and retry.
Outcomes ==
  {<<[Step(None, "root", "workflow", 0, 900) EXCEPT !.status = root, !.quality = quality],
     [Llm(1, 0, 300, model, input, 80) EXCEPT !.status = first, !.cost = cost],
     [Step(1, "data_load", "tool", 300, 600) EXCEPT
        !.status = second, !.retry = IF second = "retry" THEN 3 ELSE 0, !.accel = accel],
     Llm(1, 400, 450, "gpt-4o", 9000, 40)>> :
     root \in {"success", "failure", "timeout"}, quality \in {None, 900},
     model \in {"gpt-4o-mini-2024", "local-llama-3-8b", "unheard-of", None},
     input \in {0, 200}, first \in {"success", "failure"}, cost \in {None, 70000},
     second \in {"success", "timeout", "retry"}, accel \in {None, "a100-80gb"}}

OneTrace == {<<MCDemoRun>>}

\* What the commands for one trace read.
Loaded == {<<Step(None, "root", "workflow", 0, 20), Step(1, name, kind, 0, 6),
             Llm(1, 6, 9, "gpt-4o", input, 100), Step(1, name, "tool", 7, 6)>> :
             name \in {"data_load", "nccl_sync", "copy", "plan"},
             kind \in {"tool", "agent_step"}, input \in {500, 9000}}

TraceCommands(refs) ==
  {Command(op, refs, None) : op \in {"show", "report", "detail", "metrics", "golden",
                                     "diagnose", "agent"}}

AcceleratorCommands(refs) ==
  {Command(op, refs, "h100") : op \in {"policy", "hardware", "waste"}}
    \cup {Command("export", refs, format) : format \in {"json", "otel"}}

PageCommands(refs) == {Command(op, refs, "h100") : op \in PageOps}

ListCommands ==
  {Command(op, <<>>, None) : op \in {"list", "money_leak", "scrape", "summary",
                                     "executive", "live"}}

\* What is measured of GPUs: near the thresholds of the diagnosis.
Sample(sm, pcie, nccl, cpu) ==
  [time |-> 0, sm |-> sm, power |-> 500, pcie |-> pcie, nccl |-> nccl, cpu |-> cpu]

Telemetry ==
  {<<Sample(sm, pcie, nccl, cpu)>> : sm \in {30, 54, 55, 60, 64, 65, 90},
     pcie \in {500, 599, 7000, 7001}, nccl \in {0, 30, 31, 90}, cpu \in {50, 90}}
    \cup {<<Sample(sm, pcie, 0, 50), Sample(90, 500, nccl, 50)>> :
            sm \in {20, 45, 65}, pcie \in {500, 8000}, nccl \in {0, 31}}

Fabrics == {<<>>, <<[drops |-> 6, pause |-> 0]>>}

Averaged(sm, pcie, nccl, cpu, eager) ==
  [sm |-> sm, pcie |-> pcie, nccl |-> nccl, cpu |-> cpu, eager |-> eager]

Detections ==
  {[samples |-> samples, accelerator |-> "h100", gpus |-> gpus, duration |-> 3600000,
    cost |-> cost] :
     samples \in {<<>>}
       \cup {<<Averaged(sm, pcie, nccl, cpu, eager)>> :
               sm \in {0, 40, 60, 69, 75}, pcie \in {200, 500, 9000, 16000},
               nccl \in {0, 30, 90, 200}, cpu \in {50, 80}, eager \in {0, 9, 25, 60}},
     gpus \in {1, 8}, cost \in {None, 1000000}}

-----------------------------------------------------------------------------
(* What reads no trace *)

Said(role, content) == [role |-> role, content |-> content, more |-> {}]

\* An assistant's message that calls a tool, and the tool's answer.
Calling == [Said("assistant", "") EXCEPT !.more = {"tool_calls"}]
Told == [Said("tool", "42") EXCEPT !.more = {"tool_call_id"}]

Conversations ==
  UNION {[1..n -> {Said("system", "be brief"), Said("system", "be kind"),
                   Said("human", "hello"), Calling, Told}] :
           n \in 0..3}

Mappings ==
  {[messages |-> messages, provider |-> provider, temperature |-> 15,
    tool |-> [shape |-> shape, name |-> "search", params |-> params]] :
     messages \in Conversations, provider \in {"anthropic", "gemini", "openai", "other"},
     shape \in {"function"}, params \in {"schema"}}
  \cup
  {[messages |-> <<Said("user", "hello")>>, provider |-> provider, temperature |-> t,
    tool |-> [shape |-> shape, name |-> "search", params |-> params]] :
     provider \in {"anthropic", "gemini", "openai"}, t \in {-1, 15, 30},
     shape \in {"function", "input_schema", "parameters"}, params \in {"schema", "empty"}}

Drills ==
  {[primary |-> primary, fallback |-> fallback, primaryModel |-> None,
    fallbackModel |-> model, fault |-> fault, live |-> live, took |-> 900] :
     primary \in {"openai", "anthropic"}, fallback \in {"anthropic", "gemini"},
     model \in {None, "llama-3-1-8b", "unheard-of"},
     fault \in {"outage_500", "latency_spike", "quality_collapse", "unknown"},
     live \in {"no", "unexecuted", "raises", "ran"}}

Fleets ==
  {<<Cluster("a", "gcp", "h100", 64, a, 400, 460), Cluster("b", "aws", "h100", 32, b, 200, 420),
     Cluster("c", "aws", "a100", 64, 0, 5, 300)>> : a \in {0, 60, 64}, b \in {0, 30, 32}}

Placement == [id |-> "a", rate |-> 400, hourly |-> 3200, score |-> 1150]

Recommended ==
  {[placement |-> placement, reply |-> reply,
    wanted |-> [gpus |-> gpus, accelerator |-> accelerator, maxRate |-> rate]] :
     placement \in {None, Placement}, reply \in Fleets \cup {None},
     gpus \in {1, 4, 8}, accelerator \in {"h100", "a100", "b200"}, rate \in {None, 300}}

Overviews ==
  {[overview |-> overview, reply |-> reply] :
     overview \in {None}, reply \in Fleets \cup {None, <<>>}}

ClusterFilters ==
  {[reply |-> reply, provider |-> provider, accelerator |-> accelerator] :
     reply \in {None}, provider \in {None, "aws"}, accelerator \in {None, "h100"}}

Benchmarks ==
  {[engines |-> engines,
    gates |-> [p95 |-> p95, p99 |-> None, cost |-> cost, tokens |-> tokens]] :
     engines \in {<<>>, <<"tensorrt", "other">>},
     p95 \in {None, 1500}, cost \in {None, 280}, tokens \in {None, 800}}

Request(ttft, queue, swapped) ==
  [ttft |-> ttft, queue |-> queue, swapped |-> swapped, pcie |-> 500, dram |-> 80, sm |-> 50]

Servings ==
  {<<>>} \cup {<<Request(20, queue, swapped), Request(30, 10, 0)>> :
                 queue \in {5, 900}, swapped \in {0, 1}}

Utilizations ==
  {[tokens |-> tokens, billions |-> 8, training |-> training, duration |-> 3,
    accelerator |-> "h100", gpus |-> 1] :
     tokens \in {10, 30, 300}, training \in BOOLEAN}

Gpus ==
  {[sm |-> sm, memory |-> memory, mfu |-> mfu, bus |-> bus, throttled |-> throttled,
    errors |-> errors, nccl |-> nccl] :
     sm \in {30, 48, 90}, memory \in {50, 90}, mfu \in {None, 40}, bus \in {5, 90},
     throttled \in BOOLEAN, errors \in {0, 9}, nccl \in {0, 40}}

Addresses ==
  {[host |-> host, port |-> 8765, free |-> free] :
     host \in {"0.0.0.0", "127.0.0.1", "10.0.0.1"},
     free \in {{}, {<<"127.0.0.1", 8080>>}, {<<"0.0.0.0", 8765>>, <<"localhost", 5000>>}}}

Workspaces ==
  {[files |-> present, force |-> force] : present \in SUBSET {"config", "pricing"}, force \in BOOLEAN}

Calls(op, args) == Alone({<<>>}, {Command(op, <<>>, arg) : arg \in args})

-----------------------------------------------------------------------------
(* What runs side by side *)

Wire(trace, name, parent, start, code) ==
  [trace |-> trace, name |-> name, parent |-> parent, start |-> start, end |-> start + 3,
   kind |-> None, model |-> IF name = "chat" THEN "gpt-4o" ELSE None, provider |-> None,
   input |-> 100, output |-> 20, cost |-> 0, code |-> code]

\* Two traces of one request, the first untimed and one step failed; and the rest
\* of the second trace in another request.
Payload == <<Wire(t70, "chat", None, 0, 1), Wire(t80, "plan", None, 50, 2), Wire(t80, "chat", 1, 51, 1)>>
Rest == <<Wire(t80, "search", 1, 53, 1)>>

\* A trace that begins at start: at 2, when its request may come.
Delivery(start) == <<Wire(t80, "plan", None, start, 1), Wire(t80, "chat", 1, start + 1, 1)>>
Prompt == Delivery(2)

Short == <<Step(None, "job", "workflow", 0, 5),
           [Llm(1, 1, 3, "gpt-4o", 100, 20) EXCEPT !.status = "failure", !.error = TRUE]>>

Readers ==
  {Command("compare", <<Previous, Latest>>, None), Command("report", <<Latest>>, None)}

ReadersOfFirst == {Command("compare", <<1, Latest>>, None)}

Crowd(stores, ones, twos, threes) ==
  {[runs |-> runs, file |-> [NoFile EXCEPT ![p1] = file],
    commands |-> p1 :> one @@ p2 :> two @@ p3 :> three] :
     runs \in stores, file \in {None, 1}, one \in ones, two \in twos, three \in threes}

Stores == {<<>>, <<Short>>, <<Short, MCDemoRun>>}

MCScenarios ==
  << Alone({<<spans>> : spans \in Forks \cup Odd}, {Command("report", <<Latest>>, None)}),
     Alone({<<spans>> : spans \in Outcomes}, {Command("metrics", <<1>>, None)}),
     Alone({<<spans>> : spans \in Loaded},
           TraceCommands(<<Latest>>)), 
     Alone({<<spans>> : spans \in Loaded}, AcceleratorCommands(<<Latest>>)),
     Alone(OneTrace, {Command("correlate", <<1>>, [telemetry |-> t, fabric |-> f]) :
                        t \in Telemetry, f \in Fabrics}),
     Calls("detect", Detections), Calls("map", Mappings), Calls("drill", Drills),
     Calls("recommend", Recommended), Calls("overview", Overviews),
     Calls("clusters", ClusterFilters), Calls("bench", Benchmarks),
     Calls("serving", Servings), Calls("mfu", Utilizations), Calls("score", Gpus),
     Calls("serve", Addresses), Calls("init", Workspaces),
     Calls("span", {<<>>, <<Sample(40, 500, 3, 50)>>}),
     Alone(Stores, ListCommands), Alone(Stores, PageCommands(<<Newest>>)),
     Alone({<<>>, <<Short>>}, {Command("compare_page", <<1, 1>>, None),
                               Command("report", <<Previous>>, None)}),
     Alone({<<>>}, {Run("demo", <<MCDemoRun>>, TRUE), Run("seed", <<Short, MCDemoRun>>, FALSE)}),
     Crowd(Stores, {Run("run", <<Short>>, FALSE)}, Readers, {Run("seed", <<Short>>, FALSE)}),
     Crowd(Stores \ {<<>>}, {Run("run", <<Short>>, FALSE)}, ReadersOfFirst,
           {Run("seed", <<Short>>, FALSE)}),
     Crowd({<<Short>>}, {Run("run", <<Short>>, FALSE), Command("ingest", <<>>, Prompt)},
           {Command("compare", <<Previous, Latest>>, None)}, {Command("ingest", <<>>, Prompt)}),
     Crowd({<<Short, MCDemoRun>>}, {Command("ingest", <<>>, Delivery(3))},
           {Command("compare", <<Previous, Latest>>, None)},
           {Command("ingest", <<>>, Delivery(1))}),
     Crowd({<<Short>>}, {Run("run", <<Short, MCDemoRun>>, TRUE)},
           {Command("compare", <<Previous, Latest>>, None)}, {Run("seed", <<Short>>, FALSE)}),
     Crowd({<<Short>>}, {Run("run", <<Short>>, TRUE)},
           {Command("ingest", <<>>, payload) : payload \in {Payload}},
           {Command("ingest", <<>>, payload) : payload \in {Payload, Rest, Broken}}) >>

-----------------------------------------------------------------------------
(* The events *)

MCWorkloads == [load |-> <<Step(None, "data_load", "tool", 0, 40)>>]

MCReaction ==
  [h \in Handlers |-> IF h = "echo" THEN "metrics" ELSE IF h = "bad" THEN "raises" ELSE "returns"]
=============================================================================
