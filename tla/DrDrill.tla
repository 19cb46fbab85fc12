-------------------------------- MODULE DrDrill --------------------------------
(***************************************************************************)
(* The translation of a conversation between providers                     *)
(* (resilience/semantic_mapper.py) and the disaster-recovery drill that    *)
(* uses it (resilience/dr_drills.py).  A message is a role, a content and  *)
(* the names of what more it carries, such as the calls of tools; a tool   *)
(* is a record of its shape, name and parameters: a "schema", "empty", or  *)
(* the "any object" schema.  A temperature is in tenths.                   *)
(***************************************************************************)
EXTENDS Pricing

CONSTANT Marks   \* pairs of a dialect and a provider's name that contains its mark

Breaker == INSTANCE AIBreaker WITH FailureThreshold <- 1, HalfOpenSuccessNeeded <- 2,
                                   RecoveryTimeout <- 30

Dialects == <<"anthropic", "google", "openai", "local">>

\* normalize_provider()
NormalizeProvider(name) ==
  Or(First(Selected(Dialects, LAMBDA d : <<d, name>> \in Marks)), "openai")

Role(role, target) ==
  IF role \in {"user", "human"} THEN "user"
  ELSE IF role \in {"assistant", "ai", "model"}
  THEN IF target = "google" THEN "model" ELSE "assistant"
  ELSE role

\* A message of one of these roles is built anew from its role and content.
Rebuilt(m, target) ==
  IF m.role \in {"system", "user", "human", "assistant", "ai", "model"}
  THEN [role |-> Role(m.role, target), content |-> m.content, more |-> {}]
  ELSE m

Contents(messages) == [k \in DOMAIN messages |-> messages[k].content]

\* The messages that satisfy Kept, for a target, and the system prompt apart.
Translated(messages, Kept(_), target, system) ==
  [messages |-> Each(Selected(messages, Kept), LAMBDA m : Rebuilt(m, target)),
   system |-> system]

\* Faulty variant: of several system messages the last one is kept.
MessagesLastSystem(messages, target) ==
  LET system == Selected(messages, LAMBDA m : m.role = "system")
  IN  Translated(messages, LAMBDA m : m.role # "system", target,
                 IF system = <<>> THEN <<>> ELSE <<Last(system).content>>)

\* The messages, and the parts of the system prompt that the target takes apart
\* from them.
MessagesFor(messages, target) ==
  LET apart(m) == m.role = "system" /\ target \in {"anthropic", "google"}
  IN  Translated(messages, LAMBDA m : ~apart(m), target,
                 Contents(Selected(messages, apart)))

\* map_messages()
MapMessages(messages, provider) == MessagesFor(messages, NormalizeProvider(provider))

ToolFor(tool, target) ==
  [name |-> tool.name,
   params |-> IF tool.shape # "function" /\ tool.params = "empty" THEN "any"
              ELSE tool.params,
   shape |-> CASE target = "anthropic" -> "input_schema"
               [] target = "google" -> "parameters"
               [] OTHER -> "function"]

\* map_tool_schema().  A falsy schema that is not OpenAI's becomes any object.
MapToolSchema(tool, provider) == ToolFor(tool, NormalizeProvider(provider))

ParametersFor(target, temperature) ==
  [temperature |-> Lesser(IF target = "anthropic" THEN 10 ELSE 20, Greater(0, temperature)),
   tokens |-> IF target = "google" THEN "max_output_tokens" ELSE "max_tokens"]

\* map_parameters()
MapParameters(provider, temperature) ==
  ParametersFor(NormalizeProvider(provider), temperature)

-----------------------------------------------------------------------------
\* The outcome that a fault makes the breaker record, if the drill knows it.
Injected(fault) ==
  CASE fault = "outage_500" -> "error"
    [] fault = "latency_spike" -> "slow"
    [] fault = "quality_collapse" -> "low"
    [] OTHER -> None

Tripped(fault) ==
  LET breaker == IF Injected(fault) = None THEN Breaker!NewBreaker
                 ELSE Breaker!RecordOutcome(Breaker!NewBreaker, Injected(fault))
  IN  breaker.state = "open"

\* A model's profile; one that the catalog lacks gets default figures.
ProfileOf(model, default) ==
  IF model \in DOMAIN StandardModelCatalog THEN StandardModelCatalog[model] ELSE default

SyntheticMessages == <<[role |-> "system", content |-> "analyzer", more |-> {}],
                       [role |-> "user", content |-> "evaluate", more |-> {}]>>

SyntheticTool == [shape |-> "function", name |-> "calculate_var", params |-> "schema"]

PrimaryModel(drill) ==
  Or(drill.primaryModel, IF drill.primary = "openai" THEN "gpt-4o" ELSE "claude-3-5-sonnet")

\* A fallback that is not literally "anthropic" is judged by Gemini's figures.
FallbackModel(drill) ==
  Or(drill.fallbackModel,
     IF drill.fallback = "anthropic" THEN "claude-3-5-sonnet" ELSE "gemini-1-5-flash")

\* The change of a figure, in thousandths.
CostDelta(p, f) == RoundDiv(1000 * (f.cost \div 100 - p.cost \div 100), p.cost \div 100)

Advice(live, converted, costDelta, latencyDelta) ==
  (IF live = "raises" THEN {"live_error"} ELSE {})
    \cup (IF costDelta > 150 THEN {"rate_limit"} ELSE {})
    \cup (IF costDelta < -100 THEN {"promote"} ELSE {})
    \cup {IF latencyDelta > 150 THEN "timeouts" ELSE "parity"}
    \cup (IF converted THEN {"schema_verified"} ELSE {})

\* The report of a drill from a model of profile p to one of profile f.
DrillReport(drill, p, f, converted, latencyDelta) ==
  [tripped |-> Tripped(drill.fault), converted |-> converted,
   conversation |-> MapMessages(SyntheticMessages, drill.fallback),
   costDelta |-> CostDelta(p, f), latencyDelta |-> latencyDelta,
   retention |-> RoundDiv(1000 * f.quality, p.quality),
   continuity |-> Tripped(drill.fault) /\ converted /\ 1000 * f.quality >= 900 * p.quality,
   mode |-> IF drill.live = "no" THEN "simulated_catalog" ELSE "live_executed",
   advice |-> Advice(drill.live, converted, CostDelta(p, f), latencyDelta)]

Drilled(drill, p, f) ==
  DrillReport(drill, p, f,
    /\ MapToolSchema(SyntheticTool, drill.fallback).name = SyntheticTool.name
    /\ drill.live # "raises",
    (IF drill.live = "ran" THEN drill.took ELSE f.latency) - p.latency)

\* run_disaster_recovery_drill().  Live is "no", "unexecuted" (without an executor),
\* "raises", or "ran", which took some milliseconds.
RunDisasterRecoveryDrill(drill) ==
  Drilled(drill, ProfileOf(PrimaryModel(drill), ModelProfile(500000, 390, 950)),
          ProfileOf(FallbackModel(drill), ModelProfile(600000, 420, 940)))
=============================================================================
