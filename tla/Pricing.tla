-------------------------------- MODULE Pricing --------------------------------
(***************************************************************************)
(* What a step costs and how much energy it takes.  Money is in millionths *)
(* of a dollar, an hourly rate in cents, energy in thousandths of a joule, *)
(* time in milliseconds, a load in percent.  The built-in tables of prices,*)
(* accelerators, models and clusters are at the end, in those units.       *)
(***************************************************************************)
EXTENDS Quantities

CONSTANTS
  Models,         \* the priced models, in the order of the table
  ModelPrice,     \* model -> [input, output, perHour]: per 1000 tokens, per hour
  Accelerators,   \* the accelerator catalog, in its order
  Profile,        \* accelerator -> [idle, tdp, load, hourly, peak]
  Similar,        \* pairs of names, one of which is part of the other
  Generic         \* the accelerator that stands for an unknown one

\* The tables hold what their units say; an accelerator is not free.
ASSUME TablesAreFull ==
  /\ None \notin Nat /\ Models \in Seq(STRING) /\ Accelerators \in Seq(STRING)
  /\ \A m \in Range(Models) : ModelPrice[m] \in [input : Nat, output : Nat, perHour : Nat]
  /\ \A a \in Range(Accelerators) \cup {Generic} :
       Profile[a] \in [idle : Nat, tdp : Nat, load : Nat, hourly : Nat \ {0}, peak : Nat \ {0}]

\* The name itself if the catalog has it, else the first of the catalog that is
\* part of the name or has it as a part.
FirstMatch(catalog, name) ==
  IF name \in Range(catalog) THEN name
  ELSE First(Selected(catalog, LAMBDA key : \/ <<key, name>> \in Similar
                                             \/ <<name, key>> \in Similar))

PriceOf(model) ==
  IF model = None \/ FirstMatch(Models, model) = None THEN None
  ELSE ModelPrice[FirstMatch(Models, model)]

CostAt(price, input, output, duration) ==
  IF price = None THEN None
  ELSE RoundDiv(input * price.input + output * price.output, 1000)
         + RoundDiv(duration * price.perHour, 3600000)

\* CostEngine.calculate_cost().  An unknown model has no cost.
CalculateCost(model, input, output, duration) ==
  CostAt(PriceOf(model), input, output, duration)

\* get_accelerator_profile()
GetAcceleratorProfile(name) ==
  Profile[IF name = None THEN Generic ELSE Or(FirstMatch(Accelerators, name), Generic)]

\* Hundredths of a watt at the profile's typical load.
PowerDraw(profile) ==
  100 * profile.idle + Lesser(100, profile.load) * (profile.tdp - profile.idle)

\* With the default PUE of 1.2 and the default rate of 0.10 dollars per kWh.
EnergyOf(power, duration) ==
  [watts |-> RoundDiv(power * 6, 500), joules |-> RoundDiv(power * 6 * duration, 500),
   cost |-> RoundDiv(RoundDiv(power * 6 * duration, 500), 36000)]

\* calculate_energy()
CalculateEnergy(duration, accelerator) ==
  EnergyOf(PowerDraw(GetAcceleratorProfile(accelerator)), duration)

\* calculate_intelligence_per_dollar(), _per_watt(): useful output, of quality
\* 0..1000 and at least 50, for what was spent.  A failed run counts like one
\* success, since the outcomes are not less than 1.
Intelligence(quality, outcomes, spent) ==
  IF spent = 0 THEN None
  ELSE RoundDiv(1000 * Greater(50, IF quality = None THEN 1000 ELSE quality)
                  * Greater(1, outcomes), spent)

\* calculate_tokens_per_dollar(), calculate_tokens_per_kwh()
Throughput(tokens, spent) ==
  IF spent = 0 \/ tokens = 0 THEN None ELSE RoundDiv(10000 * tokens, spent)

-----------------------------------------------------------------------------
(* The built-in tables *)

\* A model's price of 1000 input and output tokens, and of an hour.
Price(input, output, perHour) == [input |-> input, output |-> output, perHour |-> perHour]

\* The models of DEFAULT_MODEL_PRICING in their order.
DefaultModels ==
  << "gpt-4o", "gpt-4o-mini", "gpt-4-turbo", "gpt-4", "gpt-3.5-turbo",
     "o1", "o1-mini", "o3-mini", "text-embedding-3-small",
     "text-embedding-3-large", "claude-3-5-sonnet-20241022",
     "claude-3-5-sonnet", "claude-3-opus", "claude-3-5-haiku",
     "claude-3-haiku", "gemini-1.5-pro", "gemini-1.5-flash",
     "gemini-2.0-flash", "mock-model", "local-llama-3-8b", "local-model" >>

DefaultModelPricing ==
  "gpt-4o" :> Price(2500, 10000, 0)
    @@ "gpt-4o-mini" :> Price(150, 600, 0)
    @@ "gpt-4-turbo" :> Price(10000, 30000, 0)
    @@ "gpt-4" :> Price(30000, 60000, 0)
    @@ "gpt-3.5-turbo" :> Price(500, 1500, 0)
    @@ "o1" :> Price(15000, 60000, 0)
    @@ "o1-mini" :> Price(3000, 12000, 0)
    @@ "o3-mini" :> Price(1100, 4400, 0)
    @@ "text-embedding-3-small" :> Price(20, 0, 0)
    @@ "text-embedding-3-large" :> Price(130, 0, 0)
    @@ "claude-3-5-sonnet-20241022" :> Price(3000, 15000, 0)
    @@ "claude-3-5-sonnet" :> Price(3000, 15000, 0)
    @@ "claude-3-opus" :> Price(15000, 75000, 0)
    @@ "claude-3-5-haiku" :> Price(800, 4000, 0)
    @@ "claude-3-haiku" :> Price(250, 1250, 0)
    @@ "gemini-1.5-pro" :> Price(1250, 5000, 0)
    @@ "gemini-1.5-flash" :> Price(75, 300, 0)
    @@ "gemini-2.0-flash" :> Price(100, 400, 0)
    @@ "mock-model" :> Price(100, 400, 0)
    @@ "local-llama-3-8b" :> Price(0, 0, 1200000)
    @@ "local-model" :> Price(0, 0, 1000000)

\* An accelerator's power in watts, idle and at most, its typical load in percent,
\* its hourly rate in cents, and its peak in TFLOPS.
Accelerator(idle, tdp, load, hourly, peak) ==
  [idle |-> idle, tdp |-> tdp, load |-> load, hourly |-> hourly, peak |-> peak]

\* The accelerators of ACCELERATOR_CATALOG in their order.
AcceleratorNames ==
  << "h100", "h100_pcie", "a100", "b200", "l40s", "tpu_v5e", "mi300x",
     "apple_silicon", "generic_cloud", "cpu" >>

AcceleratorCatalog ==
  "h100" :> Accelerator(120, 700, 75, 350, 989)
    @@ "h100_pcie" :> Accelerator(80, 350, 70, 280, 756)
    @@ "a100" :> Accelerator(80, 400, 70, 220, 312)
    @@ "b200" :> Accelerator(200, 1000, 80, 450, 2250)
    @@ "l40s" :> Accelerator(70, 350, 70, 150, 362)
    @@ "tpu_v5e" :> Accelerator(50, 250, 70, 120, 197)
    @@ "mi300x" :> Accelerator(150, 750, 75, 320, 1300)
    @@ "apple_silicon" :> Accelerator(5, 35, 55, 15, 38)
    @@ "generic_cloud" :> Accelerator(60, 300, 70, 180, 250)
    @@ "cpu" :> Accelerator(15, 65, 50, 20, 2)

\* A model's cost of a million tokens in hundred-thousandths of a dollar, its
\* latency in milliseconds, and its quality in thousandths.
ModelProfile(cost, latency, quality) == [cost |-> cost, latency |-> latency, quality |-> quality]

StandardModelCatalog ==
  "claude-3-5-sonnet" :> ModelProfile(600000, 420, 965)
    @@ "gpt-4o" :> ModelProfile(437500, 390, 955)
    @@ "gemini-1-5-pro" :> ModelProfile(218750, 450, 940)
    @@ "claude-3-5-haiku" :> ModelProfile(160000, 210, 905)
    @@ "gpt-4o-mini" :> ModelProfile(26250, 180, 885)
    @@ "gemini-1-5-flash" :> ModelProfile(13125, 140, 865)
    @@ "llama-3-3-70b" :> ModelProfile(64000, 160, 910)
    @@ "llama-3-1-8b" :> ModelProfile(5000, 85, 810)

\* A cluster's GPUs, their hourly rate in cents and their MFU in thousandths.
Cluster(id, provider, accelerator, total, active, rate, mfu) ==
  [id |-> id, provider |-> provider, accelerator |-> accelerator, total |-> total,
   active |-> active, rate |-> rate, mfu |-> mfu]

DefaultFederatedClusters ==
  << Cluster("gke-us-central1-h100", "gcp", "h100", 512, 448, 385, 462),
     Cluster("eks-us-east-1-h100", "aws", "h100", 256, 192, 410, 418),
     Cluster("aks-westus3-a100", "azure", "a100", 128, 96, 340, 384),
     Cluster("onprem-dgx-h100", "on-prem", "h100", 64, 64, 210, 521) >>
=============================================================================
