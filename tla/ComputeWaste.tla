------------------------------ MODULE ComputeWaste -----------------------------
(***************************************************************************)
(* The four patterns of wasted compute, what they cost, and the efficiency *)
(* score of a GPU.  A telemetry sample is a record of whole numbers:       *)
(*   sm, cpu, eager   percent                                              *)
(*   pcie             MB/s                                                 *)
(*   nccl             milliseconds of waiting                              *)
(* Averages and shares of waste are in tenths.                             *)
(***************************************************************************)
EXTENDS Pricing

Patterns == <<"dataloader_starvation", "nccl_overhead", "pcie_bottleneck",
              "framework_overhead">>

ASSUME NoneIsNoPattern == None \notin Range(Patterns)

\* When a pattern is detected.
Position(pattern) == CHOOSE k \in DOMAIN Patterns : Patterns[k] = pattern

\* The averages over some time that are looked at for waste.
WasteSamples == [sm : Nat, pcie : Nat, nccl : Nat, cpu : Nat, eager : Nat]

Mean(samples, field) ==
  (10 * SumFunction([k \in DOMAIN samples |-> samples[k][field]])) \div Len(samples)

\* What is assumed of a run that was not measured.
Baseline == [sm |-> 650, pcie |-> 2500, nccl |-> 450, cpu |-> 850, eager |-> 120]

Averages(samples) ==
  IF samples = <<>> THEN Baseline
  ELSE [f \in {"sm", "pcie", "nccl", "cpu", "eager"} |-> Mean(samples, f)]

\* Faulty variant: the bus may be busy.
DataloaderWasteOnBusyBus(a) ==
  IF a.sm < 550 THEN RoundDiv(3 * (550 - a.sm), 4)
  ELSE IF a.sm < 700 THEN RoundDiv(2 * (700 - a.sm), 5)
  ELSE 0

\* The GPU is starved: it is idle, and so is the bus that should feed it.
DataloaderWaste(a) ==
  IF a.sm < 550 /\ a.pcie < 6000 THEN RoundDiv(3 * (550 - a.sm), 4)
  ELSE IF a.sm < 700 /\ a.pcie < 3000 THEN RoundDiv(2 * (700 - a.sm), 5)
  ELSE 0

\* GPUs wait for each other.
NcclWaste(a, gpus) ==
  IF gpus <= 1 /\ a.nccl <= 300 THEN 0
  ELSE IF a.nccl >= 800 THEN Lesser(350, RoundDiv(a.nccl, 4))
  ELSE IF a.nccl >= 300 THEN Lesser(200, RoundDiv(3 * a.nccl, 20))
  ELSE 0

\* The bus is saturated while the GPU is idle.
PcieWaste(a) ==
  IF a.pcie > 150000 /\ a.sm < 600 THEN 180
  ELSE IF a.pcie > 80000 /\ a.sm < 650 THEN 100
  ELSE 0

\* The host cannot launch kernels fast enough.  Without a busy host the share
\* is the measured one, whatever it is.
FrameworkWaste(a) ==
  IF a.cpu > 750 /\ a.sm < 750 THEN Greater(30, Lesser(250, a.eager))
  ELSE IF a.eager > 80 THEN a.eager
  ELSE 0

\* Pattern -> its share of the run.
Shares(a, gpus) ==
  [dataloader_starvation |-> DataloaderWaste(a), nccl_overhead |-> NcclWaste(a, gpus),
   pcie_bottleneck |-> PcieWaste(a), framework_overhead |-> FrameworkWaste(a)]

Severity(pattern, share) ==
  IF pattern \in {"dataloader_starvation", "nccl_overhead"}
  THEN IF share >= 200 THEN "critical" ELSE IF share >= 100 THEN "high" ELSE "moderate"
  ELSE IF share >= 150 THEN "high"
  ELSE IF pattern = "pcie_bottleneck" THEN "moderate" ELSE "low"

\* A component's cost has four decimals.
ShareOfCost(share, cost) ==
  100 * (share * (cost \div 100000) + RoundDiv(share * (cost % 100000), 100000))

OverPatterns(f) == f.dataloader_starvation + f.nccl_overhead
                     + f.pcie_bottleneck + f.framework_overhead

\* The components, by their share; of equal ones the first detected is first.
Components(shares) ==
  Ranked({p \in Range(Patterns) : shares[p] > 0},
    LAMBDA p, q : \/ shares[p] > shares[q]
                  \/ shares[p] = shares[q] /\ Position(p) < Position(q))

\* What the run costs if nobody says: its time at the accelerator's rate.
RunCost(duration, rate) ==
  (duration \div 360) * rate + RoundDiv((duration % 360) * rate, 360)

\* TFLOPs of a transformer's tokens.
Flops(tokens, billions, training) == (IF training THEN 6 ELSE 2) * billions * tokens

\* Hundredths of a percent of what the accelerators could do.
MfuOf(flops, peak, duration) == Lesser(10000, RoundDiv(10000 * flops, duration * peak))

MfuRating(mfu) ==
  IF mfu >= 4500 THEN "Optimal" ELSE IF mfu >= 3000 THEN "Moderate" ELSE "Critical Waste"

Mfu(flops, mfu, duration) ==
  [mfu |-> mfu, achieved |-> RoundDiv(flops, duration), rating |-> MfuRating(mfu)]

\* calculate_mfu()
CalculateMfu(tokens, billions, training, duration, accelerator, gpus) ==
  Mfu(Flops(tokens, billions, training),
      MfuOf(Flops(tokens, billions, training),
            GetAcceleratorProfile(accelerator).peak * Greater(1, gpus),
            Greater(1, duration)),
      Greater(1, duration))

\* The recommendations: one per component, and to move the run if it wastes a
\* quarter of its time.
Recommendations(components, total) ==
  components \o (IF total >= 250 THEN <<"workload_migration">> ELSE <<>>)

TotalShare(shares) == Lesser(1000, OverPatterns(shares))

\* What the components cost together.
WastedOf(shares, cost) ==
  OverPatterns([p \in DOMAIN shares |-> ShareOfCost(shares[p], cost)])

\* What they cost an hour, in cents.
BleedOf(shares, rate) ==
  OverPatterns([p \in DOMAIN shares |-> RoundDiv(shares[p] * rate, 1000)])

\* The report of a run that cost so much, by its shares of waste.
WasteReport(shares, components, rate, cost) ==
  [shares |-> shares, cost |-> cost, rate |-> rate, total |-> TotalShare(shares),
   wasted |-> WastedOf(shares, cost),
   effective |-> Greater(0, cost - WastedOf(shares, cost)),
   bleed |-> BleedOf(shares, rate), top |-> First(components),
   severity |-> [p \in DOMAIN shares |-> Severity(p, shares[p])],
   recommendations |-> Recommendations(components, TotalShare(shares))]

\* The hourly rate of all accelerators.
Rate(accelerator, gpus) == GetAcceleratorProfile(accelerator).hourly * Greater(1, gpus)

ReportAt(shares, rate, duration, cost) ==
  WasteReport(shares, Components(shares), rate, Or(cost, RunCost(duration, rate)))

\* detect_compute_waste()
DetectComputeWaste(samples, accelerator, gpus, duration, cost) ==
  ReportAt(Shares(Averages(samples), Greater(1, gpus)), Rate(accelerator, gpus),
           duration, cost)

-----------------------------------------------------------------------------
Capped(x) == Greater(0, Lesser(100, x))

\* The points that anomalies take from a GPU's score, in hundredths.
Deductions(gpu) ==
  (IF gpu.throttled THEN 1500 ELSE 0)
    + Lesser(1500, 300 * gpu.errors)
    + (IF gpu.nccl > 20 THEN Lesser(1500, 50 * (gpu.nccl - 20)) ELSE 0)

\* The first anomaly, or shortage, that applies.
PrimaryBottleneck(gpu) ==
  IF gpu.throttled THEN "thermal"
  ELSE IF gpu.nccl > 30 THEN "nccl"
  ELSE IF gpu.sm < 45 /\ gpu.bus < 20 THEN "dataloader"
  ELSE IF gpu.memory > 80 /\ gpu.sm < 60 THEN "memory"
  ELSE IF gpu.sm < 50 THEN "batch"
  ELSE "optimal"

\* The throughput to be gained, in tenths of a percent.
PotentialGain(gpu, bottleneck) ==
  CASE bottleneck = "thermal" -> 250
    [] bottleneck = "nccl" -> Lesser(400, 8 * gpu.nccl)
    [] bottleneck = "dataloader" -> 8 * (75 - gpu.sm)
    [] bottleneck = "memory" -> 190
    [] bottleneck = "batch" -> 7 * (80 - gpu.sm)
    [] OTHER -> 50

\* calculate_gpu_efficiency_score()
GpuEfficiencyScore(gpu) ==
  LET raw == 35 * Capped(gpu.sm) + 30 * Capped(gpu.memory)
               + 20 * Capped(Or(gpu.mfu, (3 * gpu.sm) \div 4)) + 15 * Capped(gpu.bus)
  IN  [score |-> RoundDiv(Greater(500, Lesser(10000, raw - Deductions(gpu))), 100),
       bottleneck |-> PrimaryBottleneck(gpu), gain |-> PotentialGain(gpu, PrimaryBottleneck(gpu))]
=============================================================================
