CONSTANTS
  p1 = p1
  p2 = p2
  p3 = p3
  t70 = t70
  t80 = t80
  Foreign = {t70, t80}
  Processes = {p1, p2, p3}
  Backend = "jsonl"
  None = None
  Broken = Broken
  Malformed = Malformed
  Own = Own
  Newest = Newest
  Latest = Latest
  Previous = Previous
  Scenarios <- MCScenarios
  DemoRun <- MCDemoRun
  OverlapTolerance = 5
  Models <- DefaultModels
  ModelPrice <- DefaultModelPricing
  Accelerators <- AcceleratorNames
  Profile <- AcceleratorCatalog
  Similar <- MCSimilar
  Generic = "generic_cloud"
  LocalModels = {"local-llama-3-8b"}
  LargeModels = {"gpt-4o"}
  ParetoAdvised = {"gpt-4o"}
  FrontierModels = {"gpt-4o"}
  DataNames = {"data_load"}
  SyncNames = {"nccl_sync"}
  CopyNames = {"copy"}
  ModelNames = {"llm_call"}
  ToolNames = {"web_search", "search"}
  QueryNames = {}
  Marks <- MCMarks
  Dispatchers = {d1, d2}
  Listeners = {l1}
  MaxEnvelopes = 2
  Engines = {e1}
  Workloads <- MCWorkloads
  Publishers = {t1, t2}
  Topics = {"metrics"}
  Handlers = {"echo", "bad"}
  Reaction <- MCReaction
  MaxHistory = 1
  MaxMessages = 3
  MaxSubscribed = 2
SPECIFICATION Spec
INVARIANT ListingIsByCreation
CHECK_DEADLOCK FALSE
