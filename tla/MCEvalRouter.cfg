CONSTANTS
  NumModels = 3
  Cost <- MCCost
  Latency <- MCLatency
  CatalogQuality <- MCQuality
  Callers = {c1, c2}
  Policies <- MCPolicies
  Grades = {7000, 10000}
  MaxGrades = 4
  None = None
SPECIFICATION Spec
PROPERTY MeasuredQualityDecides
PROPERTY SelectedIsOptimal
