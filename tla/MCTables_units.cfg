SPECIFICATION Spec
CONSTANTS
    CostFiles <- MCCostFiles
    LatencyFiles <- MCLatencyFiles
    ComplexityFiles <- MCComplexityFiles
    MaxRuns = 1
    MaxEdits = 1
INVARIANT
    LatenciesInSeconds
\* The runs and rewrites considered are used up.
CHECK_DEADLOCK FALSE
