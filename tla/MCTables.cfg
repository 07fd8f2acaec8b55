SPECIFICATION Spec
CONSTANTS
    CostFiles <- MCCostFiles
    LatencyFiles <- MCLatencyFiles
    ComplexityFiles <- MCComplexityFiles
    MaxRuns = 2
    MaxEdits = 4
INVARIANTS
    RunLeavesPrefix
    LatencyViewsAgree
\* The runs and rewrites considered are used up.
CHECK_DEADLOCK FALSE
