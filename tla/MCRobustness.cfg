SPECIFICATION StudySpec
CONSTANTS
    ANCHOR_MIN = 4
    EventsPerStep = 2
    LastStep = 24
    PartitionWindows <- MCWindows
    ChurnCases <- MCChurnCases
    Outages <- MCOutages
    Factors = 4
    K = 2
INVARIANTS
    PeakBounded
    BacklogCoversStaleness
    RecoveryPrompt
    SeriesAgree
    ReportedRecoveryHappened
    CurvesCountStates
PROPERTY
    Recovers
\* The program ends when the summary is written.
CHECK_DEADLOCK FALSE
