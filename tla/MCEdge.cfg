SPECIFICATION EdgeSpec
CONSTANTS
    EdgeCredential <- MCCredential
    CredentialInputs <- MCCredentials
    EventInputs <- MCEvents
    BatchIds <- NoBatch
    Roles <- NoBatch
    FreshnessWindow = 2
    MaxMetadataLen = 1
    MaxPayloadLen = 1
    StartTime = 6
    MaxTime = 6
    MaxDeposits = 9
    EMIT_INTERVAL = 3
    READINGS = 8
    TicksPerSecond = 4
    Periods <- MCPeriods
INVARIANTS
    AdmittedAreStored
PROPERTY
    AdmittedWithinWindow
\* The trace ends with its last reading.
CHECK_DEADLOCK FALSE
