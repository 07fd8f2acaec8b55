SPECIFICATION MultichainSpec
CONSTANTS
    CredentialInputs <- MCCredentials
    EventInputs <- MCEvents
    BatchIds <- MCBatches
    Roles <- MCRoles
    FreshnessWindow = 0
    MaxMetadataLen = 1
    MaxPayloadLen = 1
    StartTime = 1
    MaxTime = 2
    MaxDeposits = 4
    Daemon = daemon
    ZeroAccount = zero
    ZeroWord = none
    MaxBlocks = 3
    MaxFaults = 2
INVARIANTS
    WindowsInOrder
    BeliefIsCovered
PROPERTIES
    
    ChainsFormLedger
    EveryReadingCovered
\* The time, runtime events, blocks and faults considered are used up.
CHECK_DEADLOCK FALSE
