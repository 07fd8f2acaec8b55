SPECIFICATION Spec
CONSTANTS
    CredentialInputs <- MCCredentials
    EventInputs <- MCEvents
    BatchIds <- NoBatch
    Roles <- NoBatch
    FreshnessWindow = 1
    MaxMetadataLen = 1
    MaxPayloadLen = 1
    StartTime = 10
    MaxTime = 12
    MaxDeposits = 3
INVARIANT
    EventsSignedAsVerified
