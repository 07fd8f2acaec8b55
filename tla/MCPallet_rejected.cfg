SPECIFICATION Spec
CONSTANTS
    CredentialInputs <- NoInput
    EventInputs <- NoInput
    BatchIds <- OneBatch
    Roles <- TwoRoles
    FreshnessWindow = 1
    MaxMetadataLen = 1
    MaxPayloadLen = 1
    StartTime = 1
    MaxTime = 2
    MaxDeposits = 3
PROPERTY
    RejectionsCounted
