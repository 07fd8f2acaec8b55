SPECIFICATION Spec
CONSTANTS
    CredentialInputs <- IngestCredentials
    EventInputs <- IngestEvents
    BatchIds <- TwoBatches
    Roles <- EachKindOfRole
    FreshnessWindow = 1
    MaxMetadataLen = 1
    MaxPayloadLen = 1
    StartTime = 1
    MaxTime = 3
    MaxDeposits = 4
INVARIANTS
    TypeOK
    CountersMatchTrail
    TrailRebuildsStorage
    StoredEventsVerify
    SignaturePinsReading
    TrailSelfContained
    ReplayConfined
    CustodyOrder
PROPERTIES
    DeviceIdsAreStable
    BatchesFollowLifecycle
