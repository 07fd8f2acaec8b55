SPECIFICATION Spec
CONSTANTS
    Address = {zero, alice, bob}
    ZeroAddress = zero
    Deployer = alice
    Bytes32 = {none, rootA, rootB}
    ZeroRoot = none
    RootA = rootA
    RootB = rootB
    PayloadInputs <- MCPayloads
    MaxBlock = 1
    MaxLogs = 4
INVARIANTS
    TypeOK
    EnumerationConsistent
    StatisticsReportLatest
    LogsRebuildRecords
    SubmittersWereAuthorized
PROPERTY
    AnchoringsAreWriteOnce
