SPECIFICATION MeasureSpec
CONSTANTS
    p = p
    q = q
    Payloads <- MCPayloads
    MaxWindow = 8
    n = 4
    idx = 2
INVARIANTS
    ProofPinsPayload
    RootAndCountPinWindow
    ContractProofPinsLeaf
    RoundtripVouches
    InclusionPinsFetched
\* A window that is full is closed, and a measurement ends with its report.
CHECK_DEADLOCK FALSE
