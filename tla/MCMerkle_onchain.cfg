SPECIFICATION Spec
CONSTANTS
    p = p
    q = q
    Payloads <- MCPayloads
    MaxWindow = 2
INVARIANT
    GeneratorRootVerifiesOnChain
\* A window that is full is closed.
CHECK_DEADLOCK FALSE
