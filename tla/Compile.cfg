\* One request beside one task of the broadcaster, over two endpoints.
CONSTANTS
    r1 = r1  b1 = b1
    Requests = {r1}
    Callers = {r1, b1}
    NumEndpoints = 2
    None = None
    MaxU64 = 255
    MaxFrames = 4
    MaxNonceKeys = 2
    MaxReferences = 1
    MaxVerifyGas = 40
    IntrinsicCost = 1
    PerFrameCost = 1
    SchemeCost <- MCSchemeCost
    ReferenceAddressGas = 1
    ReferenceGas = 1
    BlobGas = 1
    SignatureLength = 3
    Probes <- MCProbes
    Submissions <- MCSubmissions
    Configs <- MCConfigs
SPECIFICATION LiveSpec
INVARIANTS
    TypeOK
    GivesUpOnlyAfterAll
    VerdictEndsTheSearch
    DeclineOutranks
    RejectedIsJudged
    RetryableIsUnjudged
    SpendOrder
    AcceptedAsAgreed
    CeilingHolds
    GuardsAreApplied
    ShapesAgree
PROPERTIES
    AnsweredUnlessLeftWaiting
