\* Two requests at a time for one slot, without a sponsor.
SPECIFICATION Spec
CONSTANTS
    s1 = s1
    a1 = a1
    None = None
    Requests = {r1, r2}
    Slots = {s1}
    SenderOf <- MCSenderOf
    Txs <- RetryTxs
    Malformed = {}
    Allowlist = None
    MaxCostWei = None
    QuotaWei = None
    BudgetWei = None
    WeiPerGwei = 2
    MaxCopies = 2
    MaxHistory = 2
PROPERTIES
    OutcomeIsKept
